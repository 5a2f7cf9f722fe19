------------------------- MODULE SiblingRoutesProofs -------------------------
(***************************************************************************)
(* Proofs about SiblingRoutes, for any Ingresses, contents and bounds.     *)
(*                                                                         *)
(* The properties speak of a state at rest.  What has to hold in every     *)
(* other one is that a route which does not show its Ingress and canaries  *)
(* as they are is still going to be made: its Ingress is queued, or a      *)
(* canary of it is, or the worker has it on its list.  That a route made   *)
(* of them is right is said of the translator, in the last sections.       *)
(***************************************************************************)
EXTENDS SiblingRoutes, FiniteSetTheorems, WellFoundedInduction, TLAPS

-----------------------------------------------------------------------------
(* The inductive invariant.                                                *)

Primary(n) == Live(n) /\ ~obj[n].c.canary

\* What the worker has in hand at each of its steps.
Working ==
    /\ w.pc # "idle" => w.n \in Name /\ obj[w.n].st # "new"
    /\ w.pc \in {"canaries", "conflicts", "apply"} => w.p \in Name /\ ~w.c.canary /\ w.c \in Contents[w.p]
    /\ \A t \in w.todo : /\ t[1] \in Name \ {w.n} /\ t = <<t[1], t[2]>> /\ ~t[2].canary
                         /\ t[2] \in Contents[t[1]]
    /\ \A s, t \in w.todo : s[1] = t[1] => s = t
    /\ w.todo # {} => w.pc \in {"next", "canaries", "conflicts", "apply"}
    /\ w.pc \in {"canaries", "conflicts", "apply"} => \A t \in w.todo : t[1] # w.p
    /\ w.pc \in {"canaries", "conflicts", "apply"} /\ w.n = w.p => w.todo = {}
    /\ w.pc = "primaries" => w.self.canary
    /\ w.pc # "idle" /\ w.term => obj[w.n].st = "term" /\ obj[w.n].c.canary /\ w.n \notin queue

\* The primaries a canary is being reconciled for.
Claimed(n) ==
    \/ w.pc = "primaries" /\ n \in primariesOf(w.n, w.self)
    \/ \E t \in w.todo : t[1] = n
    \/ w.pc \in {"canaries", "conflicts", "apply"} /\ w.p = n /\ w.n # n

\* n is a primary of m, a canary that is there or on its way out.
BelongsTo(m, n) == Exists(m) /\ obj[m].c.canary /\ n \in primariesOf(m, obj[m].c)

\* What a canary is reconciled for is its own, as long as the change that took
\* it away is known, or it changed itself.
Owing ==
    \A n \in Name : w.pc # "idle" /\ Primary(n) /\ Claimed(n) =>
        n \in lost \/ n \in queue \/ BelongsTo(w.n, n)

\* A primary is read again when it changed after the worker listed it.
Reread ==
    /\ \A t \in w.todo : Primary(t[1]) /\ obj[t[1]].c # t[2] => t[1] \in queue
    /\ \A n \in Name : w.pc \in {"canaries", "conflicts", "apply"} /\ w.p = n /\ Primary(n) /\ obj[n].c # w.c => n \in queue

Queued(n) == n \in queue \/ \E m \in queue : BelongsTo(m, n)

\* The route of n is going to be made.
Pending(n) ==
    \/ Queued(n)
    \/ w.pc = "primaries" /\ n \in primariesOf(w.n, w.self)
    \/ <<n, obj[n].c>> \in w.todo
    \/ w.pc \in {"canaries", "conflicts", "apply"} /\ w.p = n /\ w.c = obj[n].c

Listed(n) ==
    \E s \in SetToSeqs(findCanarySiblings(n, obj[n].c)) :
        w.canaries = [i \in DOMAIN s |-> obj[s[i]].c]

\* What the worker is about to write is right, or will be written again, or is
\* known to be outdated.
Current ==
    \A n \in Name : w.pc \in {"conflicts", "apply"} /\ w.p = n /\ Primary(n) /\ w.c = obj[n].c =>
        w.blind \/ Listed(n) \/ Queued(n)

Followed ==
    \A n \in Name : Primary(n) /\ n \notin lost =>
        (UpToDate(n) /\ (route[n].server => obj[n].c.key)) \/ Pending(n)

\* An older Ingress has the directive of n.
Suppressed(n) == \E m \in siblings(n) : suppresses(m, n, obj[n].c)

\* The directive is given up whenever an older Ingress is known to have it.
Yielded ==
    /\ \A n \in Name : w.pc = "apply" /\ w.p = n /\ Primary(n) /\ w.c = obj[n].c /\ Suppressed(n) =>
          w.blind \/ w.suppress \/ n \in queue
    /\ \A n \in Name : Primary(n) /\ n \notin lost /\ Suppressed(n) =>
          \/ ~route[n].server \/ n \in queue
          \/ w.pc \in {"canaries", "conflicts", "apply"} /\ w.n = n /\ w.p = n /\ w.c = obj[n].c

IInv == TypeOK /\ Working /\ Owing /\ Reread /\ Current /\ Followed /\ Yielded

-----------------------------------------------------------------------------
(* Numbers.                                                                *)

\* Some numbers have a least one.
LEMMA Least ==
    ASSUME NEW S, S \subseteq Nat, S # {}
    PROVE  \E x \in S : \A y \in S : x <= y
<1>1. PICK x \in S : \A y \in S : ~ (<<y, x>> \in OpToRel(<, Nat))
  BY NatLessThanWellFounded, WFMin, Zenon
<1>2. ASSUME NEW y \in S
      PROVE  x <= y
  <2>1. y \in Nat /\ x \in Nat /\ <<y, x>> \in Nat \X Nat
    OBVIOUS
  <2>2. ~ (<<y, x>> \in {p \in Nat \X Nat : p[1] < p[2]})
    BY <1>1 DEF OpToRel
  <2> QED BY <2>1, <2>2
<1> QED BY <1>2

\* Min is the least one.
LEMMA Smallest ==
    ASSUME NEW S, S \subseteq Nat, S # {}
    PROVE  Min(S) \in S /\ \A y \in S : Min(S) <= y
  BY Least DEF Min

\* Induction, for what can be said of a number by its membership in a set.
LEMMA Induction ==
    ASSUME NEW S, 0 \in S, \A m \in Nat : m \in S => m + 1 \in S
    PROVE  Nat \subseteq S
<1> DEFINE Bad == Nat \ S
<1> SUFFICES ASSUME Bad # {} PROVE FALSE
  OBVIOUS
<1>1. PICK n \in Bad : \A m \in Bad : n <= m
  BY Least
<1>2. n \in Nat /\ n # 0
  BY <1>1
<1>3. n - 1 \in Nat /\ n - 1 \notin Bad
  BY <1>1, <1>2
<1>4. n - 1 \in S
  BY <1>3
<1>5. (n - 1) + 1 \in S
  BY <1>3, <1>4
<1> QED BY <1>1, <1>2, <1>5

\* Finitely many numbers have a greatest one.
LEMMA Greatest ==
    ASSUME NEW S, S \subseteq Nat, S # {}, IsFiniteSet(S)
    PROVE  Max(S) \in S /\ \A y \in S : y <= Max(S)
<1> DEFINE Bound(f, n) == \E b \in Nat : \A i \in 1..n : f[i] <= b
           Bad == {n \in Nat : \E f \in [1..n -> Nat] : ~Bound(f, n)}
<1>1. Bad = {}
  <2>1. SUFFICES ASSUME Bad # {} PROVE FALSE
    OBVIOUS
  <2>2. PICK n \in Bad : \A m \in Bad : n <= m
    <3> HIDE DEF Bound
    <3>1. Bad \subseteq Nat
      OBVIOUS
    <3> QED BY <2>1, <3>1, Least
  <2>3. PICK f \in [1..n -> Nat] : ~Bound(f, n)
    BY <2>2
  <2>n. n \in Nat
    OBVIOUS
  <2>4. n # 0
    <3>1. n = 0 => Bound(f, n)
      BY DEF Bound
    <3> QED BY <2>3, <3>1
  <2>5. n - 1 \in Nat /\ n - 1 \notin Bad
    <3> HIDE DEF Bad
    <3> QED BY <2>n, <2>2, <2>4
  <2> DEFINE g == [i \in 1..n - 1 |-> f[i]]
  <2>6. g \in [1..n - 1 -> Nat] /\ \A i \in 1..n - 1 : g[i] = f[i]
    <3> HIDE DEF Bad
    <3> QED BY <2>n, <2>5
  <2> HIDE DEF g
  <2>7. PICK b \in Nat : \A i \in 1..n - 1 : g[i] <= b
    BY <2>5, <2>6
  <2>8. \A i \in 1..n - 1 : f[i] <= b
    BY <2>6, <2>7
  <2>9. f[n] \in Nat
    <3> HIDE DEF Bad
    <3> QED BY <2>4, <2>n
  <2>10. b + f[n] \in Nat /\ \A i \in 1..n : f[i] <= b + f[n]
    <3> HIDE DEF Bad
    <3>1. \A i \in 1..n : f[i] \in Nat /\ (i \in 1..n - 1 \/ i = n)
      BY <2>n
    <3> QED BY <2>n, <2>8, <2>9, <3>1
  <2> QED BY <2>3, <2>10
<1>2. PICK n \in Nat : ExistsSurjection(1..n, S)
  BY FS_NatSurjection, Zenon
<1>3. PICK f \in Surjection(1..n, S) : TRUE
  BY <1>2 DEF ExistsSurjection
<1>4. f \in [1..n -> Nat] /\ \A x \in S : \E i \in 1..n : f[i] = x
  BY <1>3 DEF Surjection
<1>5. PICK b \in Nat : \A i \in 1..n : f[i] <= b
  BY <1>1, <1>4
<1>6. \A x \in S : x <= b
  BY <1>4, <1>5
<1> HIDE DEF Bad
<1> DEFINE Above == {a \in Nat : \A x \in S : x <= a}
<1>7. PICK a \in Above : \A c \in Above : a <= c
  BY <1>6, Least
<1>8. a \in S
  <2>1. SUFFICES ASSUME a \notin S PROVE FALSE
    OBVIOUS
  <2>2. \A x \in S : x <= a - 1
    BY <1>7, <2>1
  <2>3. PICK x \in S : TRUE
    OBVIOUS
  <2>4. a - 1 \in Nat
    BY <1>7, <2>2, <2>3
  <2> QED BY <1>7, <2>2, <2>4
<1>9. \E x \in S : \A y \in S : x >= y
  BY <1>7, <1>8
<1>10. Max(S) \in S /\ \A y \in S : Max(S) >= y
  BY <1>9 DEF Max
<1> QED BY <1>10

-----------------------------------------------------------------------------
(* Sequences put together.                                                 *)

\* The function by which FlattenSeq is defined exists.
LEMMA FlattenFunction ==
    ASSUME NEW ss, NEW n \in Nat
    PROVE  \E f : f = [i \in 1..n |-> IF i = 1 THEN ss[i] ELSE f[i - 1] \o ss[i]]
<1> DEFINE S == {m \in Nat : \E f : f = [i \in 1..m |-> IF i = 1 THEN ss[i] ELSE f[i - 1] \o ss[i]]}
<1>1. 0 \in S
  <2> DEFINE g == [i \in 1..0 |-> {}]
  <2>1. g = [i \in 1..0 |-> IF i = 1 THEN ss[i] ELSE g[i - 1] \o ss[i]]
    OBVIOUS
  <2> QED BY <2>1
<1>2. ASSUME NEW m \in Nat, m \in S PROVE m + 1 \in S
  <2>1. PICK f : f = [i \in 1..m |-> IF i = 1 THEN ss[i] ELSE f[i - 1] \o ss[i]]
    BY <1>2
  <2> DEFINE g == [i \in 1..m + 1 |-> IF i = 1 THEN ss[i] ELSE f[i - 1] \o ss[i]]
  <2>a. \A i \in 1..m : f[i] = IF i = 1 THEN ss[i] ELSE f[i - 1] \o ss[i]
    BY <2>1, Zenon
  <2>b. \A i \in 1..m + 1 : g[i] = IF i = 1 THEN ss[i] ELSE f[i - 1] \o ss[i]
    BY Zenon
  <2>c. \A i \in 1..m : i \in 1..m + 1
    OBVIOUS
  <2>2. \A i \in 1..m : g[i] = f[i]
    BY <2>a, <2>b, <2>c, Zenon
  <2>3. \A i \in 1..m + 1 : i # 1 => g[i - 1] = f[i - 1]
    <3> HIDE DEF g
    <3> QED BY <2>2
  <2>4. g = [i \in 1..m + 1 |-> IF i = 1 THEN ss[i] ELSE g[i - 1] \o ss[i]]
    <3> DEFINE h == [i \in 1..m + 1 |-> IF i = 1 THEN ss[i] ELSE g[i - 1] \o ss[i]]
    <3>1. DOMAIN g = 1..m + 1 /\ DOMAIN h = 1..m + 1
      OBVIOUS
    <3>2. ASSUME NEW i \in 1..m + 1 PROVE g[i] = h[i]
      <4>1. i = 1 \/ g[i - 1] = f[i - 1]
        BY <2>3, Zenon
      <4>2. h[i] = IF i = 1 THEN ss[i] ELSE g[i - 1] \o ss[i]
        BY Zenon
      <4> HIDE DEF g, h
      <4> QED BY <4>1, <4>2, <2>b, Zenon
    <3>3. g = [i \in 1..m + 1 |-> g[i]] /\ h = [i \in 1..m + 1 |-> h[i]]
      OBVIOUS
    <3> HIDE DEF g, h
    <3>4. g = h
      BY <3>2, <3>3
    <3> QED BY <3>4 DEF h
  <2> HIDE DEF g
  <2>5. \E x : x = [i \in 1..m + 1 |-> IF i = 1 THEN ss[i] ELSE x[i - 1] \o ss[i]]
    BY <2>4, Zenon
  <2>6. m + 1 \in Nat
    OBVIOUS
  <2> QED BY <2>5, <2>6, Zenon
<1> HIDE DEF S
<1>3. n \in S
  BY <1>1, <1>2, Induction
<1> QED BY <1>3 DEF S

\* FlattenSeq is the last value of its recursive function.
LEMMA FlattenIs ==
    ASSUME NEW ss, Len(ss) \in Nat \ {0}
    PROVE  \E f : /\ f = [i \in 1..Len(ss) |-> IF i = 1 THEN ss[i] ELSE f[i - 1] \o ss[i]]
                  /\ FlattenSeq(ss) = f[Len(ss)]
<1> DEFINE f == CHOOSE f : f = [i \in 1..Len(ss) |-> IF i = 1 THEN ss[i] ELSE f[i - 1] \o ss[i]]
<1>1. f = [i \in 1..Len(ss) |-> IF i = 1 THEN ss[i] ELSE f[i - 1] \o ss[i]]
  BY FlattenFunction, Zenon
<1>2. FlattenSeq(ss) = f[Len(ss)]
  BY Zenon DEF FlattenSeq
<1> QED BY <1>1, <1>2

\* Where the elements of a concatenation come from.
LEMMA Concatenated ==
    ASSUME NEW T, NEW a \in Seq(T), NEW b \in Seq(T)
    PROVE  /\ a \o b \in Seq(T) /\ Len(a) \in Nat /\ Len(b) \in Nat
           /\ Len(a \o b) = Len(a) + Len(b)
           /\ \A k \in 1..Len(a) : (a \o b)[k] = a[k]
           /\ \A j \in 1..Len(b) : (a \o b)[Len(a) + j] = b[j]
  OBVIOUS

\* Sequences with the same elements in the same places are the same.
LEMMA SameSequence ==
    ASSUME NEW S, NEW s \in Seq(S), NEW T, NEW t \in Seq(T), Len(s) = Len(t),
           \A k \in 1..Len(s) : s[k] = t[k]
    PROVE  s = t
<1>1. s = [k \in 1..Len(s) |-> s[k]] /\ t = [k \in 1..Len(s) |-> t[k]]
  OBVIOUS
<1> QED BY <1>1

\* A sequence is one over its own elements.
LEMMA OwnElements ==
    ASSUME NEW T, NEW t \in Seq(T)
    PROVE  t \in Seq(ToSet(t))
  BY DEF ToSet

\* The length and the elements of a piece of a sequence.
LEMMA SubSeqIs ==
    ASSUME NEW T, NEW t \in Seq(T), NEW a \in 1..Len(t) + 1, NEW b \in 0..Len(t), a <= b + 1
    PROVE  /\ SubSeq(t, a, b) \in Seq(T) /\ Len(SubSeq(t, a, b)) = (b - a) + 1
           /\ \A k \in 1..(b - a) + 1 : SubSeq(t, a, b)[k] = t[(a + k) - 1]
<1>1. Len(t) \in Nat
  OBVIOUS
<1> QED BY <1>1

\* The first element of a sequence that has one.
LEMMA NonEmpty ==
    ASSUME NEW S, NEW s \in Seq(S), s # <<>>
    PROVE  Len(s) \in Nat \ {0} /\ DOMAIN s = 1..Len(s) /\ Head(s) = s[1]
  OBVIOUS

\* F has the parts of ss one after the other, part i after position at[i].
Laid(ss, n, F, at) ==
    /\ \A i \in 1..n : \A j \in 1..Len(ss[i]) :
          at[i] + j \in 1..Len(F) /\ F[at[i] + j] = ss[i][j]
    /\ \A k \in 1..Len(F) : \E i \in 1..n : \E j \in 1..Len(ss[i]) : k = at[i] + j
    /\ \A i, h \in 1..n : i < h => at[i] + Len(ss[i]) <= at[h]

\* FlattenSeq puts the parts one after the other, in their order.
LEMMA Flattened ==
    ASSUME NEW T, NEW ss, NEW n \in Nat, n # 0, Len(ss) = n,
           \A i \in 1..n : ss[i] \in Seq(T)
    PROVE  /\ FlattenSeq(ss) \in Seq(T)
           /\ \E at \in [1..n -> Nat] : Laid(ss, n, FlattenSeq(ss), at)
<1>1. PICK f : /\ f = [i \in 1..Len(ss) |-> IF i = 1 THEN ss[i] ELSE f[i - 1] \o ss[i]]
               /\ FlattenSeq(ss) = f[Len(ss)]
  BY FlattenIs
<1>2. \A i \in 1..n : f[i] = IF i = 1 THEN ss[i] ELSE f[i - 1] \o ss[i]
  BY <1>1, Zenon
<1>3. FlattenSeq(ss) = f[n]
  BY <1>1
<1> DEFINE at == [i \in 1..n |-> IF i = 1 THEN 0 ELSE Len(f[i - 1])]
           Typed(m) == f[m] \in Seq(T) /\ Len(f[m]) \in Nat /\ \A i \in 1..m : at[i] \in Nat
           Put(m) == \A i \in 1..m : \A j \in 1..Len(ss[i]) :
                        at[i] + j \in 1..Len(f[m]) /\ f[m][at[i] + j] = ss[i][j]
           Got(m) == \A k \in 1..Len(f[m]) : \E i \in 1..m : \E j \in 1..Len(ss[i]) : k = at[i] + j
           Upto(m) == \A i \in 1..m : at[i] + Len(ss[i]) <= Len(f[m])
           S == {m \in Nat : m \in 1..n => Typed(m) /\ Put(m) /\ Got(m) /\ Upto(m)}
<1>4. \A i \in 1..n : Len(ss[i]) \in Nat
  OBVIOUS
<1>5. 0 \in S
  OBVIOUS
<1>6. ASSUME NEW m \in Nat, m \in S PROVE m + 1 \in S
  <2> SUFFICES ASSUME m + 1 \in 1..n
               PROVE  Typed(m + 1) /\ Put(m + 1) /\ Got(m + 1) /\ Upto(m + 1)
    <3> HIDE DEF Typed, Put, Got, Upto
    <3> QED OBVIOUS
  <2>1. CASE m = 0
    <3>1. f[1] = ss[1] /\ at[1] = 0 /\ ss[1] \in Seq(T) /\ Len(ss[1]) \in Nat
      BY <1>2
    <3>2. \A i \in 1..1 : i = 1
      OBVIOUS
    <3> HIDE DEF at
    <3>3. Typed(1) /\ Upto(1)
      BY <3>1, <3>2
    <3>4. Put(1)
      BY <3>1, <3>2
    <3>5. Got(1)
      BY <3>1, <3>2
    <3> HIDE DEF Typed, Put, Got, Upto
    <3> QED BY <2>1, <3>3, <3>4, <3>5
  <2>2. CASE m # 0
    <3>1. m \in 1..n /\ m + 1 # 1 /\ (m + 1) - 1 = m
      BY <2>2
    <3>2. Typed(m) /\ Put(m) /\ Got(m) /\ Upto(m)
      BY <1>6, <3>1
    <3>3. f[m + 1] = f[m] \o ss[m + 1] /\ at[m + 1] = Len(f[m])
      BY <1>2, <3>1
    <3>4. f[m] \in Seq(T) /\ ss[m + 1] \in Seq(T) /\ Len(f[m]) \in Nat /\ Len(ss[m + 1]) \in Nat
      BY <3>2
    <3>5. /\ f[m + 1] \in Seq(T)
          /\ Len(f[m + 1]) = Len(f[m]) + Len(ss[m + 1])
          /\ \A k \in 1..Len(f[m]) : f[m + 1][k] = f[m][k]
          /\ \A j \in 1..Len(ss[m + 1]) : f[m + 1][Len(f[m]) + j] = ss[m + 1][j]
      <4> DEFINE a == f[m]
                 b == ss[m + 1]
      <4>1. a \in Seq(T) /\ b \in Seq(T)
        BY <3>4
      <4>2. /\ a \o b \in Seq(T)
            /\ Len(a \o b) = Len(a) + Len(b)
            /\ \A k \in 1..Len(a) : (a \o b)[k] = a[k]
            /\ \A j \in 1..Len(b) : (a \o b)[Len(a) + j] = b[j]
        <5> HIDE DEF a, b
        <5> QED BY <4>1, Concatenated
      <4> QED BY <4>2, <3>3, Zenon
    <3>6. \A i \in 1..m + 1 : i \in 1..m \/ i = m + 1
      OBVIOUS
    <3>7. \A i \in 1..m : at[i] \in Nat /\ Len(ss[i]) \in Nat
      BY <3>2, <3>1, <1>4
    <3> HIDE DEF at
    <3>8. Typed(m + 1)
      <4>1. Len(f[m + 1]) \in Nat
        <5> DEFINE a == Len(f[m])
                   b == Len(ss[m + 1])
        <5>1. a \in Nat /\ b \in Nat /\ Len(f[m + 1]) = a + b
          BY <3>4, <3>5
        <5> HIDE DEF a, b
        <5> QED BY <5>1
      <4>2. at[m + 1] \in Nat
        BY <3>3, <3>4
      <4>3. \A i \in 1..m + 1 : at[i] \in Nat
        BY <4>2, <3>6, <3>7
      <4> QED BY <4>1, <4>3, <3>5
    <3> DEFINE a == f[m]
               b == ss[m + 1]
               c == f[m + 1]
    <3>a. /\ Len(a) \in Nat /\ Len(b) \in Nat /\ Len(c) = Len(a) + Len(b) /\ at[m + 1] = Len(a)
          /\ \A k \in 1..Len(a) : c[k] = a[k]
          /\ \A j \in 1..Len(b) : c[Len(a) + j] = b[j]
      BY <3>3, <3>4, <3>5
    <3>b. \A i \in 1..m : \A j \in 1..Len(ss[i]) : at[i] + j \in 1..Len(a) /\ a[at[i] + j] = ss[i][j]
      BY <3>2
    <3>c. \A k \in 1..Len(a) : \E i \in 1..m : \E j \in 1..Len(ss[i]) : k = at[i] + j
      BY <3>2
    <3>9. Put(m + 1)
      <4> SUFFICES ASSUME NEW i \in 1..m + 1, NEW j \in 1..Len(ss[i])
                   PROVE  at[i] + j \in 1..Len(c) /\ c[at[i] + j] = ss[i][j]
        OBVIOUS
      <4>1. CASE i = m + 1
        <5> HIDE DEF a, c
        <5> QED BY <4>1, <3>a
      <4>2. CASE i \in 1..m
        <5>1. at[i] + j \in 1..Len(a) /\ a[at[i] + j] = ss[i][j]
          BY <3>b, <4>2
        <5> HIDE DEF a, b, c
        <5> QED BY <5>1, <3>a
      <4> QED BY <4>1, <4>2
    <3>10. Got(m + 1)
      <4> SUFFICES ASSUME NEW k \in 1..Len(c)
                   PROVE  \E i \in 1..m + 1 : \E j \in 1..Len(ss[i]) : k = at[i] + j
        OBVIOUS
      <4>1. CASE k \in 1..Len(a)
        <5>1. PICK i \in 1..m : \E j \in 1..Len(ss[i]) : k = at[i] + j
          BY <3>c, <4>1
        <5>2. i \in 1..m + 1
          OBVIOUS
        <5> HIDE DEF a, b, c
        <5> QED BY <5>1, <5>2
      <4>2. CASE k \notin 1..Len(a)
        <5>1. m + 1 \in 1..m + 1 /\ k - Len(a) \in 1..Len(b) /\ k = at[m + 1] + (k - Len(a))
          <6> HIDE DEF a, b, c
          <6> QED BY <4>2, <3>a
        <5> HIDE DEF a, c
        <5> QED BY <5>1
      <4> QED BY <4>1, <4>2
    <3>11. Upto(m + 1)
      <4> SUFFICES ASSUME NEW i \in 1..m + 1 PROVE at[i] + Len(ss[i]) <= Len(c)
        OBVIOUS
      <4>1. CASE i = m + 1
        <5> HIDE DEF a, c
        <5> QED BY <4>1, <3>a
      <4>2. CASE i \in 1..m
        <5>1. at[i] + Len(ss[i]) <= Len(a) /\ at[i] \in Nat /\ Len(ss[i]) \in Nat
          BY <3>2, <3>7, <4>2
        <5> HIDE DEF a, b, c
        <5> QED BY <5>1, <3>a
      <4> QED BY <4>1, <4>2
    <3> HIDE DEF Typed, Put, Got, Upto
    <3> QED BY <3>8, <3>9, <3>10, <3>11
  <2> QED BY <2>1, <2>2
<1> HIDE DEF S
<1>7. \A m \in 1..n : m \in S
  <2>1. Nat \subseteq S
    BY <1>5, <1>6, Induction
  <2> QED BY <2>1
<1>8. \A m \in 1..n : Typed(m) /\ Put(m) /\ Got(m) /\ Upto(m)
  BY <1>7 DEF S
<1>9. at \in [1..n -> Nat]
  BY <1>8
<1>10. \A i, h \in 1..n : i < h => at[i] + Len(ss[i]) <= at[h]
  <2> SUFFICES ASSUME NEW i \in 1..n, NEW h \in 1..n, i < h PROVE at[i] + Len(ss[i]) <= at[h]
    OBVIOUS
  <2>1. h - 1 \in 1..n /\ i \in 1..h - 1 /\ at[h] = Len(f[h - 1])
    OBVIOUS
  <2>2. Upto(h - 1)
    BY <1>8, <2>1
  <2>3. at[i] + Len(ss[i]) <= Len(f[h - 1])
    BY <2>2, <2>1
  <2> HIDE DEF at
  <2> QED BY <2>3, <2>1
<1> HIDE DEF at
<1>11. n \in 1..n
  OBVIOUS
<1>12. Typed(n) /\ Put(n) /\ Got(n)
  BY <1>8, <1>11
<1>13. /\ \A i \in 1..n : \A j \in 1..Len(ss[i]) :
            /\ at[i] + j \in 1..Len(FlattenSeq(ss))
            /\ FlattenSeq(ss)[at[i] + j] = ss[i][j]
       /\ \A k \in 1..Len(FlattenSeq(ss)) :
            \E i \in 1..n : \E j \in 1..Len(ss[i]) : k = at[i] + j
       /\ FlattenSeq(ss) \in Seq(T)
  <2> DEFINE r == f[n]
  <2>1. r = FlattenSeq(ss)
    BY <1>3
  <2>2. r \in Seq(T)
    BY <1>12
  <2>3. \A i \in 1..n : \A j \in 1..Len(ss[i]) :
          /\ at[i] + j \in 1..Len(r)
          /\ r[at[i] + j] = ss[i][j]
    BY <1>12
  <2>4. \A k \in 1..Len(r) : \E i \in 1..n : \E j \in 1..Len(ss[i]) : k = at[i] + j
    BY <1>12
  <2> HIDE DEF r, Typed, Put, Got, Upto
  <2> QED BY <2>1, <2>2, <2>3, <2>4, Zenon
<1>14. Laid(ss, n, FlattenSeq(ss), at)
  BY <1>10, <1>13, Zenon DEF Laid
<1> QED BY <1>9, <1>13, <1>14, Zenon

\* What is in a flattened sequence was in a part.
LEMMA FlattenedFrom ==
    ASSUME NEW ss, NEW n \in Nat, DOMAIN ss = 1..n, Len(ss) = n,
           \A i \in 1..n : ss[i] \in Seq(ToSet(ss[i]))
    PROVE  /\ FlattenSeq(ss) \in Seq(ToSet(FlattenSeq(ss)))
           /\ \A k \in DOMAIN FlattenSeq(ss) :
                 \E i \in 1..n : \E j \in DOMAIN ss[i] : FlattenSeq(ss)[k] = ss[i][j]
<1>1. CASE n = 0
  <2>1. FlattenSeq(ss) = ss
    BY <1>1 DEF FlattenSeq
  <2> QED BY <1>1, <2>1 DEF ToSet
<1>2. CASE n # 0
  <2> DEFINE T == UNION {ToSet(ss[i]) : i \in 1..n}
             F == FlattenSeq(ss)
  <2>1. \A i \in 1..n : ss[i] \in Seq(T)
    OBVIOUS
  <2> HIDE DEF T
  <2>2. F \in Seq(T)
    BY <1>2, <2>1, Flattened, Zenon
  <2>p. PICK at \in [1..n -> Nat] : Laid(ss, n, F, at)
    BY <1>2, <2>1, Flattened, Zenon
  <2>3. \A i \in 1..n : DOMAIN ss[i] = 1..Len(ss[i])
    BY <2>1
  <2> HIDE DEF F
  <2>4. DOMAIN F = 1..Len(F) /\ F \in Seq(ToSet(F))
    BY <2>2 DEF ToSet
  <2>5. ASSUME NEW k \in DOMAIN F PROVE \E i \in 1..n : \E j \in DOMAIN ss[i] : F[k] = ss[i][j]
    <3>1. PICK i \in 1..n : \E j \in 1..Len(ss[i]) : k = at[i] + j
      BY <2>p, <2>4 DEF Laid
    <3>2. PICK j \in 1..Len(ss[i]) : k = at[i] + j
      BY <3>1
    <3>3. F[k] = ss[i][j] /\ j \in DOMAIN ss[i]
      BY <2>p, <2>3, <3>2 DEF Laid
    <3> QED BY <3>3
  <2> QED BY <2>4, <2>5 DEF F
<1> QED BY <1>1, <1>2

-----------------------------------------------------------------------------
(* Who belongs to whom.                                                    *)

\* The controller asks for shared paths from both sides (sharesHostPath).
LEMMA SharesSymmetric == \A a, b : sharesHostPath(a, b) <=> sharesHostPath(b, a)
  BY DEF sharesHostPath

\* The primaries of a canary, in the terms of the invariant.
LEMMA PrimariesOf ==
    ASSUME NEW m, NEW n, NEW c
    PROVE  n \in primariesOf(m, c) <=>
             /\ n \in Name /\ n # m /\ Primary(n)
             /\ obj[n].c.cls = c.cls /\ sharesHostPath(obj[n].c, c)
  BY DEF primariesOf, siblings, Exists, Live, Primary

\* What findCanarySiblings finds and what reconcileCanaryPrimaries goes back to are
\* the same relation.
LEMMA CanariesOf ==
    ASSUME NEW n \in Name, Primary(n), NEW m
    PROVE  m \in findCanarySiblings(n, obj[n].c) <=> m \in Name /\ Live(m) /\ BelongsTo(m, n)
  BY PrimariesOf, SharesSymmetric
     DEF findCanarySiblings, isCanaryOf, siblings, Exists, Live, Primary, BelongsTo

-----------------------------------------------------------------------------
(* Types.                                                                  *)

\* What a path, a backend and a rule hold before the named ports are looked up.
PathShape(p) ==
    /\ p.path \in Seq(ToSet(p.path)) /\ p.exact \in BOOLEAN
    /\ p.num \in PortNumber \cup {0}
    /\ p.svc # NoService /\ p.num = 0 => p.port # ""
RefShape(b) ==
    /\ b = [svc |-> b.svc, port |-> b.port, weight |-> b.weight]
    /\ b.port \in PortNumber \cup {0} /\ b.weight \in 0..MaxTotal
RuleShape(r) ==
    /\ r = [path |-> r.path, exact |-> r.exact, header |-> r.header, refs |-> r.refs, filters |-> r.filters]
    /\ \A j \in DOMAIN r.refs : RefShape(r.refs[j])

\* The paths of an Ingress the API server admits have the shape the translator
\* relies on.
LEMMA PathsShape ==
    ASSUME NEW o, admissible(o)
    PROVE  /\ pathsOf(o) \in Seq(ToSet(pathsOf(o)))
           /\ \A k \in DOMAIN pathsOf(o) : PathShape(pathsOf(o)[k])
<1> DEFINE n == Len(o.rules)
           ss == [i \in DOMAIN o.rules |-> o.rules[i].paths]
<1>a. o.rules \in Seq(ToSet(o.rules))
  BY Zenon DEF admissible
<1>1. n \in Nat /\ DOMAIN o.rules = 1..n
  BY <1>a
<1>2. /\ DOMAIN ss = 1..n /\ Len(ss) = n
      /\ \A i \in 1..n : ss[i] = o.rules[i].paths
  BY <1>1
<1>3. ASSUME NEW i \in 1..n
      PROVE  ss[i] \in Seq(ToSet(ss[i])) /\ \A j \in DOMAIN ss[i] : PathShape(ss[i][j])
  <2>1. ss[i] = o.rules[i].paths /\ i \in DOMAIN o.rules
    BY <1>1, <1>2, Zenon
  <2> HIDE DEF ss, n
  <2>2. /\ ss[i] \in Seq(ToSet(ss[i]))
        /\ \A p \in ToSet(ss[i]) : PathShape(p)
    BY <2>1, Zenon DEF admissible, PathShape
  <2>3. \A j \in DOMAIN ss[i] : ss[i][j] \in ToSet(ss[i])
    BY DEF ToSet
  <2> QED BY <2>2, <2>3, Zenon
<1>4. pathsOf(o) = FlattenSeq(ss)
  BY DEF pathsOf
<1> HIDE DEF ss, n
<1>5. /\ FlattenSeq(ss) \in Seq(ToSet(FlattenSeq(ss)))
      /\ \A k \in DOMAIN FlattenSeq(ss) :
           \E i \in 1..n : \E j \in DOMAIN ss[i] : FlattenSeq(ss)[k] = ss[i][j]
  BY <1>1, <1>2, <1>3, FlattenedFrom, Zenon
<1> QED BY <1>3, <1>4, <1>5, Zenon

\* One or none, as a sequence.
LEMMA Optional ==
    ASSUME NEW T, NEW r \in T, NEW b \in BOOLEAN
    PROVE  (IF b THEN <<r>> ELSE <<>>) \in Seq(T)
<1>1. <<r>> \in Seq(T) /\ <<>> \in Seq(T)
  OBVIOUS
<1> QED BY <1>1, Zenon

\* A backend of such a path has a port, by number or still to be found by name.
LEMMA RefsShape ==
    ASSUME NEW p, PathShape(p)
    PROVE  RefShape(backendRefFromPath(p))
<1>1. MaxTotal \in Int /\ MaxTotal > 0
  BY DEF MaxTotal
<1>2. 1 \in 0..MaxTotal
  BY <1>1
<1> QED BY <1>2 DEF backendRefFromPath, RefShape, PathShape

\* The rules for a canary have proper weights: none is negative or above the total.
LEMMA CanaryRulesShape ==
    ASSUME NEW p, PathShape(p), NEW filters,
           NEW e, PathShape(e.path), validCanary(e.cfg), configured(e.cfg)
    PROVE  /\ buildCanaryRules(p, e, filters) \in Seq(ToSet(buildCanaryRules(p, e, filters)))
           /\ \A k \in DOMAIN buildCanaryRules(p, e, filters) :
                 RuleShape(buildCanaryRules(p, e, filters)[k])
<1> DEFINE primary == <<backendRefFromPath(p)>>
           canary == <<backendRefFromPath(e.path)>>
           never == rule(p, <<"header", "never">>, primary, filters)
           header == rule(p, canaryHeaderMatch(e.cfg), canary, filters)
           cookie == rule(p, cookieOnPattern, canary, filters)
           split == rule(p, AnyHeader, weightedRefs(p, e), filters)
           T == {never, header, cookie, split}
           B == buildCanaryRules(p, e, filters)
<1>1. RefShape(backendRefFromPath(p)) /\ RefShape(backendRefFromPath(e.path))
  BY RefsShape
<1>2. \A b, h : RefShape(b) => RuleShape(rule(p, h, <<b>>, filters))
  BY DEF RuleShape, rule
<1>3. RuleShape(never) /\ RuleShape(header) /\ RuleShape(cookie)
  BY <1>1, <1>2
<1>4. RuleShape(split)
  <2> DEFINE u == canaryTotal(e.cfg) - canaryWeight(e.cfg)
             v == canaryWeight(e.cfg)
             r == [backendRefFromPath(p) EXCEPT !.weight = u]
             s == [backendRefFromPath(e.path) EXCEPT !.weight = v]
  <2>1. u \in 0..MaxTotal /\ v \in 0..MaxTotal
    <3>1. canaryWeight(e.cfg) \in 0..canaryTotal(e.cfg) /\ canaryTotal(e.cfg) \in 1..MaxTotal
      BY DEF validCanary
    <3>2. MaxTotal \in Int
      BY DEF MaxTotal
    <3> QED BY <3>1, <3>2
  <2> HIDE DEF u, v
  <2>2. RefShape(r) /\ RefShape(s)
    BY <1>1, <2>1 DEF RefShape, backendRefFromPath
  <2>3. weightedRefs(p, e) = <<r, s>>
    BY DEF weightedRefs, u, v
  <2> HIDE DEF r, s
  <2>4. \A j \in DOMAIN weightedRefs(p, e) : RefShape(weightedRefs(p, e)[j])
    BY <2>2, <2>3
  <2> QED BY <2>4 DEF RuleShape, rule
<1> HIDE DEF never, header, cookie, split
<1>5. B = (((IF e.cfg.header /\ ~e.cfg.value /\ ~e.cfg.pattern THEN <<never>> ELSE <<>>)
             \o (IF e.cfg.header THEN <<header>> ELSE <<>>))
             \o (IF e.cfg.cookie THEN <<cookie>> ELSE <<>>))
             \o <<split>>
  BY Zenon DEF buildCanaryRules, never, header, cookie, split
<1>6. B \in Seq(T)
  <2> DEFINE b1 == IF e.cfg.header /\ ~e.cfg.value /\ ~e.cfg.pattern THEN <<never>> ELSE <<>>
             b2 == IF e.cfg.header THEN <<header>> ELSE <<>>
             b3 == IF e.cfg.cookie THEN <<cookie>> ELSE <<>>
  <2>1. e.cfg.header \in BOOLEAN /\ e.cfg.cookie \in BOOLEAN
    BY DEF configured
  <2>2. b1 \in Seq(T) /\ b2 \in Seq(T) /\ b3 \in Seq(T) /\ <<split>> \in Seq(T)
    <3>1. never \in T /\ header \in T /\ cookie \in T /\ split \in T
      OBVIOUS
    <3> HIDE DEF T
    <3> QED BY <2>1, <3>1, Optional
  <2>3. B = ((b1 \o b2) \o b3) \o <<split>>
    BY <1>5, Zenon
  <2> HIDE DEF b1, b2, b3, T, B
  <2> QED BY <2>2, <2>3
<1> HIDE DEF B
<1>7. B \in Seq(ToSet(B)) /\ \A k \in DOMAIN B : B[k] \in T
  BY <1>6 DEF ToSet
<1>8. \A r \in T : RuleShape(r)
  BY <1>3, <1>4
<1> HIDE DEF T
<1> QED BY <1>7, <1>8 DEF B

\* Every content some Ingress may have is admitted and its canary annotations parsed.
LEMMA Admitted == \A c \in Written : admissible(c) /\ configured(c.cfg)
  BY ContentsAssumption DEF Written

\* The last of some positions in a sequence.
LEMMA LastPosition ==
    ASSUME NEW n \in Nat, NEW S, S \subseteq 1..n, S # {}
    PROVE  Max(S) \in S
<1>1. IsFiniteSet(1..n)
  BY FS_Interval
<1>2. S \subseteq Nat
  OBVIOUS
<1>3. IsFiniteSet(S)
  BY <1>1, FS_Subset, Zenon
<1> QED BY <1>2, <1>3, Greatest

EntryOf(e, canaries, p) ==
    \E i \in usableCanaries(canaries, p) : \E j \in servedPaths(canaries[i], p) :
        e = [cfg |-> canaries[i].cfg, path |-> pathsOf(canaries[i])[j]]

\* The entry of a path is a path of a usable canary of the list, and there is
\* one whenever there is such a path.
LEMMA Entries ==
    ASSUME NEW canaries \in Seq(Written), NEW p
    PROVE  /\ p \in DOMAIN collectCanaryEntries(canaries) <=> usableCanaries(canaries, p) # {}
           /\ p \in DOMAIN collectCanaryEntries(canaries) =>
                EntryOf(collectCanaryEntries(canaries)[p], canaries, p)
<1> DEFINE paths == UNION {{x.path : x \in ToSet(pathsOf(canaries[i]))} : i \in DOMAIN canaries}
           E == collectCanaryEntries(canaries)
<1>1. E = [q \in {r \in paths : usableCanaries(canaries, r) # {}} |->
            LET c == canaries[Max(usableCanaries(canaries, q))]
            IN  [cfg |-> c.cfg, path |-> pathsOf(c)[Max(servedPaths(c, q))]]]
  BY DEF collectCanaryEntries
<1>2. usableCanaries(canaries, p) # {} => p \in paths
  <2> SUFFICES ASSUME NEW i \in usableCanaries(canaries, p) PROVE p \in paths
    OBVIOUS
  <2>1. i \in DOMAIN canaries /\ servedPaths(canaries[i], p) # {}
    BY DEF usableCanaries
  <2>2. PICK j \in DOMAIN pathsOf(canaries[i]) : pathsOf(canaries[i])[j].path = p
    BY <2>1 DEF servedPaths
  <2>3. pathsOf(canaries[i])[j] \in ToSet(pathsOf(canaries[i]))
    BY DEF ToSet
  <2> QED BY <2>1, <2>2, <2>3
<1> HIDE DEF paths
<1>3. p \in DOMAIN E <=> usableCanaries(canaries, p) # {}
  BY <1>1, <1>2
<1>4. ASSUME p \in DOMAIN E
      PROVE  EntryOf(E[p], canaries, p)
  <2> DEFINE i == Max(usableCanaries(canaries, p))
             j == Max(servedPaths(canaries[i], p))
  <2>1. E[p] = [cfg |-> canaries[i].cfg, path |-> pathsOf(canaries[i])[j]]
    BY <1>1, <1>4, Zenon
  <2>2. usableCanaries(canaries, p) \subseteq 1..Len(canaries) /\ Len(canaries) \in Nat
    BY DEF usableCanaries
  <2>3. i \in usableCanaries(canaries, p)
    BY <1>3, <1>4, <2>2, LastPosition
  <2> HIDE DEF i
  <2>4. canaries[i] \in Written /\ servedPaths(canaries[i], p) # {}
    BY <2>2, <2>3 DEF usableCanaries
  <2>5. pathsOf(canaries[i]) \in Seq(ToSet(pathsOf(canaries[i])))
    BY <2>4, Admitted, PathsShape
  <2>6. /\ servedPaths(canaries[i], p) \subseteq 1..Len(pathsOf(canaries[i]))
        /\ Len(pathsOf(canaries[i])) \in Nat
    BY <2>5 DEF servedPaths
  <2>7. j \in servedPaths(canaries[i], p)
    BY <2>4, <2>6, LastPosition
  <2> QED BY <2>1, <2>3, <2>7 DEF EntryOf
<1> QED BY <1>3, <1>4 DEF E

\* The rules made of a path with all that is usable are well-formed.
LEMMA RulesShape ==
    ASSUME NEW c \in Written, NEW canaries \in Seq(Written), NEW filters
    PROVE  LET R == buildHTTPRouteRules(c, collectCanaryEntries(canaries), filters)
           IN  R \in Seq(ToSet(R)) /\ \A k \in DOMAIN R : RuleShape(R[k])
<1> DEFINE ps == pathsOf(c)
           E == collectCanaryEntries(canaries)
           ss == [i \in DOMAIN ps |->
                    IF ps[i].path \in DOMAIN E /\ ps[i].svc # NoService
                    THEN buildCanaryRules(ps[i], E[ps[i].path], filters)
                    ELSE <<plainRule(ps[i], filters)>>]
           R == buildHTTPRouteRules(c, E, filters)
<1>1. R = FlattenSeq(ss)
  BY DEF buildHTTPRouteRules
<1>2. ps \in Seq(ToSet(ps)) /\ \A k \in DOMAIN ps : PathShape(ps[k])
  BY Admitted, PathsShape
<1>e. \A q \in DOMAIN E : EntryOf(E[q], canaries, q)
  BY Entries
<1> HIDE DEF ps, E
<1>3. Len(ps) \in Nat /\ DOMAIN ps = 1..Len(ps) /\ DOMAIN ss = 1..Len(ps) /\ Len(ss) = Len(ps)
  BY <1>2
<1>4. ASSUME NEW i \in DOMAIN ps
      PROVE  ss[i] \in Seq(ToSet(ss[i])) /\ \A k \in DOMAIN ss[i] : RuleShape(ss[i][k])
  <2>1. PathShape(ps[i])
    BY <1>2
  <2>2. CASE ps[i].path \in DOMAIN E /\ ps[i].svc # NoService
    <3>1. ss[i] = buildCanaryRules(ps[i], E[ps[i].path], filters)
      BY <2>2
    <3>2. PICK x \in usableCanaries(canaries, ps[i].path) :
            \E j \in servedPaths(canaries[x], ps[i].path) :
               E[ps[i].path] = [cfg |-> canaries[x].cfg, path |-> pathsOf(canaries[x])[j]]
      BY <2>2, <1>e, Zenon DEF EntryOf
    <3>3. PICK j \in servedPaths(canaries[x], ps[i].path) :
               E[ps[i].path] = [cfg |-> canaries[x].cfg, path |-> pathsOf(canaries[x])[j]]
      BY <3>2
    <3>4. /\ canaries[x] \in Written /\ validCanary(canaries[x].cfg)
          /\ j \in DOMAIN pathsOf(canaries[x])
      BY DEF usableCanaries, servedPaths
    <3>5. configured(canaries[x].cfg) /\ PathShape(pathsOf(canaries[x])[j])
      BY <3>4, Admitted, PathsShape
    <3>6. E[ps[i].path].cfg = canaries[x].cfg /\ E[ps[i].path].path = pathsOf(canaries[x])[j]
      BY <3>3
    <3> DEFINE e == E[ps[i].path]
    <3>7. PathShape(e.path) /\ validCanary(e.cfg) /\ configured(e.cfg)
      BY <3>4, <3>5, <3>6
    <3> HIDE DEF e
    <3>8. /\ buildCanaryRules(ps[i], e, filters) \in Seq(ToSet(buildCanaryRules(ps[i], e, filters)))
          /\ \A k \in DOMAIN buildCanaryRules(ps[i], e, filters) :
                RuleShape(buildCanaryRules(ps[i], e, filters)[k])
      BY <2>1, <3>7, CanaryRulesShape
    <3> QED BY <3>1, <3>8 DEF e
  <2>3. CASE ~ (ps[i].path \in DOMAIN E /\ ps[i].svc # NoService)
    <3>1. ss[i] = <<plainRule(ps[i], filters)>>
      BY <2>3
    <3>2. RuleShape(plainRule(ps[i], filters))
      <4>1. RefShape(backendRefFromPath(ps[i]))
        BY <2>1, RefsShape
      <4>2. \A b, h : RefShape(b) => RuleShape(rule(ps[i], h, <<b>>, filters))
        BY DEF RuleShape, rule
      <4>3. \A h : RuleShape(rule(ps[i], h, <<>>, filters))
        BY DEF RuleShape, rule
      <4> QED BY <4>1, <4>2, <4>3, Zenon DEF plainRule
    <3> DEFINE x == plainRule(ps[i], filters)
    <3> HIDE DEF x, ss
    <3>3. ss[i] = <<x>> /\ RuleShape(x)
      BY <3>1, <3>2 DEF x
    <3>4. <<x>> \in Seq(ToSet(<<x>>)) /\ \A k \in DOMAIN <<x>> : <<x>>[k] = x
      BY DEF ToSet
    <3> QED BY <3>3, <3>4
  <2> QED BY <2>2, <2>3
<1> HIDE DEF ss
<1>5. /\ FlattenSeq(ss) \in Seq(ToSet(FlattenSeq(ss)))
      /\ \A k \in DOMAIN FlattenSeq(ss) :
            \E i \in 1..Len(ps) : \E j \in DOMAIN ss[i] : FlattenSeq(ss)[k] = ss[i][j]
  BY <1>3, <1>4, FlattenedFrom
<1> QED BY <1>1, <1>3, <1>4, <1>5 DEF E

\* No translation leaves a port unresolved (ResolveNamedPorts).
LEMMA TranslationPorts ==
    ASSUME NEW c \in Written, NEW canaries \in Seq(Written), NEW b
    PROVE  PortsResolved(translation(c, canaries, b))
<1> DEFINE R == buildHTTPRouteRules(c, collectCanaryEntries(canaries), headerFilters(c))
           sources == <<c>> \o canaries
           N == ResolveNamedPorts(R, sources)
           t == translation(c, canaries, b)
<1>1. t.rules = N
  BY DEF translation, TranslateToHTTPRoute
<1>2. \A k \in DOMAIN R : RuleShape(R[k])
  BY RulesShape
<1>3. \A svc : resolvePort(sources, svc) \in PortNumber
  <2>1. FallbackPort \in PortNumber
    BY DEF FallbackPort, PortNumber, MaxPort
  <2> QED BY <2>1, PortAssumption, Zenon DEF resolvePort
<1> HIDE DEF R, sources
<1>4. ASSUME NEW i \in DOMAIN N, NEW j \in DOMAIN N[i].refs
      PROVE  N[i].refs[j].port \in PortNumber /\ N[i].refs[j].weight \in 0..MaxTotal
  <2> DEFINE refs == [k \in DOMAIN R[i].refs |->
                        IF R[i].refs[k].port # 0 THEN R[i].refs[k]
                        ELSE [R[i].refs[k] EXCEPT !.port = resolvePort(sources, R[i].refs[k].svc)]]
  <2>1. i \in DOMAIN R /\ N[i] = [R[i] EXCEPT !.refs = refs]
    BY DEF ResolveNamedPorts
  <2>2. R[i] = [path |-> R[i].path, exact |-> R[i].exact, header |-> R[i].header,
                refs |-> R[i].refs, filters |-> R[i].filters]
    BY <1>2, <2>1, Zenon DEF RuleShape
  <2>3. N[i].refs = refs
    <3> HIDE DEF refs, N
    <3> QED BY <2>1, <2>2
  <2>4. j \in DOMAIN R[i].refs /\ RefShape(R[i].refs[j])
    <3> HIDE DEF N
    <3> QED BY <1>2, <2>1, <2>3 DEF RuleShape
  <2> DEFINE r == R[i].refs[j]
  <2>5. N[i].refs[j] = IF r.port # 0 THEN r ELSE [r EXCEPT !.port = resolvePort(sources, r.svc)]
    <3> HIDE DEF N
    <3> QED BY <2>3, <2>4
  <2>6. resolvePort(sources, r.svc) \in PortNumber
    BY <1>3
  <2>7. RefShape(r)
    BY <2>4
  <2> HIDE DEF r, N
  <2> QED BY <2>5, <2>6, <2>7 DEF RefShape
<1> HIDE DEF t, N
<1> QED BY <1>1, <1>4, Zenon DEF PortsResolved, t

\* The worker between two reconciles is in its set.
LEMMA IdleType == Idle \in Workers
  BY DEF Idle, Workers, AnyContent, NoContent

\* What the lists give are sequences of contents.
LEMMA ListedType ==
    ASSUME obj \in [Name -> Ingresses],
           \A m \in Name : obj[m].st # "new" => obj[m].c \in Contents[m],
           NEW n, NEW c, NEW s \in SetToSeqs(findCanarySiblings(n, c))
    PROVE  [i \in DOMAIN s |-> obj[s[i]].c] \in Seq(Written)
<1> DEFINE F == findCanarySiblings(n, c)
<1>1. F \subseteq Name /\ IsFiniteSet(F)
  BY NameAssumption, FS_Subset DEF findCanarySiblings, siblings
<1>2. Cardinality(F) \in Nat
  BY <1>1, FS_CardinalityType
<1>3. DOMAIN s = 1..Cardinality(F) /\ \A i \in DOMAIN s : s[i] \in F
  BY DEF SetToSeqs
<1>4. \A m \in F : obj[m].c \in Written
  BY <1>1 DEF F, findCanarySiblings, isCanaryOf, Live, Written
<1> HIDE DEF F
<1> QED BY <1>2, <1>3, <1>4

\* The type invariant but for what the routes hold.
Shape ==
    /\ del \in BOOLEAN
    /\ obj \in [Name -> Ingresses] /\ DOMAIN route = Name
    /\ \A n \in Name :
          /\ obj[n].fin => del
          /\ obj[n].st # "new" => obj[n].c \in Contents[n]
          /\ route[n].server \in BOOLEAN
    /\ queue \subseteq Name /\ lost \subseteq Name
    /\ w \in Workers
    /\ events \in 0..MaxEvents /\ fails \in 0..MaxFails

\* TypeOK apart from the ports in the routes.
LEMMA TypeShape == TypeOK <=> Shape /\ \A n \in Name : PortsResolved(route[n])
  BY DEF TypeOK, Shape

\* The worker stays in its set.
LEMMA WorkerStep ==
    ASSUME Shape, Working, [Next]_vars
    PROVE  w' \in Workers
<1>w. \A n \in Name : Contents[n] \subseteq Written /\ Written \subseteq AnyContent
  BY DEF Written, AnyContent
<1> USE DEF Shape
<1>0. /\ \A a \in {"next", "canaries", "conflicts", "apply"} : [w EXCEPT !.pc = a] \in Workers
      /\ \A b \in BOOLEAN : [w EXCEPT !.blind = b] \in Workers
  BY DEF Workers
<1>1. ASSUME NEW M, Unseen(M) PROVE w' \in Workers
  BY <1>1, <1>0 DEF Unseen, Workers
<1>5. ASSUME NEW n \in Name, Reconcile(n) PROVE w' \in Workers
  <2>1. obj[n].c \in AnyContent
    BY DEF Ingresses
  <2>2. /\ [Idle EXCEPT !.pc = "primaries", !.n = n, !.self = obj[n].c, !.term = obj[n].st = "term"] \in Workers
        /\ [Idle EXCEPT !.pc = "canaries", !.n = n, !.p = n, !.c = obj[n].c] \in Workers
    BY <2>1, IdleType DEF Workers
  <2> QED BY <1>5, <2>2 DEF Reconcile
<1>6. CASE ListPrimaries
  <2>1. {<<m, obj[m].c>> : m \in primariesOf(w.n, w.self)} \in SUBSET (Name \X AnyContent)
    BY DEF primariesOf, siblings, Ingresses
  <2> QED BY <1>6, <2>1 DEF ListPrimaries, Workers
<1>7. CASE NextPrimary
  <2>1. PICK t \in w.todo :
          w' = [w EXCEPT !.pc = "canaries", !.todo = @ \ {t}, !.p = t[1], !.c = t[2]]
    BY <1>7 DEF NextPrimary
  <2>2. t \in Name \X AnyContent /\ w.todo \ {t} \in SUBSET (Name \X AnyContent)
    BY DEF Workers
  <2>3. t[1] \in Name /\ t[2] \in AnyContent
    BY <2>2
  <2> QED BY <2>1, <2>2, <2>3 DEF Workers
<1>8. CASE ListCanaries
  <2>1. PICK s \in SetToSeqs(findCanarySiblings(w.p, w.c)) :
          w' = [w EXCEPT !.pc = "conflicts", !.canaries = [i \in DOMAIN s |-> obj[s[i]].c]]
    BY <1>8 DEF ListCanaries
  <2> DEFINE q == [i \in DOMAIN s |-> obj[s[i]].c]
  <2>2. q \in Seq(Written)
    BY ListedType
  <2> HIDE DEF q
  <2>3. w' = [w EXCEPT !.pc = "conflicts", !.canaries = q]
    BY <2>1 DEF q
  <2> QED BY <2>2, <2>3 DEF Workers
<1>13. CASE ListConflicts
  <2> DEFINE e == \E m \in siblings(w.p) : suppresses(m, w.p, w.c)
  <2>1. e \in BOOLEAN
    OBVIOUS
  <2> HIDE DEF e
  <2>2. w' = [w EXCEPT !.pc = "apply", !.suppress = e]
    BY <1>13 DEF ListConflicts, e
  <2> QED BY <2>1, <2>2 DEF Workers
<1>9. CASE Apply
  <2>1. NoContent \in AnyContent /\ <<>> \in Seq(Written)
    BY DEF AnyContent
  <2>2. \/ w' = Idle
        \/ w' = [w EXCEPT !.pc = "next", !.p = 0, !.c = NoContent, !.canaries = <<>>,
                          !.suppress = FALSE, !.blind = FALSE]
    BY <1>9 DEF Apply
  <2>3. \A q \in Seq(Written), a \in AnyContent, b \in BOOLEAN :
          [w EXCEPT !.pc = "next", !.p = 0, !.c = a, !.canaries = q,
                    !.suppress = b, !.blind = b] \in Workers
    BY DEF Workers
  <2>4. [w EXCEPT !.pc = "next", !.p = 0, !.c = NoContent, !.canaries = <<>>,
                  !.suppress = FALSE, !.blind = FALSE] \in Workers
    BY <2>1, <2>3, Zenon
  <2> QED BY <2>2, <2>4, IdleType, Zenon
<1>10. CASE ListFails
  <2>1. \A a \in {"conflicts", "apply"} : [[w EXCEPT !.pc = a] EXCEPT !.blind = TRUE] \in Workers
    BY DEF Workers
  <2>2. w' \in {[w EXCEPT !.pc = "next"], [w EXCEPT !.pc = "conflicts", !.blind = TRUE],
                [w EXCEPT !.pc = "apply", !.blind = TRUE]}
    BY <1>10 DEF ListFails
  <2> QED BY <2>1, <2>2 DEF Workers
<1>11. CASE CallFails \/ Finish \/ UNCHANGED vars
  BY <1>11, IdleType DEF CallFails, Finish, vars
<1>12. ASSUME NEW n \in Name, NEW c, UserCreates(n, c) \/ UserEdits(n, c) \/ UserDeletes(n) \/ Collect(n)
       PROVE  w' \in Workers
  BY <1>12, <1>1 DEF UserCreates, UserEdits, UserDeletes, Collect
<1> QED BY <1>5, <1>6, <1>7, <1>8, <1>9, <1>10, <1>11, <1>12, <1>13 DEF Next

\* Who writes a route, and what.
LEMMA RouteStep ==
    ASSUME Shape, [Next]_vars
    PROVE  \/ route' = route
           \/ \E n \in Name : ~Primary(n) /\ route' = [route EXCEPT ![n] = NoRoute]
           \/ Apply /\ route' = [route EXCEPT ![w.p] = translation(w.c, w.canaries, w.suppress)]
  BY DEF Shape, Next, UserCreates, UserEdits, UserDeletes, Collect, Reconcile, ListPrimaries, NextPrimary,
         ListCanaries, ListConflicts, Apply, Finish, CallFails, ListFails, vars, Primary, Live

\* How an Ingress changes: its numbers and content stay, but when a user
\* writes it.
Same(n) == obj'[n].st = obj[n].st /\ obj'[n].ts = obj[n].ts /\ obj'[n].c = obj[n].c

\* What a step may do to the Ingresses.
LEMMA IngressStep ==
    ASSUME Shape, Working, [Next]_vars
    PROVE  \/ \A m \in Name : Same(m)
           \/ \E n \in Name : \E c \in Contents[n] : UserCreates(n, c) \/ UserEdits(n, c)
           \/ \E n \in Name : UserDeletes(n)
           \/ \E n \in Name : /\ obj[n].st = "term" /\ obj' = [obj EXCEPT ![n].st = "gone"]
                              /\ Reconcile(n) /\ ~obj[n].c.canary /\ w.pc = "idle"
           \/ Finish /\ w.term /\ obj' = [obj EXCEPT ![w.n].st = "gone"]
<1>1. ASSUME NEW n \in Name, Reconcile(n), ~ (obj[n].st = "term" /\ ~obj[n].c.canary)
      PROVE  \A m \in Name : Same(m)
  <2>1. obj' = obj \/ obj' = [obj EXCEPT ![n].fin = @ \/ del]
    BY <1>1 DEF Reconcile
  <2> QED BY <2>1 DEF Shape, Ingresses, Same
<1>2. ASSUME NEW n \in Name, Reconcile(n), obj[n].st = "term" /\ ~obj[n].c.canary
      PROVE  obj' = [obj EXCEPT ![n].st = "gone"] /\ w.pc = "idle"
  BY <1>2 DEF Reconcile, Exists, Live
<1> QED BY <1>1, <1>2
       DEF Shape, Next, Collect, ListPrimaries, NextPrimary, ListCanaries, ListConflicts, Apply,
           Finish, CallFails, ListFails, vars, Same

\* The clock shows a number.
LEMMA ClockType ==
    ASSUME Shape, Name # {}
    PROVE  Clock \in Nat
<1> DEFINE T == {obj[m].ts : m \in Name}
           f == [m \in Name |-> obj[m].ts]
<1>1. T \subseteq Nat /\ T # {}
  BY DEF Shape, Ingresses
<1>2. f \in Surjection(Name, T)
  BY DEF Surjection
<1>3. Clock = Max(T)
  BY DEF Clock
<1> HIDE DEF T, f
<1>4. IsFiniteSet(T)
  BY <1>2, NameAssumption, FS_Surjection
<1> QED BY <1>1, <1>3, <1>4, Greatest

\* A created Ingress has a number for its second, and those it overrules are noted.
LEMMA Created ==
    ASSUME Shape, NEW n \in Name, NEW c, UserCreates(n, c)
    PROVE  \E t \in Nat : /\ obj' = [obj EXCEPT ![n] = [st |-> "live", ts |-> t, fin |-> FALSE, c |-> c]]
                          /\ Unseen(overruled(n, c, t))
<1>1. Clock \in Nat
  BY ClockType
<1>2. {Clock, Clock + 1} \ {0} \subseteq Nat
  BY <1>1
<1> QED BY <1>2 DEF UserCreates

\* The types apart from the ports are kept.
LEMMA ShapeStep == Shape /\ Working /\ [Next]_vars => Shape'
<1> SUFFICES ASSUME Shape, Working, [Next]_vars PROVE Shape'
  OBVIOUS
<1>w. \A n \in Name : Contents[n] \subseteq Written /\ Written \subseteq AnyContent
  BY DEF Written, AnyContent
<1>1. w' \in Workers
  BY WorkerStep
<1>2. /\ obj' \in [Name -> Ingresses]
      /\ \A n \in Name : (obj[n].fin => del) => (obj'[n].fin => del')
      /\ \A n \in Name : (obj[n].st # "new" => obj[n].c \in Contents[n]) =>
                           (obj'[n].st # "new" => obj'[n].c \in Contents[n])
  <2> USE DEF Shape, Ingresses
  <2>1. ASSUME NEW n \in Name, NEW c \in Contents[n], UserCreates(n, c) PROVE <1>2
    <3>1. PICK t \in Nat : obj' = [obj EXCEPT ![n] = [st |-> "live", ts |-> t, fin |-> FALSE, c |-> c]]
      BY <2>1, Created
    <3>2. [st |-> "live", ts |-> t, fin |-> FALSE, c |-> c] \in Ingresses
      BY <1>w
    <3> QED BY <2>1, <3>1, <3>2 DEF UserCreates
  <2>2. ASSUME NEW n \in Name, NEW c \in Contents[n], UserEdits(n, c) PROVE <1>2
    BY <2>2, <1>w DEF UserEdits
  <2>3. ASSUME NEW n \in Name, UserDeletes(n) PROVE <1>2
    BY <2>3 DEF UserDeletes, Live
  <2>4. ASSUME NEW n \in Name, Reconcile(n) PROVE <1>2
    BY <2>4 DEF Reconcile, Live
  <2>5. CASE Finish
    BY <2>5 DEF Finish, Working
  <2> QED BY <2>1, <2>2, <2>3, <2>4, <2>5
         DEF Next, Collect, ListPrimaries, NextPrimary, ListCanaries, ListConflicts, Apply, CallFails, ListFails, vars
<1>3. DOMAIN route' = Name /\ \A n \in Name : route'[n].server \in BOOLEAN
  <2>1. NoRoute.server \in BOOLEAN /\ translation(w.c, w.canaries, w.suppress).server \in BOOLEAN
    BY DEF NoRoute, translation
  <2> HIDE DEF NoRoute, translation
  <2> QED BY <2>1, RouteStep DEF Shape
<1>4. del' = del
  BY DEF Next, UserCreates, UserEdits, UserDeletes, Collect, Reconcile, ListPrimaries,
         NextPrimary, ListCanaries, ListConflicts, Apply, Finish, CallFails, ListFails, vars
<1>5. queue' \subseteq Name
  BY DEF Shape, Working, Next, UserCreates, UserEdits, UserDeletes, Collect, Reconcile, ListPrimaries,
         NextPrimary, ListCanaries, ListConflicts, Apply, Finish, CallFails, ListFails, vars
<1>6. lost' \subseteq Name
  <2>1. /\ \A n, c : primariesOf(n, c) \subseteq Name /\ outdated(n, c) \subseteq Name
        /\ \A n, c, t : overruled(n, c, t) \subseteq Name
    BY DEF primariesOf, siblings, outdated, overruled
  <2>2. ASSUME NEW n \in Name, UserDeletes(n) PROVE lost' \subseteq Name
    BY <2>1, <2>2 DEF UserDeletes, Unseen, Shape
  <2>3. ASSUME NEW n \in Name, NEW c, UserEdits(n, c) PROVE lost' \subseteq Name
    BY <2>1, <2>3 DEF UserEdits, Unseen, Shape
  <2>6. ASSUME NEW n \in Name, NEW c, UserCreates(n, c) PROVE lost' \subseteq Name
    BY <2>1, <2>6, Created DEF Unseen, Shape
  <2>4. CASE ListFails
    BY <2>1, <2>4 DEF ListFails, Shape
  <2>5. CASE Apply
    BY <2>5 DEF Apply, Shape, Working
  <2> QED BY <2>2, <2>3, <2>4, <2>5, <2>6
         DEF Shape, Next, Collect, Reconcile, ListPrimaries, NextPrimary,
             ListCanaries, ListConflicts, Finish, CallFails, vars
<1>7. events' \in 0..MaxEvents /\ fails' \in 0..MaxFails
  <2>1. Event \/ events' = events
    BY DEF Next, UserCreates, UserEdits, UserDeletes, Collect, Reconcile, ListPrimaries, NextPrimary,
           ListCanaries, ListConflicts, Apply, Finish, CallFails, ListFails, vars
  <2>2. (fails < MaxFails /\ fails' = fails + 1) \/ fails' = fails
    BY DEF Next, UserCreates, UserEdits, UserDeletes, Collect, Reconcile, ListPrimaries, NextPrimary,
           ListCanaries, ListConflicts, Apply, Finish, CallFails, ListFails, vars
  <2> QED BY <2>1, <2>2, SiblingBounds DEF Shape, Event
<1> QED BY <1>1, <1>2, <1>3, <1>4, <1>5, <1>6, <1>7 DEF Shape

\* An absent route has no ports to resolve.
LEMMA NoRoutePorts == PortsResolved(NoRoute)
<1>1. DOMAIN NoRoute.rules = {}
  BY DEF NoRoute
<1>2. ASSUME NEW r, DOMAIN r.rules = {} PROVE PortsResolved(r)
  <2> DEFINE d == DOMAIN r.rules
  <2>1. \A i \in d : FALSE
    BY <1>2
  <2> QED BY <2>1, Zenon DEF PortsResolved
<1> HIDE DEF NoRoute
<1> QED BY <1>1, <1>2, Zenon

\* Each step keeps the types, the ports in the routes included.
LEMMA TypeStep == TypeOK /\ Working /\ [Next]_vars => TypeOK'
<1> SUFFICES ASSUME TypeOK, Working, [Next]_vars PROVE TypeOK'
  OBVIOUS
<1>1. Shape /\ \A n \in Name : PortsResolved(route[n])
  BY TypeShape
<1>2. Shape'
  BY <1>1, ShapeStep
<1>3. ASSUME NEW n \in Name PROVE PortsResolved(route'[n])
  <2>2. ASSUME Apply PROVE w.p \in Name /\ PortsResolved(translation(w.c, w.canaries, w.suppress))
    <3>1. w.p \in Name /\ w.c \in Contents[w.p]
      BY <2>2 DEF Working, Apply
    <3>2. w.c \in Written /\ w.canaries \in Seq(Written) /\ w.suppress \in BOOLEAN
      BY <1>1, <3>1 DEF Shape, Workers, Written
    <3> QED BY <3>1, <3>2, TranslationPorts
  <2> HIDE DEF NoRoute, translation
  <2>3. \/ route[n] = route'[n]
        \/ route'[n] = NoRoute
        \/ Apply /\ route'[n] = translation(w.c, w.canaries, w.suppress)
    <3>1. DOMAIN route = Name
      BY <1>1 DEF Shape
    <3>2. \A x, y : route' = [route EXCEPT ![x] = y] => route'[n] = route[n] \/ route'[n] = y
      BY <3>1
    <3>3. CASE \E m \in Name : ~Primary(m) /\ route' = [route EXCEPT ![m] = NoRoute]
      BY <3>2, <3>3
    <3>4. CASE Apply /\ route' = [route EXCEPT ![w.p] = translation(w.c, w.canaries, w.suppress)]
      BY <3>2, <3>4
    <3>5. CASE route' = route
      BY <3>5
    <3> QED BY <1>1, <3>3, <3>4, <3>5, RouteStep, Zenon
  <2> QED BY <1>1, <2>2, <2>3, NoRoutePorts, Zenon
<1> QED BY <1>2, <1>3 DEF TypeOK, Shape

\* What the users' steps leave to the worker.
Watched(n, M) ==
    /\ queue' = queue \cup {n}
    /\ lost' = lost \cup M
    /\ w' = [w EXCEPT !.blind = @ \/ (w.pc \in {"conflicts", "apply"} /\ w.p \in M)]
    /\ route' = route /\ del' = del

\* A user changes one Ingress, which is queued, and those kept from seeing it are noted.
LEMMA UserSteps ==
    ASSUME Shape, NEW n \in Name, NEW c, UserCreates(n, c) \/ UserEdits(n, c) \/ UserDeletes(n)
    PROVE  /\ obj[n].st \in {"new", "live"} /\ obj'[n].st # "new"
           /\ \A m \in Name : m # n => obj'[m] = obj[m]
           /\ \E M : Watched(n, M)
<1> USE DEF Shape
<1>1. CASE UserCreates(n, c)
  <2>1. PICK t \in Nat : /\ obj' = [obj EXCEPT ![n] = [st |-> "live", ts |-> t, fin |-> FALSE, c |-> c]]
                         /\ Unseen(overruled(n, c, t))
    BY <1>1, Created
  <2>2. Watched(n, overruled(n, c, t))
    BY <1>1, <2>1 DEF UserCreates, Unseen, Watched
  <2>3. obj'[n].st = "live" /\ \A m \in Name : m # n => obj'[m] = obj[m]
    BY <2>1
  <2> QED BY <1>1, <2>2, <2>3 DEF UserCreates
<1>2. CASE UserEdits(n, c)
  <2>1. Watched(n, outdated(n, c))
    BY <1>2 DEF UserEdits, Unseen, Watched
  <2>2. obj'[n].st = "live" /\ \A m \in Name : m # n => obj'[m] = obj[m]
    BY <1>2 DEF UserEdits, Live, Ingresses
  <2> QED BY <1>2, <2>1, <2>2 DEF UserEdits, Live
<1>3. CASE UserDeletes(n)
  <2> DEFINE M == IF obj[n].c.canary /\ ~obj[n].fin THEN primariesOf(n, obj[n].c) ELSE {}
  <2>1. Watched(n, M)
    BY <1>3, Zenon DEF UserDeletes, Unseen, Watched
  <2> HIDE DEF M
  <2>2. obj'[n].st \in {"term", "gone"} /\ \A m \in Name : m # n => obj'[m] = obj[m]
    BY <1>3 DEF UserDeletes, Live, Ingresses
  <2> QED BY <1>3, <2>1, <2>2 DEF UserDeletes, Live
<1> QED BY <1>1, <1>2, <1>3

\* Each step keeps what is said of the worker.
LEMMA WorkingStep == Shape /\ Working /\ [Next]_vars => Working'
<1> SUFFICES ASSUME Shape, Working, [Next]_vars PROVE Working'
  OBVIOUS
<1>t. w \in Workers /\ obj \in [Name -> Ingresses]
  BY DEF Shape
<1>i. /\ Idle.pc = "idle" /\ Idle.todo = {} /\ Idle.term = FALSE /\ Idle.n = 0 /\ Idle.p = 0
  BY DEF Idle
<1>1. ASSUME NEW n \in Name, NEW c, UserCreates(n, c) \/ UserEdits(n, c) \/ UserDeletes(n)
      PROVE  Working'
  <2>1. /\ obj[n].st \in {"new", "live"} /\ obj'[n].st # "new"
        /\ \A m \in Name : m # n => obj'[m] = obj[m]
        /\ \E M : Watched(n, M)
    BY <1>1, UserSteps, Zenon
  <2>2. /\ w'.pc = w.pc /\ w'.n = w.n /\ w'.p = w.p /\ w'.c = w.c /\ w'.todo = w.todo
        /\ w'.self = w.self /\ w'.term = w.term /\ queue' = queue \cup {n}
    BY <1>t, <2>1 DEF Watched, Workers
  <2>3. w.pc # "idle" => obj'[w.n].st # "new"
    BY <2>1 DEF Working
  <2>4. w.pc # "idle" /\ w.term => obj'[w.n] = obj[w.n] /\ w.n # n
    BY <2>1 DEF Working
  <2> QED BY <2>2, <2>3, <2>4 DEF Working
<1>2. CASE UNCHANGED <<obj, w, queue>>
  BY <1>2 DEF Working
<1>3. ASSUME NEW n \in Name, Reconcile(n) PROVE Working'
  <2>1. w.pc = "idle"
    BY <1>3 DEF Reconcile
  <2>2. CASE w' = w
    BY <2>1, <2>2, <1>3 DEF Working, Reconcile
  <2>3. CASE w' # w
    <3>1. /\ Live(n) \/ (obj[n].st = "term" /\ obj[n].c.canary)
          /\ obj' = [obj EXCEPT ![n].fin = @ \/ del]
          /\ queue' = queue \ {n}
          /\ w' = IF obj[n].c.canary
                  THEN [Idle EXCEPT !.pc = "primaries", !.n = n, !.self = obj[n].c,
                                    !.term = obj[n].st = "term"]
                  ELSE [Idle EXCEPT !.pc = "canaries", !.n = n, !.p = n, !.c = obj[n].c]
      BY <1>3, <2>3 DEF Reconcile
    <3>2. obj'[n].st = obj[n].st /\ obj'[n].c = obj[n].c /\ obj[n].st # "new" /\ obj[n].c \in Contents[n]
      BY <3>1, <1>t DEF Ingresses, Live, Shape
    <3>3. CASE obj[n].c.canary
      <4>1. /\ w'.pc = "primaries" /\ w'.n = n /\ w'.self = obj[n].c /\ w'.todo = {}
            /\ w'.term => obj[n].st = "term"
        BY <3>1, <3>3 DEF Idle
      <4> QED BY <4>1, <3>1, <3>2, <3>3 DEF Working
    <3>4. CASE ~obj[n].c.canary
      <4>1. w'.pc = "canaries" /\ w'.n = n /\ w'.p = n /\ w'.c = obj[n].c /\ w'.todo = {} /\ ~w'.term
        BY <3>1, <3>4 DEF Idle
      <4> QED BY <4>1, <3>1, <3>2, <3>4 DEF Working
    <3> QED BY <3>3, <3>4
  <2> QED BY <2>2, <2>3
<1>4. CASE w' = Idle
  BY <1>4, <1>i DEF Working
<1>5. CASE ListPrimaries
  <2>1. /\ w'.pc = "next" /\ w'.n = w.n /\ w'.term = w.term /\ w.pc = "primaries"
        /\ w'.todo = {<<m, obj[m].c>> : m \in primariesOf(w.n, w.self)}
        /\ UNCHANGED <<obj, queue>>
    BY <1>5, <1>t DEF ListPrimaries, Workers
  <2>2. \A m \in primariesOf(w.n, w.self) :
          m \in Name \ {w.n} /\ ~obj[m].c.canary /\ obj[m].c \in Contents[m]
    BY PrimariesOf DEF Primary, Live, Shape
  <2>3. \A t \in w'.todo : /\ t[1] \in Name \ {w.n} /\ t = <<t[1], t[2]>> /\ ~t[2].canary
                           /\ t[2] \in Contents[t[1]]
    BY <2>1, <2>2
  <2>4. \A s, t \in w'.todo : s[1] = t[1] => s = t
    BY <2>1
  <2> QED BY <2>1, <2>3, <2>4 DEF Working
<1>6. CASE NextPrimary
  <2>1. PICK t \in w.todo :
          w' = [w EXCEPT !.pc = "canaries", !.todo = @ \ {t}, !.p = t[1], !.c = t[2]]
    BY <1>6 DEF NextPrimary
  <2>2. /\ w'.pc = "canaries" /\ w'.n = w.n /\ w'.term = w.term /\ w.pc = "next"
        /\ w'.todo = w.todo \ {t} /\ w'.p = t[1] /\ w'.c = t[2]
        /\ UNCHANGED <<obj, queue>>
    BY <1>6, <2>1, <1>t DEF NextPrimary, Workers
  <2> QED BY <2>2 DEF Working
<1>7. CASE ListCanaries \/ ListConflicts \/ ListFails
  <2>1. /\ UNCHANGED <<obj, queue>> /\ w'.n = w.n /\ w'.term = w.term /\ w'.todo = w.todo
        /\ w'.p = w.p /\ w'.c = w.c /\ w'.self = w.self
        /\ \/ w.pc \in {"canaries", "conflicts"} /\ w'.pc \in {"conflicts", "apply"}
           \/ w.pc = "primaries" /\ w'.pc = "next"
    BY <1>7, <1>t DEF ListCanaries, ListConflicts, ListFails, Workers
  <2> QED BY <2>1 DEF Working
<1>8. CASE Apply
  <2>1. CASE w' # Idle
    <3>1. /\ UNCHANGED <<obj, queue>> /\ w'.n = w.n /\ w'.term = w.term /\ w'.todo = w.todo
          /\ w.pc = "apply" /\ w'.pc = "next"
      BY <1>8, <2>1, <1>t DEF Apply, Workers
    <3> QED BY <3>1 DEF Working
  <2> QED BY <1>4, <2>1
<1> QED BY <1>1, <1>2, <1>3, <1>4, <1>5, <1>6, <1>7, <1>8
       DEF Next, Collect, Finish, CallFails, vars

-----------------------------------------------------------------------------
(* What a step leaves of the view that the worker has of the namespace.    *)

\* What the canaries of n may be listed as.
Lists(n) == {[i \in DOMAIN s |-> obj[s[i]].c] : s \in SetToSeqs(findCanarySiblings(n, obj[n].c))}

\* Listed in terms of the lists a primary may get.
LEMMA ListedIs == \A n : Listed(n) <=> w.canaries \in Lists(n)
  BY DEF Listed, Lists

\* So is UpToDate.
LEMMA UpToDateIs ==
    \A n : UpToDate(n) <=> \E q \in Lists(n) : /\ route[n].hosts = TranslateToHTTPRoute(obj[n].c, q).hosts
                                               /\ route[n].rules = TranslateToHTTPRoute(obj[n].c, q).rules
  BY DEF UpToDate, Lists

\* The lists of a primary depend on its content and its canaries only.
LEMMA ListsKept ==
    ASSUME NEW n \in Name, obj'[n].c = obj[n].c,
           findCanarySiblings(n, obj[n].c)' = findCanarySiblings(n, obj[n].c),
           \A m \in findCanarySiblings(n, obj[n].c) : obj'[m].c = obj[m].c
    PROVE  Lists(n)' = Lists(n)
<1> DEFINE F == findCanarySiblings(n, obj[n].c)
<1>1. \A s \in SetToSeqs(F) : \A i \in DOMAIN s : s[i] \in F
  BY DEF SetToSeqs
<1>2. \A s \in SetToSeqs(F) : [i \in DOMAIN s |-> obj'[s[i]].c] = [i \in DOMAIN s |-> obj[s[i]].c]
  BY <1>1
<1>3. Lists(n)' = {[i \in DOMAIN s |-> obj'[s[i]].c] : s \in SetToSeqs(F)}
  BY DEF Lists
<1>4. Lists(n) = {[i \in DOMAIN s |-> obj[s[i]].c] : s \in SetToSeqs(F)}
  BY DEF Lists
<1> HIDE DEF F
<1> QED BY <1>2, <1>3, <1>4

\* A route stays up to date as long as neither it nor the lists change.
LEMMA UpToDateKept ==
    ASSUME NEW n \in Name, obj'[n].c = obj[n].c, route'[n] = route[n], Lists(n)' = Lists(n), UpToDate(n)
    PROVE  UpToDate(n)'
<1>1. PICK q \in Lists(n) : /\ route[n].hosts = TranslateToHTTPRoute(obj[n].c, q).hosts
                            /\ route[n].rules = TranslateToHTTPRoute(obj[n].c, q).rules
  BY UpToDateIs
<1>2. \E q1 \in Lists(n)' : /\ route'[n].hosts = TranslateToHTTPRoute(obj'[n].c, q1).hosts
                            /\ route'[n].rules = TranslateToHTTPRoute(obj'[n].c, q1).rules
  BY <1>1
<1> QED BY <1>2 DEF UpToDate, Lists

\* No Ingress in use comes, goes or changes.
SameView == \A m \in Name : (Live(m)' <=> Live(m)) /\ obj'[m].c = obj[m].c /\ obj'[m].ts = obj[m].ts

\* Steps that change no Ingress change nothing that the invariant says of them.
LEMMA View ==
    ASSUME SameView
    PROVE  /\ \A n \in Name : Primary(n)' <=> Primary(n)
           /\ \A n, c : primariesOf(n, c)' = primariesOf(n, c)
           /\ \A n \in Name : Suppressed(n)' <=> Suppressed(n)
           /\ \A n \in Name : Lists(n)' = Lists(n)
           /\ \A m, n \in Name : (Exists(m)' <=> Exists(m)) => (BelongsTo(m, n)' <=> BelongsTo(m, n))
<1>1. \A n \in Name : Primary(n)' <=> Primary(n)
  BY DEF SameView, Primary
<1>2. \A n, c : primariesOf(n, c)' = primariesOf(n, c)
  BY DEF SameView, primariesOf, siblings, Exists, Live
<1>3. \A n \in Name : Suppressed(n)' <=> Suppressed(n)
  BY DEF SameView, Suppressed, suppresses, isOlderIngress, siblings, Exists, Live
<1>4. ASSUME NEW n \in Name PROVE Lists(n)' = Lists(n)
  <2>1. obj'[n].c = obj[n].c
    BY DEF SameView
  <2>2. findCanarySiblings(n, obj[n].c)' = findCanarySiblings(n, obj[n].c)
    BY <2>1 DEF SameView, findCanarySiblings, isCanaryOf, siblings, Exists, Live
  <2>3. \A m \in findCanarySiblings(n, obj[n].c) : obj'[m].c = obj[m].c
    BY DEF SameView, findCanarySiblings, siblings
  <2> QED BY <2>1, <2>2, <2>3, ListsKept
<1>5. \A m, n \in Name : (Exists(m)' <=> Exists(m)) => (BelongsTo(m, n)' <=> BelongsTo(m, n))
  BY <1>2 DEF BelongsTo, SameView
<1> QED BY <1>1, <1>2, <1>3, <1>4, <1>5

\* A step of the worker or of the garbage collector.
LEMMA ViewStep ==
    ASSUME Shape, Working,
           \/ \E n \in Name : Collect(n) \/ Reconcile(n)
           \/ ListPrimaries \/ NextPrimary \/ ListCanaries \/ ListConflicts \/ Apply \/ Finish
           \/ CallFails \/ ListFails
    PROVE  SameView
<1>t. obj \in [Name -> Ingresses]
  BY DEF Shape
<1>1. CASE obj' = obj
  BY <1>1 DEF SameView, Live
<1>2. ASSUME NEW n \in Name, Reconcile(n) PROVE SameView
  <2>1. \/ obj' = obj
        \/ obj[n].st = "term" /\ obj' = [obj EXCEPT ![n].st = "gone"]
        \/ obj' = [obj EXCEPT ![n].fin = @ \/ del]
    BY <1>2 DEF Reconcile
  <2> QED BY <1>t, <2>1 DEF SameView, Live, Ingresses
<1>3. CASE Finish
  <2>1. obj' = obj \/ (w.n \in Name /\ obj[w.n].st = "term" /\ obj' = [obj EXCEPT ![w.n].st = "gone"])
    BY <1>3 DEF Finish, Working
  <2> QED BY <1>t, <2>1 DEF SameView, Live, Ingresses
<1> QED BY <1>1, <1>2, <1>3
       DEF Collect, ListPrimaries, NextPrimary, ListCanaries, ListConflicts, Apply, CallFails, ListFails

\* All that the worker keeps track of.
Tracked == Owing /\ Reread /\ Current /\ Followed /\ Yielded

\* The steps between the lists and the write leave it to the worker to write.
LEMMA ListStep ==
    ASSUME Shape, Working, Tracked, ListPrimaries \/ NextPrimary \/ ListCanaries \/ ListConflicts
    PROVE  Tracked'
<1>t. w \in Workers
  BY DEF Shape
<1>v. /\ \A n \in Name : Primary(n)' <=> Primary(n)
      /\ \A n, c : primariesOf(n, c)' = primariesOf(n, c)
      /\ \A n \in Name : Suppressed(n)' <=> Suppressed(n)
      /\ \A n \in Name : Lists(n)' = Lists(n)
      /\ \A m, n \in Name : BelongsTo(m, n)' <=> BelongsTo(m, n)
      /\ \A n \in Name : UpToDate(n) => UpToDate(n)'
      /\ \A n \in Name : Queued(n)' <=> Queued(n)
  <2>1. UNCHANGED <<obj, route, queue>>
    BY DEF ListPrimaries, NextPrimary, ListCanaries, ListConflicts
  <2>2. SameView
    BY ViewStep
  <2>3. /\ \A n \in Name : Primary(n)' <=> Primary(n)
        /\ \A n, c : primariesOf(n, c)' = primariesOf(n, c)
        /\ \A n \in Name : Suppressed(n)' <=> Suppressed(n)
        /\ \A n \in Name : Lists(n)' = Lists(n)
        /\ \A m, n \in Name : (Exists(m)' <=> Exists(m)) => (BelongsTo(m, n)' <=> BelongsTo(m, n))
    BY <2>2, View
  <2>4. \A m, n \in Name : BelongsTo(m, n)' <=> BelongsTo(m, n)
    BY <2>1, <2>3 DEF Exists
  <2>5. \A n \in Name : UpToDate(n) => UpToDate(n)'
    BY <2>1, <2>3, UpToDateKept
  <2>6. \A n \in Name : Queued(n)' <=> Queued(n)
    BY <2>1, <2>4 DEF Queued, Shape
  <2> QED BY <2>3, <2>4, <2>5, <2>6
<1>1. CASE ListPrimaries
  <2>1. /\ w.pc = "primaries" /\ w'.pc = "next" /\ w'.n = w.n
        /\ w'.todo = {<<m, obj[m].c>> : m \in primariesOf(w.n, w.self)}
        /\ UNCHANGED <<obj, route, queue, lost>>
    BY <1>1, <1>t DEF ListPrimaries, Workers
  <2>2. w.n \in Name
    BY <2>1 DEF Working
  <2>3. \A n \in Name : Claimed(n)' => Claimed(n)
    BY <2>1 DEF Claimed
  <2>4. Owing'
    BY <1>v, <2>1, <2>2, <2>3 DEF Owing, Tracked
  <2>5. Reread' /\ Current'
    BY <2>1 DEF Reread, Current
  <2>6. \A n \in Name : Pending(n) => Pending(n)'
    BY <1>v, <2>1 DEF Pending, Working
  <2>7. Followed'
    BY <1>v, <2>1, <2>6 DEF Followed, Tracked
  <2>8. Yielded'
    BY <1>v, <2>1 DEF Yielded, Tracked
  <2> QED BY <2>4, <2>5, <2>7, <2>8 DEF Tracked
<1>2. CASE NextPrimary
  <2>1. PICK t \in w.todo :
          w' = [w EXCEPT !.pc = "canaries", !.todo = @ \ {t}, !.p = t[1], !.c = t[2]]
    BY <1>2 DEF NextPrimary
  <2>2. /\ w.pc = "next" /\ w'.pc = "canaries" /\ w'.n = w.n
        /\ w'.todo = w.todo \ {t} /\ w'.p = t[1] /\ w'.c = t[2]
        /\ UNCHANGED <<obj, route, queue, lost>>
    BY <1>2, <2>1, <1>t DEF NextPrimary, Workers
  <2>3. \A n \in Name : Claimed(n)' => Claimed(n)
    BY <2>2 DEF Claimed
  <2>4. Owing'
    BY <1>v, <2>2, <2>3 DEF Owing, Tracked, Working
  <2>5. Reread' /\ Current'
    BY <1>v, <2>2 DEF Reread, Current, Tracked, Working
  <2>6. \A n \in Name : Pending(n) => Pending(n)'
    <3>1. t = <<t[1], t[2]>>
      BY DEF Working
    <3> QED BY <1>v, <2>2, <3>1 DEF Pending
  <2>7. Followed'
    BY <1>v, <2>2, <2>6 DEF Followed, Tracked
  <2>8. Yielded'
    BY <1>v, <2>2 DEF Yielded, Tracked
  <2> QED BY <2>4, <2>5, <2>7, <2>8 DEF Tracked
<1>3. CASE ListCanaries
  <2>1. PICK s \in SetToSeqs(findCanarySiblings(w.p, w.c)) :
          w' = [w EXCEPT !.pc = "conflicts", !.canaries = [i \in DOMAIN s |-> obj[s[i]].c]]
    BY <1>3 DEF ListCanaries
  <2>2. /\ w.pc = "canaries" /\ w'.pc = "conflicts" /\ w'.n = w.n
        /\ w'.todo = w.todo /\ w'.p = w.p /\ w'.c = w.c
        /\ w'.canaries = [i \in DOMAIN s |-> obj[s[i]].c]
        /\ UNCHANGED <<obj, route, queue, lost>>
    BY <1>3, <2>1, <1>t DEF ListCanaries, Workers
  <2>3. w.p \in Name
    BY <2>2 DEF Working
  <2>4. \A n \in Name : Claimed(n)' => Claimed(n)
    BY <2>2 DEF Claimed
  <2>5. Owing'
    BY <1>v, <2>2, <2>4 DEF Owing, Tracked, Working
  <2>6. Reread'
    BY <1>v, <2>2, <2>3 DEF Reread, Tracked, Working
  <2>7. w.c = obj[w.p].c => w'.canaries \in Lists(w.p)
    BY <2>2 DEF Lists
  <2>8. \A n \in Name : w.p = n /\ w.c = obj[n].c => Listed(n)'
    <3>1. \A n : Listed(n)' <=> w'.canaries \in Lists(n)'
      BY DEF Listed, Lists
    <3> QED BY <2>7, <1>v, <3>1
  <2>9. Current'
    BY <2>2, <2>8 DEF Current
  <2>10. \A n \in Name : Pending(n) => Pending(n)'
    BY <1>v, <2>2 DEF Pending
  <2>11. Followed'
    BY <1>v, <2>2, <2>10 DEF Followed, Tracked
  <2>12. Yielded'
    BY <1>v, <2>2 DEF Yielded, Tracked
  <2> QED BY <2>5, <2>6, <2>9, <2>11, <2>12 DEF Tracked
<1>4. CASE ListConflicts
  <2>1. /\ w.pc = "conflicts" /\ w'.pc = "apply" /\ w'.n = w.n
        /\ w'.todo = w.todo /\ w'.p = w.p /\ w'.c = w.c
        /\ w'.canaries = w.canaries /\ w'.blind = w.blind
        /\ w'.suppress = \E m \in siblings(w.p) : suppresses(m, w.p, w.c)
        /\ UNCHANGED <<obj, route, queue, lost>>
    BY <1>4, <1>t DEF ListConflicts, Workers
  <2>2. w.p \in Name
    BY <2>1 DEF Working
  <2>3. \A n \in Name : (Claimed(n)' => Claimed(n)) /\ (Pending(n) => Pending(n)')
    BY <1>v, <2>1 DEF Claimed, Pending
  <2>4. Owing'
    BY <1>v, <2>1, <2>3 DEF Owing, Tracked, Working
  <2>5. Reread'
    BY <1>v, <2>1, <2>2 DEF Reread, Tracked, Working
  <2>6. \A n \in Name : Listed(n) => Listed(n)'
    <3>1. \A n : Listed(n)' <=> w'.canaries \in Lists(n)'
      BY DEF Listed, Lists
    <3> QED BY <1>v, <2>1, <3>1, ListedIs
  <2>7. Current'
    BY <1>v, <2>1, <2>6 DEF Current, Tracked
  <2>8. Followed'
    BY <1>v, <2>1, <2>3 DEF Followed, Tracked
  <2>9. Yielded'
    <3>1. w.c = obj[w.p].c /\ Suppressed(w.p) => w'.suppress
      BY <2>1 DEF Suppressed
    <3> QED BY <1>v, <2>1, <2>2, <3>1 DEF Yielded, Tracked
  <2> QED BY <2>4, <2>5, <2>7, <2>8, <2>9 DEF Tracked
<1> QED BY <1>1, <1>2, <1>3, <1>4

\* What every step of the worker leaves alone.
LEMMA SameSteps ==
    ASSUME Shape, SameView
    PROVE  /\ \A n \in Name : Primary(n)' <=> Primary(n)
           /\ \A n \in Name : obj'[n].c = obj[n].c
           /\ \A n, c : primariesOf(n, c)' = primariesOf(n, c)
           /\ \A n \in Name : Suppressed(n)' <=> Suppressed(n)
           /\ \A n \in Name : route'[n] = route[n] /\ UpToDate(n) => UpToDate(n)'
           /\ \A m, n \in Name : (Exists(m)' <=> Exists(m)) => (BelongsTo(m, n)' <=> BelongsTo(m, n))
<1>1. /\ \A n \in Name : Primary(n)' <=> Primary(n)
      /\ \A n, c : primariesOf(n, c)' = primariesOf(n, c)
      /\ \A n \in Name : Suppressed(n)' <=> Suppressed(n)
      /\ \A n \in Name : Lists(n)' = Lists(n)
      /\ \A m, n \in Name : (Exists(m)' <=> Exists(m)) => (BelongsTo(m, n)' <=> BelongsTo(m, n))
  BY View
<1>2. \A n \in Name : obj'[n].c = obj[n].c
  BY DEF SameView
<1>3. \A n \in Name : route'[n] = route[n] /\ UpToDate(n) => UpToDate(n)'
  BY <1>1, <1>2, UpToDateKept
<1> QED BY <1>1, <1>2, <1>3

\* Without a worker at work only the routes are at stake.
LEMMA TrackedIdle ==
    ASSUME w'.pc = "idle", w'.todo = {}, Followed', Yielded'
    PROVE  Tracked'
  BY DEF Tracked, Owing, Reread, Current

\* The fields of a translation.
LEMMA TranslationFields ==
    \A c, q, b : /\ translation(c, q, b).hosts = TranslateToHTTPRoute(c, q).hosts
                 /\ translation(c, q, b).rules = TranslateToHTTPRoute(c, q).rules
                 /\ translation(c, q, b).server => c.key /\ ~b
  BY DEF translation

\* The write makes the route up to date, or says that it is not.
LEMMA ApplyStep ==
    ASSUME Shape, Working, Tracked, Apply
    PROVE  Tracked'
<1>t. w \in Workers /\ DOMAIN route = Name
  BY DEF Shape
<1>1. w.pc = "apply" /\ w.p \in Name /\ w.n \in Name /\ UNCHANGED <<obj, queue>>
  BY DEF Apply, Working
<1>2. /\ route'[w.p] = translation(w.c, w.canaries, w.suppress)
      /\ \A n \in Name : n # w.p => route'[n] = route[n]
  BY <1>t, <1>1 DEF Apply
<1>3. lost' = IF w.blind THEN lost \cup {w.p} ELSE lost \ {w.p}
  BY DEF Apply
<1>4. \/ w'.pc = "idle" /\ w'.todo = {} /\ w.n = w.p
      \/ w'.pc = "next" /\ w'.todo = w.todo /\ w'.n = w.n /\ w.n # w.p
  BY <1>t DEF Apply, Idle, Workers
<1>5. SameView
  BY ViewStep
<1>6. /\ \A n \in Name : Primary(n)' <=> Primary(n)
      /\ \A n \in Name : Suppressed(n)' <=> Suppressed(n)
      /\ \A n \in Name : route'[n] = route[n] /\ UpToDate(n) => UpToDate(n)'
      /\ \A m, n \in Name : BelongsTo(m, n)' <=> BelongsTo(m, n)
  BY <1>1, <1>5, SameSteps DEF Exists
<1>7. \A n \in Name : Queued(n)' <=> Queued(n)
  BY <1>1, <1>6 DEF Queued, Shape
<1>8. \A n \in Name : n # w.p /\ Pending(n) => Pending(n)'
  BY <1>1, <1>4, <1>7 DEF Pending, Working
<1>l. \A n \in Name : Lists(n)' = Lists(n)
  BY <1>5, View
<1>9. ASSUME NEW n \in Name, n = w.p, Primary(n), ~w.blind, w.c = obj[n].c, Listed(n)
      PROVE  UpToDate(n)' /\ (route'[n].server => obj[n].c.key)
  <2>1. w.canaries \in Lists(n)
    BY <1>9, ListedIs
  <2>2. Lists(n)' = Lists(n)
    BY <1>l
  <2>3. /\ route'[n].hosts = TranslateToHTTPRoute(obj[n].c, w.canaries).hosts
        /\ route'[n].rules = TranslateToHTTPRoute(obj[n].c, w.canaries).rules
        /\ route'[n].server => obj[n].c.key
    <3>1. route'[n] = translation(obj[n].c, w.canaries, w.suppress)
      BY <1>2, <1>9
    <3>2. \A r, c : r = translation(c, w.canaries, w.suppress) =>
            /\ r.hosts = TranslateToHTTPRoute(c, w.canaries).hosts
            /\ r.rules = TranslateToHTTPRoute(c, w.canaries).rules
            /\ r.server => c.key
      BY TranslationFields
    <3> QED BY <3>1, <3>2, Zenon
  <2>4. \E q \in Lists(n)' : /\ route'[n].hosts = TranslateToHTTPRoute(obj'[n].c, q).hosts
                             /\ route'[n].rules = TranslateToHTTPRoute(obj'[n].c, q).rules
    BY <1>1, <2>1, <2>2, <2>3
  <2>5. UpToDate(n)'
    BY <2>4 DEF UpToDate, Lists
  <2> QED BY <2>3, <2>5
<1>10. Followed'
  <2> SUFFICES ASSUME NEW n \in Name, Primary(n)', n \notin lost'
               PROVE  (UpToDate(n)' /\ (route'[n].server => obj'[n].c.key)) \/ Pending(n)'
    BY DEF Followed
  <2>1. CASE n = w.p
    <3>1. ~w.blind /\ Primary(n)
      BY <1>3, <1>6, <2>1
    <3>2. CASE w.c = obj[n].c
      <4>1. Listed(n) \/ Queued(n)
        BY <1>1, <2>1, <3>1, <3>2 DEF Tracked, Current
      <4> QED BY <1>1, <1>7, <1>9, <2>1, <3>1, <3>2, <4>1 DEF Pending
    <3>3. CASE w.c # obj[n].c
      <4>1. n \in queue
        BY <1>1, <2>1, <3>1, <3>3 DEF Tracked, Reread
      <4> QED BY <1>1, <4>1 DEF Pending, Queued
    <3> QED BY <3>2, <3>3
  <2>2. CASE n # w.p
    BY <1>1, <1>2, <1>3, <1>6, <1>8, <2>2 DEF Tracked, Followed
  <2> QED BY <2>1, <2>2
<1>11. Yielded'
  <2>1. ASSUME NEW n \in Name, Primary(n)', n \notin lost', Suppressed(n)'
        PROVE  ~route'[n].server \/ n \in queue'
    <3>0. Primary(n) /\ Suppressed(n)
      BY <1>6, <2>1
    <3>1. CASE n = w.p
      <4>1. ~w.blind
        BY <1>3, <2>1, <3>1
      <4>2. CASE w.c = obj[n].c
        <5>1. w.suppress \/ n \in queue
          BY <1>1, <3>0, <3>1, <4>1, <4>2 DEF Tracked, Yielded
        <5>2. w.suppress => ~route'[n].server
          BY <1>2, <3>1, TranslationFields, Zenon
        <5> QED BY <1>1, <5>1, <5>2
      <4>3. CASE w.c # obj[n].c
        BY <1>1, <3>0, <3>1, <4>3 DEF Tracked, Reread
      <4> QED BY <4>2, <4>3
    <3>2. CASE n # w.p
      BY <1>1, <1>2, <1>3, <2>1, <3>0, <3>2 DEF Tracked, Yielded
    <3> QED BY <3>1, <3>2
  <2> QED BY <1>4, <2>1 DEF Yielded
<1>12. CASE w'.pc = "idle" /\ w'.todo = {}
  BY <1>10, <1>11, <1>12, TrackedIdle
<1>13. CASE w'.pc = "next" /\ w'.todo = w.todo /\ w'.n = w.n
  <2>1. \A n \in Name : Claimed(n)' => Claimed(n) /\ n # w.p
    BY <1>1, <1>13 DEF Claimed, Working
  <2>2. Owing'
    BY <1>1, <1>3, <1>6, <1>13, <2>1 DEF Tracked, Owing
  <2>3. Reread' /\ Current'
    BY <1>1, <1>6, <1>13 DEF Tracked, Reread, Current, Working
  <2> QED BY <1>10, <1>11, <2>2, <2>3 DEF Tracked
<1> QED BY <1>4, <1>12, <1>13

\* A failing call leaves the Ingress queued, or its primaries noted as lost.
LEMMA FailStep ==
    ASSUME Shape, Working, Tracked, CallFails \/ ListFails
    PROVE  Tracked'
<1>t. w \in Workers
  BY DEF Shape
<1>1. UNCHANGED <<obj, route>> /\ queue \subseteq queue' /\ lost \subseteq lost' /\ w.n \in Name
  BY DEF CallFails, ListFails, Working
<1>2. /\ \A n \in Name : Primary(n)' <=> Primary(n)
      /\ \A n, c : primariesOf(n, c)' = primariesOf(n, c)
      /\ \A n \in Name : Suppressed(n)' <=> Suppressed(n)
      /\ \A n \in Name : UpToDate(n) => UpToDate(n)'
      /\ \A m, n \in Name : BelongsTo(m, n)' <=> BelongsTo(m, n)
  <2>1. SameView
    BY ViewStep
  <2> QED BY <1>1, <2>1, SameSteps DEF Exists
<1>3. \A n \in Name : Queued(n) => Queued(n)'
  BY <1>1, <1>2 DEF Queued, Shape
<1>4. CASE CallFails
  <2>1. /\ w'.pc = "idle" /\ w'.todo = {} /\ lost' = lost /\ w.n \in queue'
        /\ w.pc # "idle"
    BY <1>4 DEF CallFails, Idle
  <2>2. \A n \in Name : Primary(n) /\ n \notin lost /\ Claimed(n) => Queued(n)'
    BY <1>1, <1>2, <2>1 DEF Tracked, Owing, Queued
  <2>3. \A n \in Name : Pending(n) => Queued(n) \/ Claimed(n) \/ (w.n = n /\ w.p = n)
    BY DEF Pending, Claimed
  <2>4. \A n \in Name : Primary(n) /\ n \notin lost /\ Pending(n) => Pending(n)'
    BY <1>3, <2>1, <2>2, <2>3 DEF Pending, Queued
  <2>5. Followed'
    BY <1>1, <1>2, <2>1, <2>4 DEF Tracked, Followed
  <2>6. Yielded'
    BY <1>1, <1>2, <2>1 DEF Tracked, Yielded
  <2> QED BY <2>1, <2>5, <2>6, TrackedIdle
<1>5. CASE ListFails /\ w.pc = "primaries"
  <2>1. /\ w'.pc = "next" /\ w'.todo = {} /\ w'.n = w.n /\ queue' = queue
        /\ lost' = lost \cup primariesOf(w.n, w.self)
    BY <1>5, <1>t DEF ListFails, Workers, Working
  <2>2. Owing' /\ Reread' /\ Current'
    BY <2>1 DEF Owing, Claimed, Reread, Current
  <2>3. \A n \in Name : Pending(n) => Queued(n) \/ n \in lost'
    BY <1>5, <2>1 DEF Pending, Working
  <2>4. Followed'
    BY <1>1, <1>2, <1>3, <2>3 DEF Tracked, Followed, Pending
  <2>5. Yielded'
    BY <1>1, <1>2, <1>5, <2>1 DEF Tracked, Yielded
  <2> QED BY <2>2, <2>4, <2>5 DEF Tracked
<1>6. CASE ListFails /\ w.pc \in {"canaries", "conflicts"}
  <2>1. /\ w'.pc \in {"conflicts", "apply"} /\ w'.todo = w.todo /\ w'.n = w.n /\ w'.p = w.p /\ w'.c = w.c /\ w'.blind
        /\ queue' = queue /\ lost' = lost
    BY <1>6, <1>t DEF ListFails, Workers
  <2>2. \A n \in Name : (Claimed(n)' => Claimed(n)) /\ (Pending(n) => Pending(n)')
    BY <1>1, <1>3, <1>6, <2>1 DEF Claimed, Pending
  <2>3. Owing'
    BY <1>1, <1>2, <1>6, <2>1, <2>2 DEF Tracked, Owing
  <2>4. Reread'
    BY <1>1, <1>2, <1>6, <2>1 DEF Tracked, Reread, Working
  <2>5. Current'
    BY <2>1 DEF Current
  <2>6. Followed'
    BY <1>1, <1>2, <2>1, <2>2 DEF Tracked, Followed
  <2>7. Yielded'
    BY <1>1, <1>2, <1>6, <2>1 DEF Tracked, Yielded
  <2> QED BY <2>3, <2>4, <2>5, <2>6, <2>7 DEF Tracked
<1> QED BY <1>4, <1>5, <1>6 DEF ListFails

\* A canary is released only after the routes of its primaries are made.
LEMMA FinishStep ==
    ASSUME Shape, Working, Tracked, Finish
    PROVE  Tracked'
<1>1. /\ w.pc = "next" /\ w.todo = {} /\ w'.pc = "idle" /\ w'.todo = {}
      /\ UNCHANGED <<route, queue, lost>>
  BY DEF Finish, Idle
<1>2. SameView
  BY ViewStep
<1>3. \A m \in queue : Exists(m)' <=> Exists(m)
  <2>1. obj' = obj \/ (w.n \notin queue /\ w.n \in Name /\ obj' = [obj EXCEPT ![w.n].st = "gone"])
    BY DEF Finish, Working
  <2> QED BY <2>1 DEF Exists, Shape
<1>4. /\ \A n \in Name : Primary(n)' <=> Primary(n)
      /\ \A n \in Name : obj'[n].c = obj[n].c
      /\ \A n \in Name : Suppressed(n)' <=> Suppressed(n)
      /\ \A n \in Name : UpToDate(n) => UpToDate(n)'
      /\ \A m \in queue, n \in Name : BelongsTo(m, n)' <=> BelongsTo(m, n)
  BY <1>1, <1>2, <1>3, SameSteps DEF Shape
<1>5. \A n \in Name : Pending(n) => Pending(n)'
  BY <1>1, <1>4 DEF Pending, Queued
<1>6. Followed'
  BY <1>1, <1>4, <1>5 DEF Tracked, Followed
<1>7. Yielded'
  BY <1>1, <1>4 DEF Tracked, Yielded
<1> QED BY <1>1, <1>6, <1>7, TrackedIdle

\* The garbage collector does not touch the route of a primary that is there.
LEMMA IdleStep ==
    ASSUME Shape, Working, Tracked, (\E x \in Name : Collect(x)) \/ UNCHANGED vars
    PROVE  Tracked'
<1>1. UNCHANGED <<obj, w, queue, lost>>
  BY DEF Collect, vars
<1>2. SameView
  BY <1>1 DEF SameView, Live
<1>3. /\ \A n \in Name : Primary(n)' <=> Primary(n)
      /\ \A n, c : primariesOf(n, c)' = primariesOf(n, c)
      /\ \A n \in Name : Suppressed(n)' <=> Suppressed(n)
      /\ \A n \in Name : route'[n] = route[n] /\ UpToDate(n) => UpToDate(n)'
      /\ \A m, n \in Name : BelongsTo(m, n)' <=> BelongsTo(m, n)
  BY <1>1, <1>2, SameSteps DEF Exists
<1>4. \A n \in Name : (Queued(n)' <=> Queued(n)) /\ (Listed(n)' <=> Listed(n))
  <2>1. \A n \in Name : Lists(n)' = Lists(n)
    BY <1>2, View
  <2>2. \A n \in Name : Listed(n)' <=> w'.canaries \in Lists(n)'
    BY DEF Listed, Lists
  <2> QED BY <1>1, <1>3, <2>1, <2>2, ListedIs DEF Queued, Shape
<1>5. \A n \in Name : (Claimed(n)' <=> Claimed(n)) /\ (Pending(n)' <=> Pending(n))
  BY <1>1, <1>3, <1>4 DEF Claimed, Pending
<1>6. \A n \in Name : Primary(n) => route'[n] = route[n]
  BY DEF Primary, Live, Collect, vars, Shape
<1>7. Owing' /\ Reread'
  BY <1>1, <1>3, <1>5 DEF Tracked, Owing, Reread, Working
<1>8. Current'
  BY <1>1, <1>3, <1>4 DEF Tracked, Current
<1>9. Followed'
  BY <1>1, <1>3, <1>5, <1>6 DEF Tracked, Followed
<1>10. Yielded'
  BY <1>1, <1>3, <1>6 DEF Tracked, Yielded
<1> QED BY <1>7, <1>8, <1>9, <1>10 DEF Tracked

\* Who takes an Ingress off the queue has it in hand.
LEMMA ReconcileStep ==
    ASSUME Shape, Working, Tracked, NEW x \in Name, Reconcile(x)
    PROVE  Tracked'
<1>t. w \in Workers /\ obj \in [Name -> Ingresses]
  BY DEF Shape
<1>1. w.pc = "idle" /\ x \in queue /\ queue' = queue \ {x} /\ lost' = lost
  BY DEF Reconcile
<1>2. w.todo = {}
  BY <1>1 DEF Working
<1>3. SameView
  BY ViewStep
<1>4. \A n \in Name : n # x => route'[n] = route[n] /\ (Exists(n)' <=> Exists(n))
  BY <1>t DEF Reconcile, Exists, Shape
<1>5. /\ \A n \in Name : Primary(n)' <=> Primary(n)
      /\ \A n \in Name : obj'[n].c = obj[n].c
      /\ \A n, c : primariesOf(n, c)' = primariesOf(n, c)
      /\ \A n \in Name : Suppressed(n)' <=> Suppressed(n)
      /\ \A n \in Name : route'[n] = route[n] /\ UpToDate(n) => UpToDate(n)'
      /\ \A m, n \in Name : m # x => (BelongsTo(m, n)' <=> BelongsTo(m, n))
  BY <1>3, <1>4, SameSteps
<1>6. CASE Exists(x) /\ (obj[x].st = "term" => obj[x].c.canary)
  <2>1. /\ obj' = [obj EXCEPT ![x].fin = @ \/ del]
        /\ w' = IF obj[x].c.canary
                THEN [Idle EXCEPT !.pc = "primaries", !.n = x, !.self = obj[x].c,
                                  !.term = obj[x].st = "term"]
                ELSE [Idle EXCEPT !.pc = "canaries", !.n = x, !.p = x, !.c = obj[x].c]
        /\ route' = route
    BY <1>6 DEF Reconcile, Exists, Live
  <2>2. Exists(x)'
    BY <1>6, <2>1, <1>t DEF Exists, Ingresses
  <2>3. CASE obj[x].c.canary
    <3>1. w'.pc = "primaries" /\ w'.n = x /\ w'.self = obj[x].c /\ w'.todo = {}
      BY <2>1, <2>3 DEF Idle
    <3>2. \A n : n \in primariesOf(x, obj[x].c) <=> BelongsTo(x, n)
      BY <1>6, <2>3 DEF BelongsTo
    <3>3. \A n : n \in primariesOf(x, obj[x].c)' => BelongsTo(x, n)'
      BY <1>5, <2>2, <2>3 DEF BelongsTo
    <3>4. \A n \in Name : n \in primariesOf(w.n, w.self)' <=> n \in primariesOf(x, obj[x].c)
      BY <1>5, <3>1
    <3>5. Owing'
      BY <1>5, <3>1, <3>3, <3>4 DEF Owing, Claimed
    <3>6. Reread' /\ Current'
      BY <3>1 DEF Reread, Current
    <3>7. \A n \in Name : Primary(n) => n # x
      BY <2>3 DEF Primary
    <3>8. \A n \in Name : Primary(n) /\ Pending(n) => Pending(n)'
      BY <1>1, <1>2, <1>5, <3>1, <3>2, <3>4, <3>7 DEF Pending, Queued, Shape
    <3>9. Followed'
      BY <1>1, <1>5, <2>1, <3>8 DEF Tracked, Followed
    <3>10. Yielded'
      BY <1>1, <1>5, <2>1, <3>1, <3>7 DEF Tracked, Yielded
    <3> QED BY <3>5, <3>6, <3>9, <3>10 DEF Tracked
  <2>4. CASE ~obj[x].c.canary
    <3>1. w'.pc = "canaries" /\ w'.n = x /\ w'.p = x /\ w'.c = obj[x].c /\ w'.todo = {}
      BY <2>1, <2>4 DEF Idle
    <3>2. Owing' /\ Reread' /\ Current'
      BY <1>5, <3>1 DEF Owing, Claimed, Reread, Current
    <3>3. \A n : ~BelongsTo(x, n)
      BY <2>4 DEF BelongsTo
    <3>4. \A n \in Name : Pending(n) => Pending(n)'
      BY <1>1, <1>2, <1>5, <3>1, <3>3 DEF Pending, Queued, Shape
    <3>5. Followed'
      BY <1>1, <1>5, <2>1, <3>4 DEF Tracked, Followed
    <3>6. Yielded'
      BY <1>1, <1>5, <2>1, <3>1 DEF Tracked, Yielded
    <3> QED BY <3>2, <3>5, <3>6 DEF Tracked
  <2> QED BY <2>3, <2>4
<1>7. CASE ~ (Exists(x) /\ (obj[x].st = "term" => obj[x].c.canary))
  <2>1. w' = w /\ ~Primary(x) /\ \A n : ~BelongsTo(x, n)
    BY <1>7 DEF Reconcile, Primary, BelongsTo, Exists, Live
  <2>2. \A n \in Name : Primary(n) /\ Pending(n) => Pending(n)'
    BY <1>1, <1>2, <1>5, <2>1 DEF Pending, Queued, Shape
  <2>3. Followed'
    BY <1>1, <1>4, <1>5, <2>1, <2>2 DEF Tracked, Followed
  <2>4. Yielded'
    BY <1>1, <1>4, <1>5, <2>1 DEF Tracked, Yielded
  <2> QED BY <1>1, <1>2, <2>1, <2>3, <2>4, TrackedIdle
<1> QED BY <1>6, <1>7

-----------------------------------------------------------------------------
(* The steps of the users.                                                 *)

\* What a user does to x reaches the route of another Ingress n, or n is among
\* the M that it goes unnoticed for.
Reaches(x, n, M) ==
    /\ Primary(n)' => Primary(n)
    /\ obj'[n].c = obj[n].c
    /\ \A m, c : n \in primariesOf(m, c)' <=> n \in primariesOf(m, c)
    /\ \A m \in Name : BelongsTo(m, n) => BelongsTo(m, n)' \/ n \in M
    /\ Lists(n)' = Lists(n) \/ BelongsTo(x, n)' \/ n \in M
    /\ Suppressed(n)' => Suppressed(n) \/ n \in M

\* A change by a user is tracked if it reaches the routes it concerns: by the queue,
\* by the worker, or by being noted as lost.
LEMMA UserTracked ==
    ASSUME Shape, Working, Tracked, NEW x \in Name, NEW M, Watched(x, M),
           \A n \in Name : Primary(n)' /\ n # x => Reaches(x, n, M)
    PROVE  Tracked'
<1>t. w \in Workers
  BY DEF Shape
<1>1. /\ w'.pc = w.pc /\ w'.n = w.n /\ w'.p = w.p /\ w'.c = w.c /\ w'.todo = w.todo /\ w'.self = w.self
      /\ w'.canaries = w.canaries /\ w'.suppress = w.suppress
      /\ w.blind => w'.blind
      /\ w.pc \in {"conflicts", "apply"} /\ w.p \in M => w'.blind
  BY <1>t DEF Watched, Workers
<1>2. /\ queue' = queue \cup {x} /\ lost' = lost \cup M /\ route' = route
  BY DEF Watched
<1>3. ASSUME NEW n \in Name, Primary(n)', n # x
      PROVE  /\ Claimed(n)' => Claimed(n)
             /\ Queued(n) => Queued(n)' \/ n \in M
             /\ n \notin M /\ Pending(n) => Pending(n)'
             /\ UpToDate(n) => UpToDate(n)' \/ Queued(n)' \/ n \in M
             /\ Listed(n) => Listed(n)' \/ Queued(n)' \/ n \in M
  <2>1. Reaches(x, n, M)
    BY <1>3
  <2>2. \A m, c : n \in primariesOf(m, c)' <=> n \in primariesOf(m, c)
    BY <2>1 DEF Reaches
  <2>3. n \in primariesOf(w.n, w.self)' <=> n \in primariesOf(w.n, w.self)
    BY <2>2, <1>1
  <2>4. Queued(n) => Queued(n)' \/ n \in M
    BY <1>2, <2>1 DEF Reaches, Queued, Shape
  <2>5. BelongsTo(x, n)' => Queued(n)'
    BY <1>2 DEF Queued
  <2>6. CASE Lists(n)' = Lists(n)
    <3>1. UpToDate(n) => UpToDate(n)'
      BY <1>2, <2>1, <2>6, UpToDateKept DEF Reaches
    <3>2. Listed(n)' <=> w'.canaries \in Lists(n)'
      BY DEF Listed, Lists
    <3>3. Listed(n) => Listed(n)'
      BY <1>1, <2>6, <3>2, ListedIs
    <3> QED BY <1>1, <2>1, <2>3, <2>4, <3>1, <3>3 DEF Claimed, Pending, Reaches
  <2>7. CASE BelongsTo(x, n)' \/ n \in M
    BY <1>1, <2>1, <2>3, <2>4, <2>5, <2>7 DEF Claimed, Pending, Reaches
  <2> QED BY <2>1, <2>6, <2>7 DEF Reaches
<1>4. \A n \in Name : n # x /\ Primary(n)' =>
         /\ Primary(n) /\ obj'[n].c = obj[n].c
         /\ \A m \in Name : BelongsTo(m, n) => BelongsTo(m, n)' \/ n \in M
         /\ Suppressed(n)' => Suppressed(n) \/ n \in M
  BY DEF Reaches
<1>5. x \in queue' /\ queue \subseteq queue' /\ lost \subseteq lost' /\ M \subseteq lost' /\ Queued(x)'
  BY <1>2 DEF Queued
<1>6. Owing'
  <2> SUFFICES ASSUME NEW n \in Name, w'.pc # "idle", Primary(n)', Claimed(n)', n # x
               PROVE  n \in lost' \/ n \in queue' \/ BelongsTo(w.n, n)'
    BY <1>5 DEF Owing
  <2>1. n \in lost \/ n \in queue \/ BelongsTo(w.n, n)
    BY <1>1, <1>3, <1>4 DEF Tracked, Owing
  <2>2. w.n \in Name
    BY <1>1 DEF Working
  <2>3. \A m \in Name : m = w.n /\ BelongsTo(m, n) => BelongsTo(m, n)' \/ n \in M
    BY <1>4
  <2>4. BelongsTo(w.n, n) => BelongsTo(w.n, n)' \/ n \in M
    BY <2>2, <2>3, <1>1
  <2> QED BY <1>5, <2>1, <2>4
<1>7. Reread'
  BY <1>1, <1>4, <1>5 DEF Tracked, Reread, Working
<1>8. Current'
  <2> SUFFICES ASSUME NEW n \in Name, w'.pc \in {"conflicts", "apply"}, w'.p = n, Primary(n)',
                      w'.c = obj'[n].c, n # x
               PROVE  w'.blind \/ Listed(n)' \/ Queued(n)'
    BY <1>5 DEF Current
  <2>1. w.blind \/ Listed(n) \/ Queued(n)
    BY <1>1, <1>4 DEF Tracked, Current
  <2> QED BY <1>1, <1>3, <2>1
<1>9. Followed'
  <2> SUFFICES ASSUME NEW n \in Name, Primary(n)', n \notin lost', n # x
               PROVE  (UpToDate(n)' /\ (route'[n].server => obj'[n].c.key)) \/ Pending(n)'
    BY <1>5 DEF Followed, Pending
  <2>1. n \notin lost /\ n \notin M
    BY <1>5
  <2>2. (UpToDate(n) /\ (route[n].server => obj[n].c.key)) \/ Pending(n)
    BY <1>4, <2>1 DEF Tracked, Followed
  <2>3. Queued(n)' => Pending(n)'
    BY DEF Pending
  <2> QED BY <1>2, <1>3, <1>4, <2>1, <2>2, <2>3
<1>10. Yielded'
  <2>1. ASSUME NEW n \in Name, w'.pc = "apply", w'.p = n, Primary(n)', w'.c = obj'[n].c, Suppressed(n)', n # x
        PROVE  w'.blind \/ w'.suppress \/ n \in queue'
    BY <1>1, <1>4, <1>5, <2>1 DEF Tracked, Yielded
  <2>2. ASSUME NEW n \in Name, Primary(n)', n \notin lost', Suppressed(n)', n # x
        PROVE  \/ ~route'[n].server \/ n \in queue'
               \/ w'.pc \in {"canaries", "conflicts", "apply"} /\ w'.n = n /\ w'.p = n /\ w'.c = obj'[n].c
    BY <1>1, <1>2, <1>4, <1>5, <2>2 DEF Tracked, Yielded
  <2> QED BY <1>5, <2>1, <2>2 DEF Yielded
<1> QED BY <1>6, <1>7, <1>8, <1>9, <1>10 DEF Tracked

\* When x is all that changes, the view of another primary n changes by x alone.
LEMMA OnlyOne ==
    ASSUME NEW x \in Name, NEW n \in Name, n # x, Primary(n)',
           \A m \in Name : m # x => obj'[m] = obj[m]
    PROVE  /\ Primary(n) /\ obj'[n].c = obj[n].c
           /\ \A m, c : n \in primariesOf(m, c)' <=> n \in primariesOf(m, c)
           /\ \A m \in Name : m # x => (BelongsTo(m, n)' <=> BelongsTo(m, n))
           /\ ~BelongsTo(x, n) /\ ~BelongsTo(x, n)' => Lists(n)' = Lists(n)
           /\ Suppressed(n)' => Suppressed(n) \/ (x \in siblings(n)' /\ suppresses(x, n, obj[n].c)')
<1>1. Primary(n) /\ obj'[n] = obj[n]
  BY DEF Primary, Live
<1>2. \A m, c : n \in primariesOf(m, c)' <=> n \in primariesOf(m, c)
  BY <1>1 DEF primariesOf, siblings, Exists, Live
<1>3. \A m \in Name : m # x => (BelongsTo(m, n)' <=> BelongsTo(m, n))
  BY <1>2 DEF BelongsTo, Exists
<1>4. ASSUME ~BelongsTo(x, n), ~BelongsTo(x, n)' PROVE Lists(n)' = Lists(n)
  <2> DEFINE F == findCanarySiblings(n, obj[n].c)
  <2>1. \A m : m \in F <=> m \in Name /\ Live(m) /\ BelongsTo(m, n)
    BY <1>1, CanariesOf
  <2>2. \A m : m \in F' <=> m \in Name /\ Live(m)' /\ BelongsTo(m, n)'
    BY <1>1, <1>2, SharesSymmetric
       DEF findCanarySiblings, isCanaryOf, siblings, Exists, Live, Primary, BelongsTo, primariesOf
  <2>3. \A m \in Name : m # x => (Live(m)' <=> Live(m))
    BY DEF Live
  <2>4. F' = F /\ \A m \in F : m \in Name /\ m # x
    <3> HIDE DEF F
    <3> QED BY <1>3, <1>4, <2>1, <2>2, <2>3
  <2> QED BY <1>1, <2>4, ListsKept
<1>5. ASSUME Suppressed(n)', ~ (x \in siblings(n)' /\ suppresses(x, n, obj[n].c)')
      PROVE  Suppressed(n)
  <2>1. PICK m \in siblings(n)' : suppresses(m, n, obj[n].c)'
    BY <1>5 DEF Suppressed
  <2>2. m \in Name /\ m # x /\ obj'[m] = obj[m]
    BY <1>5, <2>1 DEF siblings
  <2>3. m \in siblings(n)
    BY <2>1, <2>2 DEF siblings, Exists
  <2>4. suppresses(m, n, obj[n].c)
    BY <1>1, <2>1, <2>2 DEF suppresses, isOlderIngress, Live
  <2> QED BY <2>3, <2>4 DEF Suppressed
<1> QED BY <1>1, <1>2, <1>3, <1>4, <1>5

\* A creation notes the routes that the new Ingress takes the directive from.
LEMMA CreateStep ==
    ASSUME Shape, Working, Tracked, NEW x \in Name, NEW c, UserCreates(x, c)
    PROVE  Tracked'
<1>1. PICK t \in Nat : /\ obj' = [obj EXCEPT ![x] = [st |-> "live", ts |-> t, fin |-> FALSE, c |-> c]]
                       /\ Unseen(overruled(x, c, t))
  BY Created
<1> DEFINE M == overruled(x, c, t)
<1>2. Watched(x, M)
  BY <1>1 DEF UserCreates, Unseen, Watched
<1>3. /\ \A m \in Name : m # x => obj'[m] = obj[m]
      /\ obj'[x].c = c /\ obj'[x].ts = t /\ obj[x].st = "new"
  BY <1>1 DEF UserCreates, Shape
<1>4. ASSUME NEW n \in Name, Primary(n)', n # x PROVE Reaches(x, n, M)
  <2>1. /\ Primary(n) /\ obj'[n].c = obj[n].c
        /\ \A m, d : n \in primariesOf(m, d)' <=> n \in primariesOf(m, d)
        /\ \A m \in Name : m # x => (BelongsTo(m, n)' <=> BelongsTo(m, n))
        /\ ~BelongsTo(x, n) /\ ~BelongsTo(x, n)' => Lists(n)' = Lists(n)
        /\ Suppressed(n)' => Suppressed(n) \/ (x \in siblings(n)' /\ suppresses(x, n, obj[n].c)')
    BY <1>3, <1>4, OnlyOne
  <2>2. ~BelongsTo(x, n)
    BY <1>3 DEF BelongsTo, Exists
  <2>3. suppresses(x, n, obj[n].c)' => n \in M
    <3> SUFFICES ASSUME suppresses(x, n, obj[n].c)' PROVE n \in M
      OBVIOUS
    <3>1. /\ ~c.canary /\ c.key /\ obj[n].c.key /\ isOlderIngress(x, t, n, obj[n].ts)
          /\ transformedHostSet(obj[n].c) \cap transformedHostSet(c) # {}
      BY <1>3, <1>4 DEF suppresses
    <3>2. n \in siblings(x)
      BY <1>4, <2>1 DEF siblings, Primary, Exists, Live
    <3> QED BY <3>1, <3>2 DEF overruled
  <2> HIDE DEF M
  <2> QED BY <2>1, <2>2, <2>3 DEF Reaches
<1> HIDE DEF M
<1> QED BY <1>2, <1>4, UserTracked

\* An edit notes the routes that the reconcile of the edited Ingress does not make again.
LEMMA EditStep ==
    ASSUME Shape, Working, Tracked, NEW x \in Name, NEW c \in Contents[x], UserEdits(x, c)
    PROVE  Tracked'
<1> DEFINE M == outdated(x, c)
<1>1. Watched(x, M)
  BY DEF UserEdits, Unseen, Watched
<1>2. /\ \A m \in Name : m # x => obj'[m] = obj[m]
      /\ obj'[x].c = c /\ obj'[x].st = "live" /\ obj[x].st = "live" /\ obj'[x].ts = obj[x].ts
  BY DEF UserEdits, Shape, Ingresses, Live
<1>3. ASSUME NEW n \in Name, Primary(n)', n # x PROVE Reaches(x, n, M)
  <2>1. /\ Primary(n) /\ obj'[n].c = obj[n].c
        /\ \A m, d : n \in primariesOf(m, d)' <=> n \in primariesOf(m, d)
        /\ \A m \in Name : m # x => (BelongsTo(m, n)' <=> BelongsTo(m, n))
        /\ ~BelongsTo(x, n) /\ ~BelongsTo(x, n)' => Lists(n)' = Lists(n)
        /\ Suppressed(n)' => Suppressed(n) \/ (x \in siblings(n)' /\ suppresses(x, n, obj[n].c)')
    BY <1>2, <1>3, OnlyOne
  <2>2. BelongsTo(x, n)' <=> c.canary /\ n \in primariesOf(x, c)
    BY <1>2, <2>1 DEF BelongsTo, Exists
  <2>3. BelongsTo(x, n) <=> obj[x].c.canary /\ n \in primariesOf(x, obj[x].c)
    BY <1>2 DEF BelongsTo, Exists
  <2>4. BelongsTo(x, n) => BelongsTo(x, n)' \/ n \in M
    BY <2>2, <2>3 DEF outdated
  <2>5. suppresses(x, n, obj[n].c)' => n \in M
    <3> SUFFICES ASSUME suppresses(x, n, obj[n].c)' PROVE n \in M
      OBVIOUS
    <3>1. /\ ~c.canary /\ c.key /\ obj[n].c.key /\ isOlderIngress(x, obj[x].ts, n, obj[n].ts)
          /\ transformedHostSet(obj[n].c) \cap transformedHostSet(c) # {}
      BY <1>2, <1>3 DEF suppresses
    <3>2. n \in siblings(x)
      BY <1>3, <2>1 DEF siblings, Primary, Exists, Live
    <3> QED BY <3>1, <3>2 DEF outdated, overruled
  <2> HIDE DEF M
  <2> QED BY <2>1, <2>4, <2>5 DEF Reaches
<1> HIDE DEF M
<1> QED BY <1>1, <1>3, UserTracked

\* A deleted canary is reconciled while it has the finalizer, and otherwise noted.
LEMMA DeleteStep ==
    ASSUME Shape, Working, Tracked, NEW x \in Name, UserDeletes(x)
    PROVE  Tracked'
<1> DEFINE M == IF obj[x].c.canary /\ ~obj[x].fin THEN primariesOf(x, obj[x].c) ELSE {}
<1>1. Watched(x, M)
  BY Zenon DEF UserDeletes, Unseen, Watched
<1>2. /\ \A m \in Name : m # x => obj'[m] = obj[m]
      /\ obj'[x].c = obj[x].c /\ obj'[x].st = (IF obj[x].fin THEN "term" ELSE "gone") /\ obj[x].st = "live"
  BY DEF UserDeletes, Shape, Ingresses, Live
<1>3. ASSUME NEW n \in Name, Primary(n)', n # x PROVE Reaches(x, n, M)
  <2>1. /\ Primary(n) /\ obj'[n].c = obj[n].c
        /\ \A m, d : n \in primariesOf(m, d)' <=> n \in primariesOf(m, d)
        /\ \A m \in Name : m # x => (BelongsTo(m, n)' <=> BelongsTo(m, n))
        /\ ~BelongsTo(x, n) /\ ~BelongsTo(x, n)' => Lists(n)' = Lists(n)
        /\ Suppressed(n)' => Suppressed(n) \/ (x \in siblings(n)' /\ suppresses(x, n, obj[n].c)')
    BY <1>2, <1>3, OnlyOne
  <2>2. BelongsTo(x, n) => BelongsTo(x, n)' \/ n \in M
    BY <1>2, <2>1 DEF BelongsTo, Exists
  <2>3. ~suppresses(x, n, obj[n].c)'
    BY <1>2 DEF suppresses, Live
  <2> HIDE DEF M
  <2> QED BY <2>1, <2>2, <2>3 DEF Reaches
<1> HIDE DEF M
<1> QED BY <1>1, <1>3, UserTracked

-----------------------------------------------------------------------------
(* The invariant holds.                                                    *)

\* At the start there is nothing to do.
LEMMA InitInvariant == Init => IInv
<1> SUFFICES ASSUME Init PROVE IInv
  OBVIOUS
<1>1. w.pc = "idle" /\ w.todo = {} /\ w \in Workers
  BY IdleType DEF Init, Idle
<1>2. \A n \in Name : obj[n].st = "new" /\ ~Primary(n)
  BY DEF Init, Primary, Live
<1>3. Shape
  <2>1. obj \in [Name -> Ingresses]
    BY DEF Init, Ingresses, AnyContent
  <2>2. \A n \in Name : route[n].server \in BOOLEAN /\ ~obj[n].fin
    BY DEF Init, NoRoute
  <2>3. /\ del \in BOOLEAN /\ DOMAIN route = Name /\ queue = {} /\ lost = {}
        /\ events = 0 /\ fails = 0
    BY DEF Init
  <2>4. 0 \in 0..MaxEvents /\ 0 \in 0..MaxFails
    BY SiblingBounds
  <2> QED BY <1>1, <1>2, <2>1, <2>2, <2>3, <2>4 DEF Shape
<1>4. TypeOK
  <2>1. \A n \in Name : route[n] = NoRoute
    BY DEF Init
  <2>2. \A n \in Name : PortsResolved(route[n])
    BY <2>1, NoRoutePorts, Zenon
  <2> QED BY <1>3, <2>2, TypeShape
<1>5. Working
  BY <1>1 DEF Working
<1> QED BY <1>1, <1>2, <1>4, <1>5 DEF IInv, Owing, Reread, Current, Followed, Yielded

\* The invariant is inductive.
LEMMA Invariance == IInv /\ [Next]_vars => IInv'
<1> SUFFICES ASSUME IInv, [Next]_vars PROVE IInv'
  OBVIOUS
<1>1. TypeOK /\ Working /\ Tracked /\ Shape
  BY TypeShape DEF IInv, Tracked
<1>2. TypeOK' /\ Working'
  BY <1>1, TypeStep, WorkingStep
<1>3. ASSUME UNCHANGED vars PROVE Tracked'
  BY <1>1, <1>3, IdleStep
<1>4. ASSUME Next PROVE Tracked'
  BY <1>1, <1>4, CreateStep, EditStep, DeleteStep, IdleStep, ReconcileStep, ListStep, ApplyStep,
     FinishStep, FailStep
     DEF Next
<1> QED BY <1>2, <1>3, <1>4 DEF IInv, Tracked

\* So it holds of every reachable state.
LEMMA InvariantHolds == Spec => []IInv
  BY InitInvariant, Invariance, PTL DEF Spec

-----------------------------------------------------------------------------
(* Hostnames.                                                              *)

\* What a suffix is, position by position.
LEMMA SuffixIs ==
    ASSUME NEW S, NEW s \in Seq(S), NEW T, NEW t \in Seq(T)
    PROVE  IsSuffix(s, t) <=> /\ Len(s) <= Len(t)
                              /\ \A k \in 1..Len(s) : s[k] = t[Len(t) - Len(s) + k]
<1> DEFINE a == Reverse(s)
           b == Reverse(t)
           m == Len(s)
           n == Len(t)
<1>1. m \in Nat /\ n \in Nat
  OBVIOUS
<1>2. /\ a \in Seq(S) /\ Len(a) = m /\ \A i \in 1..m : a[i] = s[(m - i) + 1]
      /\ b \in Seq(T) /\ Len(b) = n /\ \A i \in 1..n : b[i] = t[(n - i) + 1]
  BY DEF Reverse
<1>3. IsSuffix(s, t) <=> m <= n /\ SubSeq(a, 1, m) = SubSeq(b, 1, m)
  BY <1>2 DEF IsSuffix, IsPrefix
<1> HIDE DEF a, b, m, n
<1>4. ASSUME m <= n
      PROVE  SubSeq(a, 1, m) = SubSeq(b, 1, m) <=> \A i \in 1..m : a[i] = b[i]
  <2>1. SubSeq(a, 1, m) = [i \in 1..m |-> a[i]]
    BY <1>1, <1>2
  <2>2. SubSeq(b, 1, m) = [i \in 1..m |-> b[i]]
    BY <1>1, <1>2, <1>4
  <2> QED BY <2>1, <2>2
<1>5. ASSUME m <= n
      PROVE  (\A i \in 1..m : a[i] = b[i]) <=> \A k \in 1..m : s[k] = t[n - m + k]
  <2>1. ASSUME \A i \in 1..m : a[i] = b[i], NEW k \in 1..m PROVE s[k] = t[n - m + k]
    <3>1. (m - k) + 1 \in 1..m /\ (m - k) + 1 \in 1..n
      BY <1>1, <1>5
    <3>2. a[(m - k) + 1] = s[k] /\ b[(m - k) + 1] = t[n - m + k]
      <4>1. (m - ((m - k) + 1)) + 1 = k /\ (n - ((m - k) + 1)) + 1 = n - m + k
        BY <1>1
      <4> QED BY <1>2, <3>1, <4>1
    <3> QED BY <2>1, <3>1, <3>2
  <2>2. ASSUME \A k \in 1..m : s[k] = t[n - m + k], NEW i \in 1..m PROVE a[i] = b[i]
    <3>1. (m - i) + 1 \in 1..m /\ i \in 1..n /\ n - m + ((m - i) + 1) = (n - i) + 1
      BY <1>1, <1>5
    <3>2. s[(m - i) + 1] = t[(n - i) + 1]
      BY <2>2, <3>1
    <3> QED BY <1>2, <3>1, <3>2
  <2> QED BY <2>1, <2>2
<1> QED BY <1>3, <1>4, <1>5 DEF m, n

\* The test for a trailing dot.
LEMMA DotSuffix ==
    ASSUME NEW T, NEW t \in Seq(T)
    PROVE  IsSuffix(<<".">>, t) <=> Len(t) # 0 /\ t[Len(t)] = "."
<1> DEFINE d == <<".">>
<1>1. d \in Seq({"."}) /\ Len(d) = 1 /\ d[1] = "."
  OBVIOUS
<1> HIDE DEF d
<1>2. IsSuffix(d, t) <=> Len(d) <= Len(t) /\ \A k \in 1..Len(d) : d[k] = t[Len(t) - Len(d) + k]
  BY <1>1, SuffixIs
<1>3. Len(t) \in Nat
  OBVIOUS
<1>4. \A k \in 1..1 : k = 1 /\ Len(t) - 1 + k = Len(t)
  BY <1>3
<1>5. IsSuffix(d, t) <=> 1 <= Len(t) /\ d[1] = t[Len(t)]
  BY <1>1, <1>2, <1>4
<1> QED BY <1>1, <1>3, <1>5 DEF d

\* A name without two dots in a row.
Plain(t) == \A k \in 2..Len(t) : t[k] # "." \/ t[k - 1] # "."

\* Replacing changes nothing in a name without adjacent dots.
LEMMA NothingReplaced ==
    ASSUME NEW T, NEW t \in Seq(T), Plain(t)
    PROVE  ReplaceAllSubSeqs(<<".">>, <<".", ".">>, t) = t
<1> DEFINE r == <<".">>
           s == <<".", ".">>
<1>1. s # t
  <2> SUFFICES ASSUME t = s PROVE FALSE
    OBVIOUS
  <2> QED BY DEF Plain
<1>2. r # s /\ Len(s) = 2
  OBVIOUS
<1>3. s \notin SubSeqs(t)
  <2> SUFFICES ASSUME s \in SubSeqs(t) PROVE FALSE
    OBVIOUS
  <2>a. Len(s) = 2 /\ s[1] = "." /\ s[2] = "."
    OBVIOUS
  <2> HIDE DEF s
  <2>c. PICK i \in 0..Len(t), j \in 0..Len(t) : s = SubSeq(t, i + 1, j)
    BY DEF SubSeqs
  <2>1. Len(t) \in Nat
    OBVIOUS
  <2>b. Len(SubSeq(t, i + 1, j)) = IF i + 1 <= j THEN j - i ELSE 0
    BY <2>1
  <2>2. j = i + 2
    BY <2>1, <2>a, <2>b, <2>c
  <2>3. SubSeq(t, i + 1, j)[1] = t[i + 1] /\ SubSeq(t, i + 1, j)[2] = t[i + 2]
    <3>1. i + 1 \in 1..Len(t) + 1 /\ i + 1 <= j + 1 /\ (j - (i + 1)) + 1 = 2
      BY <2>1, <2>2
    <3>2. \A k \in 1..2 : SubSeq(t, i + 1, j)[k] = t[((i + 1) + k) - 1]
      BY <3>1, SubSeqIs
    <3>3. ((i + 1) + 1) - 1 = i + 1 /\ ((i + 1) + 2) - 1 = i + 2
      OBVIOUS
    <3>4. 1 \in 1..2 /\ 2 \in 1..2
      OBVIOUS
    <3> QED BY <3>2, <3>3, <3>4, Zenon
  <2>4. t[i + 1] = "." /\ t[i + 2] = "."
    BY <2>3, <2>a, <2>c
  <2>5. i + 2 \in 2..Len(t) /\ (i + 2) - 1 = i + 1
    BY <2>1, <2>2
  <2> QED BY <2>4, <2>5 DEF Plain
<1> HIDE DEF r, s
<1>4. ReplaceAllSubSeqs(r, s, t) = t
  BY <1>1, <1>2, <1>3 DEF ReplaceAllSubSeqs
<1> QED BY <1>4 DEF r, s

\* What the name of a host is like.
LEMMA HostName ==
    ASSUME NEW h, isHost(h)
    PROVE  /\ h \in Seq(ToSet(h)) /\ Len(h) \in Nat \ {0} /\ Plain(h)
           /\ h[1] # "." /\ h[Len(h)] # "."
           /\ h[1] = "*" \/ isValidHostname(h)
<1>0. h \in Seq(ToSet(h)) /\ Len(h) \in Nat
  BY DEF isHost
<1>1. CASE isValidHostname(h)
  <2>1. h # <<>> /\ Head(h) # "." /\ Last(h) # "." /\ \A k \in DOMAIN h : k > 1 /\ h[k] = "." => h[k - 1] # "."
    BY <1>1 DEF isValidHostname
  <2>2. Len(h) \in Nat \ {0} /\ DOMAIN h = 1..Len(h) /\ Head(h) = h[1]
    BY <1>0, <2>1, NonEmpty
  <2>3. Plain(h)
    <3> SUFFICES ASSUME NEW k \in 2..Len(h) PROVE h[k] # "." \/ h[k - 1] # "."
      BY DEF Plain
    <3>1. k \in DOMAIN h /\ k > 1
      BY <2>2
    <3> QED BY <2>1, <3>1
  <2> QED BY <1>0, <1>1, <2>1, <2>2, <2>3 DEF Last
<1>2. CASE Len(h) > 2 /\ h[1] = "*" /\ h[2] = "." /\ isValidHostname(SubSeq(h, 3, Len(h)))
  <2> DEFINE t == SubSeq(h, 3, Len(h))
             n == Len(h)
  <2>1. n \in Nat /\ n > 2
    BY <1>0, <1>2
  <2>2. t \in Seq(ToSet(h)) /\ Len(t) = n - 2 /\ \A k \in 1..n - 2 : t[k] = h[k + 2]
    <3>1. 3 \in 1..n + 1 /\ n \in 0..n /\ 3 <= n + 1 /\ (n - 3) + 1 = n - 2
      BY <2>1
    <3>2. \A k \in 1..n - 2 : t[k] = h[(3 + k) - 1]
      BY <1>0, <3>1, SubSeqIs
    <3>3. \A k \in 1..n - 2 : (3 + k) - 1 = k + 2
      BY <2>1
    <3> QED BY <1>0, <3>1, <3>2, <3>3, SubSeqIs
  <2>3. t # <<>> /\ Head(t) # "." /\ Last(t) # "." /\ \A k \in DOMAIN t : k > 1 /\ t[k] = "." => t[k - 1] # "."
    BY <1>2 DEF isValidHostname
  <2> HIDE DEF t, n
  <2>4. t[1] # "." /\ t[n - 2] # "." /\ \A k \in 2..n - 2 : t[k] = "." => t[k - 1] # "."
    <3>1. DOMAIN t = 1..n - 2 /\ Head(t) = t[1] /\ Last(t) = t[n - 2]
      BY <2>2, <2>3, NonEmpty DEF Last
    <3>2. ASSUME NEW k \in 2..n - 2, t[k] = "." PROVE t[k - 1] # "."
      <4>1. k \in DOMAIN t /\ k > 1
        BY <2>1, <3>1
      <4> QED BY <2>3, <3>2, <4>1
    <3> QED BY <2>3, <3>1, <3>2
  <2>5. h[3] # "." /\ h[n] # "." /\ \A k \in 4..n : h[k] = "." => h[k - 1] # "."
    <3>1. t[1] = h[3] /\ t[n - 2] = h[n]
      BY <2>1, <2>2
    <3>2. ASSUME NEW k \in 4..n, h[k] = "." PROVE h[k - 1] # "."
      <4>1. k - 2 \in 2..n - 2 /\ k - 2 \in 1..n - 2 /\ k - 3 \in 1..n - 2 /\ (k - 2) - 1 = k - 3
        BY <2>1
      <4>2. (k - 2) + 2 = k /\ (k - 3) + 2 = k - 1
        BY <2>1
      <4>3. t[k - 2] = h[k] /\ t[k - 3] = h[k - 1]
        BY <2>2, <4>1, <4>2
      <4> QED BY <2>4, <3>2, <4>1, <4>3
    <3> QED BY <2>4, <3>1, <3>2
  <2>6. Plain(h)
    <3> SUFFICES ASSUME NEW k \in 2..n PROVE h[k] # "." \/ h[k - 1] # "."
      BY DEF Plain, n
    <3>1. k = 2 \/ k = 3 \/ k \in 4..n
      BY <2>1
    <3> QED BY <1>2, <2>5, <3>1
  <2> QED BY <1>0, <1>2, <2>1, <2>5, <2>6 DEF n
<1> QED BY <1>1, <1>2 DEF isHost

\* The domains to rewrite are names.
LEMMA DomainName ==
    ASSUME DomainsRewritten, NEW i \in DOMAIN RewriteFrom
    PROVE  \A s \in {RewriteFrom[i], RewriteTo[i]} :
              /\ isValidHostname(s) /\ s \in Seq(ToSet(s)) /\ Len(s) \in Nat \ {0} /\ Plain(s)
              /\ s[1] # "." /\ s[Len(s)] # "." /\ s # <<>>
<1>1. /\ RewriteFrom \in Seq(ToSet(RewriteFrom)) /\ RewriteTo \in Seq(ToSet(RewriteTo))
      /\ Len(RewriteFrom) = Len(RewriteTo)
  BY RewriteAssumption DEF DomainsRewritten
<1>2. i \in DOMAIN RewriteTo
  BY <1>1
<1>3. RewriteFrom[i] \in ToSet(RewriteFrom) /\ RewriteTo[i] \in ToSet(RewriteTo)
  BY <1>2 DEF ToSet
<1> SUFFICES ASSUME NEW s \in {RewriteFrom[i], RewriteTo[i]}
             PROVE  /\ isValidHostname(s) /\ s \in Seq(ToSet(s)) /\ Len(s) \in Nat \ {0} /\ Plain(s)
                    /\ s[1] # "." /\ s[Len(s)] # "." /\ s # <<>>
  OBVIOUS
<1>4. s \in ToSet(RewriteFrom) \cup ToSet(RewriteTo)
  BY <1>3
<1>5. isValidHostname(s) /\ s \in Seq(ToSet(s))
  BY <1>4, RewriteAssumption, Zenon DEF DomainsRewritten
<1>6. isHost(s)
  BY <1>5 DEF isHost
<1>7. s # <<>>
  BY <1>5 DEF isValidHostname
<1> QED BY <1>5, <1>6, <1>7, HostName

\* A name in a domain keeps what is before it.
LEMMA RewrittenIs ==
    ASSUME DomainsRewritten, NEW h, isHost(h), NEW i \in DOMAIN RewriteFrom, Below(h, RewriteFrom[i])
    PROVE  /\ rewritten(i, h) = Renamed(h, i)
           /\ isValidHostname(Renamed(h, i)) <=> h[1] # "*"
           /\ \E n \in Nat : /\ n = Len(h) - Len(RewriteFrom[i])
                             /\ Len(Renamed(h, i)) = n + Len(RewriteTo[i])
                             /\ \A k \in 1..n : Renamed(h, i)[k] = h[k]
<1> DEFINE F == RewriteFrom[i]
           G == RewriteTo[i]
           n == Len(h) - Len(F)
           R == Renamed(h, i)
           S == ToSet(h) \cup ToSet(G) \cup {"."}
<1>1. /\ isValidHostname(F) /\ F \in Seq(ToSet(F)) /\ Len(F) \in Nat \ {0}
      /\ isValidHostname(G) /\ G \in Seq(ToSet(G)) /\ Len(G) \in Nat \ {0} /\ Plain(G)
      /\ G[1] # "." /\ G[Len(G)] # "."
  BY DomainName
<1>2. /\ h \in Seq(ToSet(h)) /\ Len(h) \in Nat \ {0} /\ Plain(h)
      /\ h[1] # "." /\ (h[1] = "*" \/ isValidHostname(h))
  BY HostName
<1>3. /\ Len(F) <= Len(h) /\ \A k \in 1..Len(F) : F[k] = h[n + k]
      /\ Len(h) = Len(F) \/ h[Len(h) - Len(F)] = "."
  <2>1. IsSuffix(F, h) /\ (Len(h) = Len(F) \/ h[Len(h) - Len(F)] = ".")
    BY DEF Below
  <2> QED BY <1>1, <1>2, <2>1, SuffixIs
<1>4. IsSuffix(F, h)
  BY DEF Below
<1>5. n \in 0..Len(h) /\ n \in Nat
  BY <1>1, <1>2, <1>3
<1>6. n = 0 \/ h[n] = "."
  BY <1>1, <1>2, <1>3
<1>7. R = SubSeq(h, 1, n) \o G
  BY DEF Renamed
<1> HIDE DEF F, G, R
<1>s. h \in Seq(S) /\ G \in Seq(S)
  BY <1>1, <1>2
<1>8. SubSeq(h, 1, n) \in Seq(S) /\ Len(SubSeq(h, 1, n)) = n /\ \A k \in 1..n : SubSeq(h, 1, n)[k] = h[k]
  <2> HIDE DEF n, S
  <2>1. 1 \in 1..Len(h) + 1 /\ 1 <= n + 1 /\ (n - 1) + 1 = n /\ \A k \in 1..n : (1 + k) - 1 = k
    BY <1>2, <1>5
  <2>2. /\ SubSeq(h, 1, n) \in Seq(S) /\ Len(SubSeq(h, 1, n)) = (n - 1) + 1
        /\ \A k \in 1..(n - 1) + 1 : SubSeq(h, 1, n)[k] = h[(1 + k) - 1]
    BY <1>s, <1>5, <2>1, SubSeqIs
  <2> QED BY <2>1, <2>2, Zenon
<1> HIDE DEF n, S
<1>9. /\ R \in Seq(S) /\ Len(R) = n + Len(G)
      /\ \A k \in 1..n : R[k] = h[k]
      /\ \A k \in 1..Len(G) : R[n + k] = G[k]
  BY <1>s, <1>1, <1>5, <1>7, <1>8
<1>10. Plain(R)
  <2> SUFFICES ASSUME NEW k \in 2..Len(R) PROVE R[k] # "." \/ R[k - 1] # "."
    BY DEF Plain
  <2>1. CASE k <= n
    <3>1. R[k] = h[k] /\ R[k - 1] = h[k - 1] /\ k \in 2..Len(h)
      BY <1>1, <1>2, <1>5, <1>9, <2>1
    <3> QED BY <1>2, <3>1 DEF Plain
  <2>2. CASE k = n + 1
    <3>1. R[k] = G[1]
      BY <1>1, <1>9, <2>2
    <3> QED BY <1>1, <3>1
  <2>3. CASE k > n + 1
    <3>0. Len(R) \in Nat /\ Len(G) \in Nat
      BY <1>1, <1>9
    <3>1. k - n \in 2..Len(G) /\ k - n \in 1..Len(G) /\ (k - n) - 1 \in 1..Len(G)
      BY <1>5, <1>9, <2>3, <3>0
    <3>2. n + (k - n) = k /\ n + ((k - n) - 1) = k - 1
      BY <1>5
    <3>3. R[k] = G[k - n] /\ R[k - 1] = G[(k - n) - 1]
      BY <1>9, <3>1, <3>2
    <3> QED BY <1>1, <3>1, <3>3 DEF Plain
  <2> QED BY <1>5, <2>1, <2>2, <2>3
<1>11. R[Len(R)] # "." /\ Len(R) \in Nat \ {0}
  BY <1>1, <1>5, <1>9
<1>12. ~IsSuffix(<<".">>, R)
  BY <1>9, <1>11, DotSuffix
<1>13. TrimSuffix(ReplaceAllSubSeqs(<<".">>, <<".", ".">>, R), <<".">>) = R
  BY <1>9, <1>10, <1>12, NothingReplaced DEF TrimSuffix
<1>14. LET prefix == TrimSuffix(SubSeq(h, 1, n), <<".">>)
       IN  R = IF prefix = <<>> THEN G ELSE prefix \o <<".">> \o G
  <2> DEFINE p == SubSeq(h, 1, n)
  <2>0. p \in Seq(S) /\ Len(p) = n /\ (\A k \in 1..n : p[k] = h[k]) /\ R = p \o G
    BY <1>7, <1>8
  <2>d. <<".">> \in Seq(S) /\ Len(<<".">>) = 1 /\ <<".">>[1] = "."
    BY DEF S
  <2> HIDE DEF p
  <2>1. CASE n = 0
    <3>1. p = <<>> /\ ~IsSuffix(<<".">>, p)
      <4>1. ~IsSuffix(<<".">>, p)
        BY <2>0, <2>1, DotSuffix
      <4> QED BY <2>0, <2>1, <4>1
    <3>2. TrimSuffix(p, <<".">>) = <<>> /\ R = G
      BY <1>s, <2>0, <3>1 DEF TrimSuffix
    <3> QED BY <3>2 DEF p
  <2>2. CASE n # 0
    <3>1. h[n] = "." /\ n # 1
      BY <1>2, <1>6, <2>2
    <3>2. n - 1 \in Nat \ {0} /\ (n - 1) + 1 = n
      BY <1>5, <2>2, <3>1
    <3>3. IsSuffix(<<".">>, p)
      <4>1. p[n] = "."
        BY <1>5, <2>0, <2>2, <3>1
      <4> QED BY <2>0, <2>2, <4>1, DotSuffix
    <3> DEFINE q == SubSeq(p, 1, n - 1)
    <3>4. TrimSuffix(p, <<".">>) = q
      BY <2>0, <2>d, <3>3 DEF TrimSuffix
    <3>5. q \in Seq(S) /\ Len(q) = n - 1 /\ \A k \in 1..n - 1 : q[k] = p[k]
      <4>1. /\ 1 \in 1..Len(p) + 1 /\ n - 1 \in 0..Len(p) /\ 1 <= (n - 1) + 1 /\ ((n - 1) - 1) + 1 = n - 1
            /\ \A k \in 1..n - 1 : (1 + k) - 1 = k
        BY <2>0, <3>2
      <4>2. /\ q \in Seq(S) /\ Len(q) = ((n - 1) - 1) + 1
            /\ \A k \in 1..((n - 1) - 1) + 1 : q[k] = p[(1 + k) - 1]
        BY <2>0, <4>1, SubSeqIs
      <4> QED BY <4>1, <4>2, Zenon
    <3> HIDE DEF q
    <3>6. q \o <<".">> = p
      <4>1. /\ q \o <<".">> \in Seq(S) /\ Len(q \o <<".">>) = n
            /\ \A k \in 1..n - 1 : (q \o <<".">>)[k] = p[k]
            /\ (q \o <<".">>)[n] = "."
        <5> DEFINE d == <<".">>
        <5>1. d \in Seq(S) /\ Len(d) = 1 /\ d[1] = "."
          BY <2>d
        <5> HIDE DEF d
        <5>2. /\ q \o d \in Seq(S) /\ Len(q \o d) = (n - 1) + 1
              /\ \A k \in 1..n - 1 : (q \o d)[k] = q[k]
              /\ (q \o d)[(n - 1) + 1] = d[1]
          <6>1. /\ Len(q) \in Nat /\ Len(d) \in Nat /\ q \o d \in Seq(S) /\ Len(q \o d) = Len(q) + Len(d)
                /\ \A k \in 1..Len(q) : (q \o d)[k] = q[k]
                /\ \A j \in 1..Len(d) : (q \o d)[Len(q) + j] = d[j]
            <7>1. q \in Seq(S) /\ d \in Seq(S)
              BY <5>1, <3>5
            <7> QED BY <7>1
          <6> QED BY <5>1, <3>5, <6>1
        <5> QED BY <3>2, <3>5, <5>1, <5>2 DEF d
      <4>2. \A k \in 1..n : (q \o <<".">>)[k] = p[k]
        <5>1. \A k \in 1..n : k \in 1..n - 1 \/ k = n
          BY <1>5
        <5>2. p[n] = "."
          BY <1>5, <2>0, <2>2, <3>1
        <5> QED BY <4>1, <5>1, <5>2
      <4> QED BY <2>0, <4>1, <4>2
    <3>7. q # <<>>
      BY <3>2, <3>5
    <3> QED BY <2>0, <3>4, <3>6, <3>7 DEF p
  <2> QED BY <2>1, <2>2
<1>15. rewritten(i, h) = R
  <2>1. TrimSuffix(h, F) = SubSeq(h, 1, n)
    BY <1>4 DEF TrimSuffix, n
  <2> DEFINE prefix == TrimSuffix(TrimSuffix(h, F), <<".">>)
             host == IF prefix = <<>> THEN G ELSE prefix \o <<".">> \o G
  <2>2. rewritten(i, h) = TrimSuffix(ReplaceAllSubSeqs(<<".">>, <<".", ".">>, host), <<".">>)
    BY Zenon DEF rewritten, F, G
  <2>3. host = R
    BY <1>14, <2>1, Zenon
  <2> QED BY <1>13, <2>2, <2>3, Zenon
<1>16. isValidHostname(R) <=> h[1] # "*"
  <2>1. DOMAIN R = 1..Len(R) /\ R # <<>> /\ Head(R) = R[1] /\ Last(R) = R[Len(R)]
    BY <1>9, <1>11, NonEmpty DEF Last
  <2>2. CASE h[1] = "*"
    <3>1. n # 0
      <4> SUFFICES ASSUME n = 0 PROVE FALSE
        OBVIOUS
      <4>1. F[1] = h[1]
        BY <1>1, <1>3
      <4>2. \A k \in DOMAIN F : F[k] # "*"
        BY <1>1 DEF isValidHostname
      <4>3. 1 \in DOMAIN F
        BY <1>1
      <4> QED BY <2>2, <4>1, <4>2, <4>3
    <3>2. 1 \in DOMAIN R /\ R[1] = "*"
      BY <1>5, <1>9, <1>11, <2>1, <2>2, <3>1
    <3> QED BY <2>2, <3>2 DEF isValidHostname
  <2>3. CASE h[1] # "*"
    <3>1. (\A k \in DOMAIN h : h[k] # "*") /\ \A k \in DOMAIN G : G[k] # "*"
      BY <1>1, <1>2, <2>3 DEF isValidHostname
    <3>2. R[1] # "."
      <4>1. n = 0 => R[1] = G[1]
        BY <1>1, <1>9
      <4>2. n # 0 => R[1] = h[1]
        BY <1>5, <1>9
      <4> QED BY <1>1, <1>2, <4>1, <4>2
    <3>3. ASSUME NEW k \in DOMAIN R PROVE R[k] # "*" /\ (k > 1 /\ R[k] = "." => R[k - 1] # ".")
      <4>1. k \in 1..n \/ k - n \in 1..Len(G)
        BY <1>1, <1>5, <1>9, <2>1
      <4>2. n + (k - n) = k
        BY <1>5, <2>1
      <4>3. CASE k \in 1..n
        <5>1. k \in DOMAIN h /\ R[k] = h[k]
          BY <1>2, <1>5, <1>9, <4>3
        <5> QED BY <1>10, <2>1, <3>1, <5>1 DEF Plain
      <4>4. CASE k - n \in 1..Len(G)
        <5>1. k - n \in DOMAIN G /\ R[k] = G[k - n]
          BY <1>1, <1>9, <4>2, <4>4
        <5> QED BY <1>10, <2>1, <3>1, <5>1 DEF Plain
      <4> QED BY <4>1, <4>3, <4>4
    <3> QED BY <1>11, <2>1, <2>3, <3>2, <3>3 DEF isValidHostname
  <2> QED BY <2>2, <2>3
<1> QED BY <1>5, <1>9, <1>15, <1>16 DEF R, F, G, n

\* A hostname gets its name in the new domain.
LEMMA NewNames ==
    ASSUME DomainsRewritten, NEW h, isHost(h),
           \A i \in DOMAIN RewriteFrom : IsSuffix(RewriteFrom[i], h) => Below(h, RewriteFrom[i])
    PROVE  TransformHostname(h) = NewName(h)
<1> DEFINE usable == {i \in DOMAIN RewriteFrom :
                        /\ RewriteFrom[i] # <<>> /\ RewriteTo[i] # <<>>
                        /\ IsSuffix(RewriteFrom[i], h)
                        /\ isValidHostname(rewritten(i, h))}
<1>1. usable = IF h[1] = "*" THEN {} ELSE InDomains(h)
  <2>1. ASSUME NEW i \in DOMAIN RewriteFrom
        PROVE  i \in usable <=> h[1] # "*" /\ Below(h, RewriteFrom[i])
    <3>1. RewriteFrom[i] # <<>> /\ RewriteTo[i] # <<>>
      BY DomainName
    <3>2. Below(h, RewriteFrom[i]) => (isValidHostname(rewritten(i, h)) <=> h[1] # "*")
      BY RewrittenIs
    <3>3. Below(h, RewriteFrom[i]) <=> IsSuffix(RewriteFrom[i], h)
      BY DEF Below
    <3> QED BY <3>1, <3>2, <3>3
  <2> HIDE DEF usable
  <2>2. usable \subseteq DOMAIN RewriteFrom
    BY DEF usable
  <2> QED BY <2>1, <2>2 DEF InDomains
<1>2. TransformHostname(h) = IF usable = {} THEN h ELSE rewritten(Min(usable), h)
  BY DEF TransformHostname, DomainsRewritten
<1> HIDE DEF usable
<1>3. CASE InDomains(h) = {} \/ h[1] = "*"
  BY <1>1, <1>2, <1>3 DEF NewName
<1>4. CASE InDomains(h) # {} /\ h[1] # "*"
  <2>1. InDomains(h) \subseteq Nat
    BY RewriteAssumption DEF InDomains
  <2>2. Min(InDomains(h)) \in InDomains(h)
    BY <1>4, <2>1, Smallest
  <2>3. rewritten(Min(InDomains(h)), h) = Renamed(h, Min(InDomains(h)))
    BY <2>2, RewrittenIs DEF InDomains
  <2> QED BY <1>1, <1>2, <1>4, <2>3 DEF NewName
<1> QED BY <1>3, <1>4

\* Names in the same domains stay distinct.
LEMMA NewNamesDiffer ==
    ASSUME DomainsRewritten, NEW g, isHost(g), NEW h, isHost(h), g # h, InDomains(g) = InDomains(h)
    PROVE  NewName(g) # NewName(h)
<1> SUFFICES ASSUME NewName(g) = NewName(h) PROVE FALSE
  OBVIOUS
<1>1. CASE InDomains(g) = {}
  BY <1>1 DEF NewName
<1>2. CASE InDomains(g) # {}
  <2> DEFINE i == Min(InDomains(g))
             F == RewriteFrom[i]
  <2>1. InDomains(g) \subseteq Nat
    BY RewriteAssumption DEF InDomains
  <2>2. i \in InDomains(g)
    BY <1>2, <2>1, Smallest
  <2>3. i \in DOMAIN RewriteFrom /\ Below(g, F) /\ Below(h, F)
    BY <2>2 DEF InDomains
  <2>4. \A x \in {g, h} : NewName(x) = IF x[1] = "*" THEN x ELSE Renamed(x, i)
    BY <1>2 DEF NewName
  <2> HIDE DEF i
  <2>5. \A x \in {g, h} : x[1] # "*" => Renamed(x, i)[1] # "*"
    <3> SUFFICES ASSUME NEW x \in {g, h}, x[1] # "*" PROVE Renamed(x, i)[1] # "*"
      OBVIOUS
    <3>1. isValidHostname(Renamed(x, i))
      BY <2>3, RewrittenIs
    <3>2. 1 \in DOMAIN Renamed(x, i)
      <4>1. PICK n \in Nat : Len(Renamed(x, i)) = n + Len(RewriteTo[i])
        BY <2>3, RewrittenIs
      <4>2. Len(RewriteTo[i]) \in Nat \ {0}
        BY <2>3, DomainName
      <4>3. Renamed(x, i) \in Seq(ToSet(Renamed(x, i)))
        <5>1. x \in Seq(ToSet(x)) /\ RewriteTo[i] \in Seq(ToSet(RewriteTo[i]))
          BY <2>3, DomainName DEF isHost
        <5>2. SubSeq(x, 1, Len(x) - Len(F)) \in Seq(ToSet(x) \cup ToSet(RewriteTo[i]))
          BY <5>1
        <5> DEFINE u == SubSeq(x, 1, Len(x) - Len(F))
                   v == RewriteTo[i]
                   T == ToSet(x) \cup ToSet(v)
        <5>3. u \in Seq(T) /\ v \in Seq(T) /\ Renamed(x, i) = u \o v
          BY <5>1, <5>2 DEF Renamed
        <5> HIDE DEF u, v, T
        <5>4. u \o v \in Seq(T)
          BY <5>3
        <5> QED BY <5>3, <5>4, OwnElements
      <4> QED BY <4>1, <4>2, <4>3
    <3> QED BY <3>1, <3>2 DEF isValidHostname
  <2>6. g[1] = "*" <=> h[1] = "*"
    BY <2>4, <2>5
  <2>7. g[1] # "*" /\ h[1] # "*" /\ Renamed(g, i) = Renamed(h, i)
    BY <2>4, <2>6
  <2>8. PICK m \in Nat : /\ m = Len(g) - Len(F) /\ Len(Renamed(g, i)) = m + Len(RewriteTo[i])
                         /\ \A k \in 1..m : Renamed(g, i)[k] = g[k]
    BY <2>3, RewrittenIs
  <2>9. PICK n \in Nat : /\ n = Len(h) - Len(F) /\ Len(Renamed(h, i)) = n + Len(RewriteTo[i])
                         /\ \A k \in 1..n : Renamed(h, i)[k] = h[k]
    BY <2>3, RewrittenIs
  <2>10. Len(RewriteTo[i]) \in Nat /\ Len(F) \in Nat /\ F \in Seq(ToSet(F))
    BY <2>3, DomainName
  <2>11. m = n
    BY <2>7, <2>8, <2>9, <2>10
  <2>12. /\ g \in Seq(ToSet(g)) /\ h \in Seq(ToSet(h))
         /\ Len(g) \in Nat /\ Len(h) \in Nat
    BY DEF isHost
  <2>13. Len(g) = Len(h) /\ Len(g) = m + Len(F)
    BY <2>8, <2>9, <2>10, <2>11, <2>12
  <2>14. \A k \in 1..Len(F) : F[k] = g[Len(g) - Len(F) + k] /\ F[k] = h[Len(h) - Len(F) + k]
    BY <2>3, <2>10, <2>12, SuffixIs DEF Below
  <2>15. ASSUME NEW k \in 1..Len(g) PROVE g[k] = h[k]
    <3>1. CASE k <= m
      BY <2>7, <2>8, <2>9, <2>11, <3>1
    <3>2. CASE k > m
      <4>1. k - m \in 1..Len(F) /\ Len(g) - Len(F) + (k - m) = k
        BY <2>10, <2>12, <2>13, <3>2
      <4> QED BY <2>13, <2>14, <4>1
    <3> QED BY <3>1, <3>2
  <2>16. g = h
    BY <2>12, <2>13, <2>15, SameSequence
  <2> QED BY <2>16
<1> QED BY <1>1, <1>2

-----------------------------------------------------------------------------
(* The canaries of an Ingress.                                             *)

\* A list has the canaries of n, all of them and no other.
LEMMA ListHasAll ==
    ASSUME NEW n, NEW q \in Lists(n)
    PROVE  /\ \A i \in DOMAIN q : \E m \in findCanarySiblings(n, obj[n].c) : q[i] = obj[m].c
           /\ \A m \in findCanarySiblings(n, obj[n].c) : \E i \in DOMAIN q : q[i] = obj[m].c
<1> DEFINE F == findCanarySiblings(n, obj[n].c)
           D == 1..Cardinality(F)
<1>1. PICK s \in SetToSeqs(F) : q = [i \in DOMAIN s |-> obj[s[i]].c]
  BY DEF Lists
<1>2. IsFiniteSet(F)
  <2>1. F \subseteq Name
    BY DEF findCanarySiblings, siblings
  <2> QED BY <2>1, NameAssumption, FS_Subset, Zenon
<1>3. Cardinality(F) \in Nat
  BY <1>2, FS_CardinalityType
<1> HIDE DEF F
<1>4. s \in [D -> F] /\ \A i, j \in D : i # j => s[i] # s[j]
  BY DEF SetToSeqs
<1>5. s \in Injection(D, F)
  BY <1>4 DEF Injection, IsInjective
<1>6. Cardinality(D) = Cardinality(F)
  BY <1>3, FS_Interval
<1>7. s \in Surjection(D, F)
  <2> HIDE DEF D
  <2> QED BY <1>2, <1>5, <1>6, FS_Injection, Zenon
<1>8. \A m \in F : \E i \in D : s[i] = m
  BY <1>7 DEF Surjection
<1>9. DOMAIN q = D /\ \A i \in D : q[i] = obj[s[i]].c
  BY <1>1, <1>4
<1> HIDE DEF D
<1> QED BY <1>4, <1>8, <1>9 DEF F

-----------------------------------------------------------------------------
(* The precedence among rules.                                             *)

\* The lexicographic order, written out for the four criteria.
LEMMA BeforeIs ==
    ASSUME NEW a, NEW b, DOMAIN a = 1..4
    PROVE  Before(a, b) <=> \/ a[1] > b[1]
                            \/ a[1] = b[1] /\ a[2] > b[2]
                            \/ a[1] = b[1] /\ a[2] = b[2] /\ a[3] > b[3]
                            \/ a[1] = b[1] /\ a[2] = b[2] /\ a[3] = b[3] /\ a[4] > b[4]
<1> DEFINE Q(k) == \A j \in 1..k - 1 : a[j] = b[j]
<1>1. Before(a, b) <=> \E k \in 1..4 : a[k] > b[k] /\ Q(k)
  BY DEF Before
<1>2. /\ Q(1) <=> TRUE
      /\ Q(2) <=> a[1] = b[1]
      /\ Q(3) <=> a[1] = b[1] /\ a[2] = b[2]
      /\ Q(4) <=> a[1] = b[1] /\ a[2] = b[2] /\ a[3] = b[3]
  OBVIOUS
<1> HIDE DEF Q
<1>3. \A k : k \in 1..4 <=> k = 1 \/ k = 2 \/ k = 3 \/ k = 4
  OBVIOUS
<1> QED BY <1>1, <1>2, <1>3

\* A rule with a path and a header that are sequences, and its place.
Ranked(r, i) ==
    /\ r.exact \in BOOLEAN /\ Len(r.path) \in Nat /\ Len(r.header) \in Nat /\ i \in Nat

\* The precedence of the Gateway API between two rules.
LEMMA PrecedenceIs ==
    ASSUME NEW r, NEW i, NEW s, NEW j, Ranked(r, i), Ranked(s, j)
    PROVE  Before(Precedence(r, i), Precedence(s, j)) <=>
             \/ r.exact /\ ~s.exact
             \/ r.exact = s.exact /\ \/ Len(r.path) > Len(s.path)
                                     \/ Len(r.path) = Len(s.path) /\ \/ Len(r.header) > Len(s.header)
                                                                     \/ Len(r.header) = Len(s.header) /\ i < j
<1> DEFINE a == Precedence(r, i)
           b == Precedence(s, j)
           x == IF r.exact THEN 1 ELSE 0
           y == IF s.exact THEN 1 ELSE 0
<1>1. a = <<x, Len(r.path), Len(r.header), -i>> /\ b = <<y, Len(s.path), Len(s.header), -j>>
  BY DEF Precedence
<1>2. DOMAIN a = 1..4
  BY <1>1
<1>3. /\ a[1] = x /\ a[2] = Len(r.path) /\ a[3] = Len(r.header) /\ a[4] = -i
      /\ b[1] = y /\ b[2] = Len(s.path) /\ b[3] = Len(s.header) /\ b[4] = -j
  BY <1>1
<1> HIDE DEF a, b
<1>4. (x > y <=> r.exact /\ ~s.exact) /\ (x = y <=> r.exact = s.exact)
  BY DEF Ranked
<1>5. -i > -j <=> i < j
  BY DEF Ranked
<1> HIDE DEF x, y
<1>6. Before(a, b) <=> \/ x > y
                       \/ x = y /\ Len(r.path) > Len(s.path)
                       \/ x = y /\ Len(r.path) = Len(s.path) /\ Len(r.header) > Len(s.header)
                       \/ x = y /\ Len(r.path) = Len(s.path) /\ Len(r.header) = Len(s.header) /\ -i > -j
  BY <1>2, <1>3, BeforeIs
<1> QED BY <1>4, <1>5, <1>6 DEF a, b

\* The rule that comes before every other one that fits is the one that serves.
LEMMA ServedBy ==
    ASSUME NEW rules, NEW req, \A i \in DOMAIN rules : Ranked(rules[i], i),
           NEW k \in DOMAIN rules, PathMatches(rules[k], req), HeaderMatches(rules[k], req),
           \A j \in DOMAIN rules \ {k} :
              PathMatches(rules[j], req) /\ HeaderMatches(rules[j], req)
                 => Before(Precedence(rules[k], k), Precedence(rules[j], j))
    PROVE  Served(rules, req) = Shares(rules[k].refs)
<1> DEFINE fit == {i \in DOMAIN rules : PathMatches(rules[i], req) /\ HeaderMatches(rules[i], req)}
           Foremost(i) == \A j \in fit \ {i} : Before(Precedence(rules[i], i), Precedence(rules[j], j))
           best == CHOOSE i \in fit : Foremost(i)
<1>1. k \in fit /\ Foremost(k)
  OBVIOUS
<1>2. best \in fit /\ Foremost(best)
  <2> HIDE DEF fit, Foremost
  <2> QED BY <1>1
<1>3. best = k
  <2> SUFFICES ASSUME best # k PROVE FALSE
    OBVIOUS
  <2>1. /\ Before(Precedence(rules[best], best), Precedence(rules[k], k))
        /\ Before(Precedence(rules[k], k), Precedence(rules[best], best))
    <3> HIDE DEF best, fit
    <3> QED BY <1>1, <1>2
  <2>2. Ranked(rules[best], best) /\ Ranked(rules[k], k)
    <3>1. best \in DOMAIN rules
      BY <1>2
    <3> HIDE DEF best
    <3> QED BY <3>1
  <2> HIDE DEF best
  <2> QED BY <2>1, <2>2, PrecedenceIs DEF Ranked
<1>4. Served(rules, req) = IF fit = {} THEN {} ELSE Shares(rules[best].refs)
  BY Zenon DEF Served
<1> HIDE DEF best, fit
<1> QED BY <1>1, <1>3, <1>4

-----------------------------------------------------------------------------
(* The path a request is for.                                              *)

Ahead(a, b) ==
    \/ a.exact /\ ~b.exact
    \/ a.exact = b.exact /\ Len(a.path) > Len(b.path)

\* The fields of a path that matching looks at.
LEMMA PathFields ==
    ASSUME NEW p, PathShape(p)
    PROVE  p.path \in Seq(ToSet(p.path)) /\ Len(p.path) \in Nat /\ p.exact \in BOOLEAN
<1>1. p.path \in Seq(ToSet(p.path)) /\ p.exact \in BOOLEAN
  BY Zenon DEF PathShape
<1> QED BY <1>1

\* The paths that match a request differ in kind or length.
LEMMA SamePath ==
    ASSUME NEW req, req.path \in Seq(ToSet(req.path)),
           NEW a, PathShape(a), PathMatches(a, req),
           NEW b, PathShape(b), PathMatches(b, req),
           a.exact = b.exact, Len(a.path) = Len(b.path)
    PROVE  a.path = b.path
<1>1. CASE a.exact
  BY <1>1 DEF PathMatches
<1>2. CASE ~a.exact
  <2> DEFINE l == Len(a.path)
  <2>1. a.path \in Seq(ToSet(a.path)) /\ b.path \in Seq(ToSet(b.path)) /\ l \in Nat /\ Len(b.path) = l
    BY PathFields
  <2>2. SubSeq(a.path, 1, l) = SubSeq(req.path, 1, l) /\ SubSeq(b.path, 1, l) = SubSeq(req.path, 1, l)
    BY <1>2 DEF PathMatches, IsPrefix
  <2> HIDE DEF l
  <2>3. SubSeq(a.path, 1, l) = a.path /\ SubSeq(b.path, 1, l) = b.path
    BY <2>1 DEF l
  <2> QED BY <2>2, <2>3
<1> QED BY <1>1, <1>2

Fit(ps, req) == {i \in DOMAIN ps : PathMatches(ps[i], req)}
First(ps, req, b) == b \in Fit(ps, req) /\ \A j \in Fit(ps, req) \ {b} : Ahead(ps[b], ps[j])

\* One of the paths that match a request is ahead of the others.
LEMMA BestPath ==
    ASSUME NEW ps, ps \in Seq(ToSet(ps)), \A k \in DOMAIN ps : PathShape(ps[k]),
           \A i, j \in DOMAIN ps : ps[i].path = ps[j].path /\ ps[i].exact = ps[j].exact => i = j,
           NEW req, req.path \in Seq(ToSet(req.path)), Fit(ps, req) # {}
    PROVE  \E b : First(ps, req, b)
<1> DEFINE fit == Fit(ps, req)
           l == Len(req.path)
           v(i) == (IF ps[i].exact THEN l + 1 ELSE 0) + Len(ps[i].path)
           V == {v(i) : i \in fit}
<1>1. l \in Nat
  OBVIOUS
<1>2. ASSUME NEW i \in fit
      PROVE  /\ i \in DOMAIN ps /\ PathShape(ps[i]) /\ PathMatches(ps[i], req)
             /\ ps[i].exact \in BOOLEAN /\ Len(ps[i].path) \in Nat /\ Len(ps[i].path) <= l
  <2>1. i \in DOMAIN ps /\ PathShape(ps[i]) /\ PathMatches(ps[i], req)
    BY DEF Fit
  <2>2. ps[i].exact \in BOOLEAN /\ Len(ps[i].path) \in Nat
    BY <2>1, PathFields
  <2>3. Len(ps[i].path) <= l
    BY <2>1, <2>2, <1>1 DEF PathMatches, IsPrefix
  <2> QED BY <2>1, <2>2, <2>3
<1> HIDE DEF l
<1> DEFINE e(i) == Len(ps[i].path)
<1>v. \A i \in fit : /\ ps[i].exact => v(i) = (l + 1) + e(i)
                     /\ ~ps[i].exact => v(i) = 0 + e(i)
  BY Zenon
<1>e. \A i \in fit : e(i) \in Nat /\ e(i) <= l
  BY <1>2
<1> HIDE DEF v, e
<1>3. \A i \in fit : v(i) \in 0..l + l + 1
  <2> SUFFICES ASSUME NEW i \in fit PROVE v(i) \in 0..l + l + 1
    OBVIOUS
  <2>1. v(i) = (l + 1) + e(i) \/ v(i) = 0 + e(i)
    BY <1>v
  <2> QED BY <1>1, <1>e, <2>1
<1>4. V \subseteq Nat /\ V # {} /\ V \subseteq 0..l + l + 1
  <2>1. V # {} /\ V \subseteq 0..l + l + 1
    BY <1>3
  <2> HIDE DEF V
  <2> QED BY <1>1, <2>1
<1>5. IsFiniteSet(V)
  <2>1. IsFiniteSet(0..l + l + 1)
    BY <1>1, FS_Interval
  <2> HIDE DEF V
  <2> QED BY <1>4, <2>1, FS_Subset
<1>6. Max(V) \in V /\ \A y \in V : y <= Max(V)
  <2> HIDE DEF V
  <2> QED BY <1>4, <1>5, Greatest
<1>7. PICK i \in fit : Max(V) = v(i)
  BY <1>6
<1>8. \A j \in fit : v(j) <= v(i)
  BY <1>6, <1>7
<1>9. ASSUME NEW j \in fit \ {i} PROVE Ahead(ps[i], ps[j])
  <2>1. v(j) <= v(i)
    BY <1>8
  <2>2. ~(ps[i].exact = ps[j].exact /\ Len(ps[i].path) = Len(ps[j].path))
    <3> SUFFICES ASSUME ps[i].exact = ps[j].exact, Len(ps[i].path) = Len(ps[j].path) PROVE FALSE
      OBVIOUS
    <3>1. ps[i].path = ps[j].path
      BY <1>2, SamePath
    <3> QED BY <1>2, <3>1
  <2>3. ~(~ps[i].exact /\ ps[j].exact)
    <3> SUFFICES ASSUME ~ps[i].exact, ps[j].exact PROVE FALSE
      OBVIOUS
    <3>1. v(i) = 0 + e(i) /\ v(j) = (l + 1) + e(j)
      BY <1>v
    <3> QED BY <1>1, <1>e, <2>1, <3>1
  <2>4. ASSUME ps[i].exact = ps[j].exact PROVE e(j) <= e(i)
    <3>1. \/ v(i) = (l + 1) + e(i) /\ v(j) = (l + 1) + e(j)
          \/ v(i) = 0 + e(i) /\ v(j) = 0 + e(j)
      BY <1>2, <1>v, <2>4
    <3> QED BY <1>1, <1>e, <2>1, <3>1
  <2>5. ps[i].exact = ps[j].exact => e(i) > e(j)
    BY <1>e, <2>2, <2>4 DEF e
  <2> QED BY <1>2, <2>3, <2>5 DEF Ahead, e
<1> QED BY <1>9 DEF First

-----------------------------------------------------------------------------
(* Named ports.                                                            *)

\* What is in a part is in the flattened sequence.
LEMMA FlattenedAll ==
    ASSUME NEW ss, NEW n \in Nat, DOMAIN ss = 1..n, Len(ss) = n,
           \A i \in 1..n : ss[i] \in Seq(ToSet(ss[i])),
           NEW i \in 1..n, NEW j \in DOMAIN ss[i]
    PROVE  \E k \in DOMAIN FlattenSeq(ss) : FlattenSeq(ss)[k] = ss[i][j]
<1> DEFINE T == UNION {ToSet(ss[h]) : h \in 1..n}
           F == FlattenSeq(ss)
<1>0. n # 0
  OBVIOUS
<1>1. \A h \in 1..n : ss[h] \in Seq(T)
  OBVIOUS
<1> HIDE DEF T
<1>2. F \in Seq(T)
  BY <1>0, <1>1, Flattened, Zenon
<1>3. PICK at \in [1..n -> Nat] : Laid(ss, n, F, at)
  BY <1>0, <1>1, Flattened, Zenon
<1>4. DOMAIN ss[i] = 1..Len(ss[i])
  BY <1>1
<1> HIDE DEF F
<1>5. DOMAIN F = 1..Len(F)
  BY <1>2
<1>6. at[i] + j \in 1..Len(F) /\ F[at[i] + j] = ss[i][j]
  BY <1>3, <1>4 DEF Laid
<1> QED BY <1>5, <1>6 DEF F

\* All paths of the Ingresses a route is made of name a service with one port.
Consistent(sources) ==
    \A i, j \in DOMAIN sources :
        \A a \in ToSet(pathsOf(sources[i])), b \in ToSet(pathsOf(sources[j])) :
            a.svc = b.svc => a.port = b.port

\* With one name per service, looking a port name up by service finds the right one
\* (findPortNameInIngresses).
LEMMA PortNameFound ==
    ASSUME NEW sources \in Seq(Written), Consistent(sources),
           NEW i \in DOMAIN sources, NEW x \in ToSet(pathsOf(sources[i]))
    PROVE  findPortName(sources, x.svc) = x.port
<1> DEFINE n == Len(sources)
           ss == [h \in DOMAIN sources |-> pathsOf(sources[h])]
           F == FlattenSeq(ss)
           at == {k \in DOMAIN F : F[k].svc = x.svc}
<1>1. n \in Nat /\ DOMAIN sources = 1..n /\ DOMAIN ss = 1..n /\ Len(ss) = n
  OBVIOUS
<1>2. \A h \in 1..n : ss[h] = pathsOf(sources[h]) /\ ss[h] \in Seq(ToSet(ss[h]))
  BY <1>1, Admitted, PathsShape
<1>3. findPortName(sources, x.svc) = IF at = {} THEN "" ELSE F[Min(at)].port
  BY Zenon DEF findPortName
<1>4. PICK j \in DOMAIN ss[i] : x = ss[i][j]
  BY DEF ToSet
<1> HIDE DEF n, ss
<1>5. /\ F \in Seq(ToSet(F))
      /\ \A k \in DOMAIN F : \E h \in 1..n : \E m \in DOMAIN ss[h] : F[k] = ss[h][m]
  BY <1>1, <1>2, FlattenedFrom, Zenon
<1>6. \E k \in DOMAIN F : F[k] = ss[i][j]
  <2>1. i \in 1..n
    BY <1>1
  <2> QED BY <1>1, <1>2, <2>1, FlattenedAll, Zenon
<1> HIDE DEF F
<1>7. at # {} /\ at \subseteq Nat
  BY <1>4, <1>5, <1>6
<1>8. Min(at) \in at
  <2> HIDE DEF at
  <2> QED BY <1>7, Smallest
<1>9. Min(at) \in DOMAIN F /\ F[Min(at)].svc = x.svc
  BY <1>8
<1> HIDE DEF at
<1>10. PICK h \in 1..n : \E m \in DOMAIN ss[h] : F[Min(at)] = ss[h][m]
  BY <1>5, <1>9
<1>11. F[Min(at)] \in ToSet(pathsOf(sources[h])) /\ h \in DOMAIN sources
  BY <1>1, <1>2, <1>10 DEF ToSet
<1>12. F[Min(at)].port = x.port
  BY <1>9, <1>11 DEF Consistent
<1> QED BY <1>3, <1>7, <1>12

Resolved(b, sources) ==
    IF b.port # 0 THEN b ELSE [b EXCEPT !.port = resolvePort(sources, b.svc)]

Weighted(b, weight) == [b EXCEPT !.weight = weight]

\* A backend gets the port that the path it was made of names.
LEMMA PortFound ==
    ASSUME NEW sources \in Seq(Written), Consistent(sources),
           NEW i \in DOMAIN sources, NEW x \in ToSet(pathsOf(sources[i])), x.svc # NoService,
           NEW weight
    PROVE  Resolved(Weighted(backendRefFromPath(x), weight), sources) = Weighted(NamedBackend(x), weight)
<1>1. findPortName(sources, x.svc) = x.port
  BY PortNameFound
<1>2. x.num # 0 \/ x.port # ""
  <2>1. PathShape(x)
    <3>1. \A k \in DOMAIN pathsOf(sources[i]) : PathShape(pathsOf(sources[i])[k])
      BY Admitted, PathsShape
    <3> QED BY <3>1 DEF ToSet
  <2> QED BY <2>1 DEF PathShape
<1>3. ASSUME x.num = 0
      PROVE  resolvePort(sources, x.svc) =
               IF x.svc \in DOMAIN ServicePorts /\ x.port \in DOMAIN ServicePorts[x.svc]
               THEN ServicePorts[x.svc][x.port] ELSE FallbackPort
  BY <1>1, <1>2, <1>3, Zenon DEF resolvePort
<1>4. CASE x.num # 0
  BY <1>4 DEF Resolved, backendRefFromPath, NamedBackend, Weighted
<1>5. CASE x.num = 0
  <2> DEFINE p == resolvePort(sources, x.svc)
  <2>1. NamedBackend(x) = [svc |-> x.svc, weight |-> 1, port |-> p]
    BY <1>3, <1>5 DEF NamedBackend
  <2> HIDE DEF p
  <2>2. Weighted(NamedBackend(x), weight) = [svc |-> x.svc, weight |-> weight, port |-> p]
    BY <2>1 DEF Weighted
  <2>3. Resolved(Weighted(backendRefFromPath(x), weight), sources)
          = [svc |-> x.svc, weight |-> weight, port |-> p]
    BY <1>5 DEF Resolved, backendRefFromPath, Weighted, p
  <2> QED BY <2>2, <2>3
<1> QED BY <1>4, <1>5

-----------------------------------------------------------------------------
(* The rules of a path with a canary.                                      *)

\* A rule that is there or not.
LEMMA OptionalIs ==
    ASSUME NEW T, NEW r \in T, NEW b \in BOOLEAN
    PROVE  LET x == IF b THEN <<r>> ELSE <<>>
           IN  x \in Seq(T) /\ (b => Len(x) = 1 /\ x[1] = r) /\ (~b => Len(x) = 0)
<1> DEFINE x == IF b THEN <<r>> ELSE <<>>
<1>1. x \in Seq(T)
  BY Optional
<1>2. Len(<<r>>) = 1 /\ <<r>>[1] = r /\ Len(<<>>) = 0
  OBVIOUS
<1>3. b => x = <<r>>
  BY Zenon
<1>4. ~b => x = <<>>
  BY Zenon
<1> HIDE DEF x
<1>5. (b => Len(x) = 1 /\ x[1] = r) /\ (~b => Len(x) = 0)
  BY <1>2, <1>3, <1>4, Zenon
<1> QED BY <1>1, <1>5 DEF x

\* Up to three elements before a last one, and where they are.
Placed(F, r, b, k) ==
    /\ k \in [1..4 -> Nat]
    /\ \A i \in 1..4 : b[i] => k[i] \in DOMAIN F /\ F[k[i]] = r[i]
    /\ \A j \in DOMAIN F : \E i \in 1..4 : b[i] /\ j = k[i]
    /\ \A i, j \in 1..4 : b[i] /\ i < j => k[i] < k[j]

\* Where the four rules of a canary are when some of them are left out.
LEMMA PlacesOf ==
    ASSUME NEW T, NEW r \in [1..4 -> T], NEW b \in [1..4 -> BOOLEAN], b[4], NEW F,
           F = (((IF b[1] THEN <<r[1]>> ELSE <<>>) \o (IF b[2] THEN <<r[2]>> ELSE <<>>))
                  \o (IF b[3] THEN <<r[3]>> ELSE <<>>)) \o <<r[4]>>
    PROVE  F \in Seq(T) /\ \E k : Placed(F, r, b, k)
<1> DEFINE x1 == IF b[1] THEN <<r[1]>> ELSE <<>>
           x2 == IF b[2] THEN <<r[2]>> ELSE <<>>
           x3 == IF b[3] THEN <<r[3]>> ELSE <<>>
           x4 == <<r[4]>>
           y2 == x1 \o x2
           y3 == y2 \o x3
<1>0. F = y3 \o x4
  BY Zenon
<1>1. /\ x1 \in Seq(T) /\ (b[1] => Len(x1) = 1 /\ x1[1] = r[1]) /\ (~b[1] => Len(x1) = 0)
      /\ x2 \in Seq(T) /\ (b[2] => Len(x2) = 1 /\ x2[1] = r[2]) /\ (~b[2] => Len(x2) = 0)
      /\ x3 \in Seq(T) /\ (b[3] => Len(x3) = 1 /\ x3[1] = r[3]) /\ (~b[3] => Len(x3) = 0)
  <2>1. \A i \in {1, 2, 3} : r[i] \in T /\ b[i] \in BOOLEAN
    OBVIOUS
  <2> QED BY <2>1, OptionalIs
<1>2. x4 \in Seq(T) /\ Len(x4) = 1 /\ x4[1] = r[4]
  OBVIOUS
<1> HIDE DEF x1, x2, x3, x4
<1> DEFINE a1 == Len(x1)
           a2 == Len(x2)
           a3 == Len(x3)
<1>3. /\ y2 \in Seq(T) /\ a1 \in Nat /\ a2 \in Nat /\ Len(y2) = a1 + a2
      /\ \A k \in 1..a1 : y2[k] = x1[k]
      /\ \A j \in 1..a2 : y2[a1 + j] = x2[j]
  BY <1>1, Concatenated
<1> HIDE DEF y2
<1>4. /\ y3 \in Seq(T) /\ a3 \in Nat /\ Len(y3) = Len(y2) + a3
      /\ \A k \in 1..Len(y2) : y3[k] = y2[k]
      /\ \A j \in 1..a3 : y3[Len(y2) + j] = x3[j]
  <2>1. y2 \in Seq(T) /\ x3 \in Seq(T)
    BY <1>1, <1>3
  <2> QED BY <2>1, Concatenated
<1> HIDE DEF y3
<1>5. /\ F \in Seq(T) /\ Len(F) = Len(y3) + 1
      /\ \A k \in 1..Len(y3) : F[k] = y3[k]
      /\ \A j \in 1..1 : F[Len(y3) + j] = x4[j]
  <2>1. y3 \in Seq(T) /\ x4 \in Seq(T)
    BY <1>2, <1>4
  <2>2. /\ y3 \o x4 \in Seq(T) /\ Len(y3 \o x4) = Len(y3) + Len(x4)
        /\ \A k \in 1..Len(y3) : (y3 \o x4)[k] = y3[k]
        /\ \A j \in 1..Len(x4) : (y3 \o x4)[Len(y3) + j] = x4[j]
    BY <2>1, Concatenated
  <2> QED BY <1>0, <1>2, <2>2, Zenon
<1> HIDE DEF a1, a2, a3
<1> DEFINE k == [i \in 1..4 |-> IF i = 1 THEN 1 ELSE IF i = 2 THEN a1 + 1
                                ELSE IF i = 3 THEN a1 + a2 + 1 ELSE a1 + a2 + a3 + 1]
<1>6. k \in [1..4 -> Nat] /\ k[1] = 1 /\ k[2] = a1 + 1 /\ k[3] = a1 + a2 + 1 /\ k[4] = a1 + a2 + a3 + 1
  BY <1>3, <1>4
<1> HIDE DEF k
<1>7. \A i : i \in 1..4 <=> i = 1 \/ i = 2 \/ i = 3 \/ i = 4
  OBVIOUS
<1>8. /\ (b[1] => a1 = 1) /\ (~b[1] => a1 = 0)
      /\ (b[2] => a2 = 1) /\ (~b[2] => a2 = 0)
      /\ (b[3] => a3 = 1) /\ (~b[3] => a3 = 0)
  BY <1>1 DEF a1, a2, a3
<1>9. /\ DOMAIN F = 1..a1 + a2 + a3 + 1
      /\ Len(y2) = a1 + a2 /\ Len(y3) = a1 + a2 + a3
  <2>1. Len(F) = a1 + a2 + a3 + 1
    BY <1>3, <1>4, <1>5
  <2> QED BY <1>3, <1>4, <1>5, <2>1
<1>10. ASSUME b[1] PROVE k[1] \in DOMAIN F /\ F[k[1]] = r[1]
  <2>1. 1 \in 1..a1 /\ 1 \in 1..Len(y2) /\ 1 \in 1..Len(y3) /\ 1 \in DOMAIN F
    BY <1>3, <1>4, <1>8, <1>9, <1>10
  <2>2. F[1] = y3[1] /\ y3[1] = y2[1] /\ y2[1] = x1[1] /\ x1[1] = r[1]
    BY <1>1, <1>3, <1>4, <1>5, <1>10, <2>1, Zenon
  <2> QED BY <1>6, <2>1, <2>2
<1>11. ASSUME b[2] PROVE k[2] \in DOMAIN F /\ F[k[2]] = r[2]
  <2>1. 1 \in 1..a2 /\ a1 + 1 \in 1..Len(y2) /\ a1 + 1 \in 1..Len(y3) /\ a1 + 1 \in DOMAIN F
    BY <1>3, <1>4, <1>8, <1>9, <1>11
  <2>2. F[a1 + 1] = y3[a1 + 1] /\ y3[a1 + 1] = y2[a1 + 1] /\ y2[a1 + 1] = x2[1] /\ x2[1] = r[2]
    BY <1>1, <1>3, <1>4, <1>5, <1>11, <2>1, Zenon
  <2> QED BY <1>6, <2>1, <2>2
<1>12. ASSUME b[3] PROVE k[3] \in DOMAIN F /\ F[k[3]] = r[3]
  <2>1. 1 \in 1..a3 /\ a1 + a2 + 1 \in 1..Len(y3) /\ a1 + a2 + 1 \in DOMAIN F /\ Len(y2) + 1 = a1 + a2 + 1
    BY <1>3, <1>4, <1>8, <1>9, <1>12
  <2>2. y3[a1 + a2 + 1] = r[3]
    BY <1>1, <1>4, <1>12, <2>1
  <2> QED BY <1>5, <1>6, <2>1, <2>2
<1>13. k[4] \in DOMAIN F /\ F[k[4]] = r[4]
  <2>1. 1 \in 1..1 /\ a1 + a2 + a3 + 1 \in DOMAIN F /\ Len(y3) + 1 = a1 + a2 + a3 + 1
    BY <1>3, <1>4, <1>9
  <2> QED BY <1>2, <1>5, <1>6, <2>1
<1>14. ASSUME NEW j \in DOMAIN F PROVE \E i \in 1..4 : b[i] /\ j = k[i]
  <2>1. \/ b[1] /\ j = 1
        \/ b[2] /\ j = a1 + 1
        \/ b[3] /\ j = a1 + a2 + 1
        \/ j = a1 + a2 + a3 + 1
    BY <1>3, <1>4, <1>8, <1>9
  <2> QED BY <1>6, <1>7, <2>1
<1>15. ASSUME NEW i \in 1..4, NEW j \in 1..4, b[i], i < j PROVE k[i] < k[j]
  <2>1. a1 \in Nat /\ a2 \in Nat /\ a3 \in Nat
    BY <1>3, <1>4
  <2>2. CASE i = 1
    <3>1. a1 = 1 /\ k[i] = 1 /\ (j = 2 \/ j = 3 \/ j = 4)
      BY <1>6, <1>8, <1>15, <2>2
    <3> QED BY <1>6, <2>1, <3>1
  <2>3. CASE i = 2
    <3>1. a2 = 1 /\ k[i] = a1 + 1 /\ (j = 3 \/ j = 4)
      BY <1>6, <1>8, <1>15, <2>3
    <3> QED BY <1>6, <2>1, <3>1
  <2>4. CASE i = 3
    <3>1. a3 = 1 /\ k[i] = a1 + a2 + 1 /\ j = 4
      BY <1>6, <1>8, <1>15, <2>4
    <3> QED BY <1>6, <2>1, <3>1
  <2>5. i # 4
    BY <1>15
  <2> QED BY <1>7, <2>2, <2>3, <2>4, <2>5
<1>16. Placed(F, r, b, k)
  BY <1>6, <1>7, <1>10, <1>11, <1>12, <1>13, <1>14, <1>15 DEF Placed
<1> QED BY <1>5, <1>16

\* What canary.go makes of a canary for a request, before the ports are known.
Asked(p, e, req) ==
    LET plain == ~e.cfg.value /\ ~e.cfg.pattern
    IN  IF e.cfg.header /\ plain /\ req.header = "never" THEN <<backendRefFromPath(p)>>
        ELSE IF e.cfg.header /\ \/ plain /\ req.header = "always"
                                \/ e.cfg.pattern /\ req.header = "pattern"
                                \/ ~e.cfg.pattern /\ e.cfg.value /\ req.header = "value"
        THEN <<backendRefFromPath(e.path)>>
        ELSE IF e.cfg.cookie /\ req.cookie = "always" THEN <<backendRefFromPath(e.path)>>
        ELSE weightedRefs(p, e)

\* Rule J comes before those of B that match the headers of a request.
Leads(B, J, req) ==
    /\ J \in DOMAIN B /\ HeaderMatches(B[J], req)
    /\ \A j \in DOMAIN B \ {J} : HeaderMatches(B[j], req) =>
          \/ Len(B[J].header) > Len(B[j].header)
          \/ Len(B[J].header) = Len(B[j].header) /\ J < j

\* B are rules for path p, and refs the backends of the one that serves a request.
RulesFor(B, p, req, refs) ==
    /\ B \in Seq(ToSet(B))
    /\ \A j \in DOMAIN B : B[j].path = p.path /\ B[j].exact = p.exact /\ Len(B[j].header) \in Nat
    /\ \E J \in DOMAIN B : Leads(B, J, req) /\ B[J].refs = refs

\* The rule of a path without canary answers as asked.
LEMMA PlainRules ==
    ASSUME NEW p, NEW req, NEW filters
    PROVE  RulesFor(<<plainRule(p, filters)>>, p, req,
                    IF p.svc = NoService THEN <<>> ELSE <<backendRefFromPath(p)>>)
<1> DEFINE refs == IF p.svc = NoService THEN <<>> ELSE <<backendRefFromPath(p)>>
           r == rule(p, AnyHeader, refs, filters)
           B == <<r>>
<1>1. plainRule(p, filters) = r
  BY Zenon DEF plainRule
<1> HIDE DEF refs
<1>2. r.path = p.path /\ r.exact = p.exact /\ r.header = AnyHeader /\ r.refs = refs
  BY DEF rule
<1> HIDE DEF r
<1>3. B \in Seq(ToSet(B)) /\ B[1] = r /\ DOMAIN B = {1}
  BY DEF ToSet
<1>4. Len(AnyHeader) \in Nat
  BY DEF AnyHeader
<1>5. HeaderMatches(r, req)
  BY <1>2 DEF HeaderMatches
<1> HIDE DEF B
<1>6. RulesFor(B, p, req, refs)
  BY <1>2, <1>3, <1>4, <1>5 DEF RulesFor, Leads
<1> QED BY <1>1, <1>6 DEF B, refs

\* The rules of a path with a canary answer each request as asked: header before
\* cookie before weight (buildCanaryRules).
LEMMA CanaryRules ==
    ASSUME NEW p, NEW e, configured(e.cfg), NEW req, NEW filters
    PROVE  RulesFor(buildCanaryRules(p, e, filters), p, req, Asked(p, e, req))
<1> DEFINE c == e.cfg
           plain == ~c.value /\ ~c.pattern
           primary == <<backendRefFromPath(p)>>
           canary == <<backendRefFromPath(e.path)>>
           never == rule(p, <<"header", "never">>, primary, filters)
           header == rule(p, canaryHeaderMatch(c), canary, filters)
           cookie == rule(p, cookieOnPattern, canary, filters)
           split == rule(p, AnyHeader, weightedRefs(p, e), filters)
           T == {never, header, cookie, split}
           r == <<never, header, cookie, split>>
           b == <<c.header /\ ~c.value /\ ~c.pattern, c.header, c.cookie, TRUE>>
           F == buildCanaryRules(p, e, filters)
<1>1. /\ c.header \in BOOLEAN /\ c.value \in BOOLEAN /\ c.pattern \in BOOLEAN /\ c.cookie \in BOOLEAN
  BY DEF configured
<1>2. F = (((IF c.header /\ ~c.value /\ ~c.pattern THEN <<never>> ELSE <<>>)
             \o (IF c.header THEN <<header>> ELSE <<>>))
             \o (IF c.cookie THEN <<cookie>> ELSE <<>>))
             \o <<split>>
  BY Zenon DEF buildCanaryRules
<1>h. /\ never.header = <<"header", "never">> /\ header.header = canaryHeaderMatch(c)
      /\ cookie.header = cookieOnPattern /\ split.header = AnyHeader
  BY DEF rule
<1>f. /\ never.refs = primary /\ header.refs = canary /\ cookie.refs = canary
      /\ split.refs = weightedRefs(p, e)
  BY DEF rule
<1>p. \A x \in T : x.path = p.path /\ x.exact = p.exact
  BY DEF rule
<1> HIDE DEF never, header, cookie, split, c
<1>3. /\ r \in [1..4 -> T] /\ r[1] = never /\ r[2] = header /\ r[3] = cookie /\ r[4] = split
  OBVIOUS
<1>4. /\ b \in [1..4 -> BOOLEAN] /\ b[1] = (c.header /\ plain) /\ b[2] = c.header /\ b[3] = c.cookie /\ b[4] = TRUE
  <2> DEFINE b1 == c.header /\ ~c.value /\ ~c.pattern
             b2 == c.header
             b3 == c.cookie
             B == BOOLEAN
             b4 == TRUE
  <2>1. b1 \in B /\ b2 \in B /\ b3 \in B /\ b4 \in B
    BY <1>1
  <2>2. b = <<b1, b2, b3, b4>>
    BY Zenon
  <2> HIDE DEF b1, b2, b3, b4, b, B
  <2>3. /\ <<b1, b2, b3, b4>> \in [1..4 -> B]
        /\ <<b1, b2, b3, b4>>[1] = b1 /\ <<b1, b2, b3, b4>>[2] = b2
        /\ <<b1, b2, b3, b4>>[3] = b3 /\ <<b1, b2, b3, b4>>[4] = b4
    BY <2>1
  <2>4. b \in [1..4 -> B] /\ b[1] = b1 /\ b[2] = b2 /\ b[3] = b3 /\ b[4] = b4
    BY <2>2, <2>3
  <2> QED BY <2>4, Zenon DEF b1, b2, b3, b4, B
<1> HIDE DEF r, b, F, T, primary, canary
<1>5. F = (((IF b[1] THEN <<r[1]>> ELSE <<>>) \o (IF b[2] THEN <<r[2]>> ELSE <<>>))
             \o (IF b[3] THEN <<r[3]>> ELSE <<>>)) \o <<r[4]>>
  BY <1>2, <1>3, <1>4, Zenon
<1>6. F \in Seq(T)
  BY <1>3, <1>4, <1>5, PlacesOf
<1>7. PICK k : Placed(F, r, b, k)
  BY <1>3, <1>4, <1>5, PlacesOf
<1>8. /\ Len(r[1].header) = 2 /\ Len(r[2].header) = 2 /\ Len(r[3].header) = 2 /\ Len(r[4].header) = 0
  BY <1>3, <1>h DEF canaryHeaderMatch, cookieOnPattern, AnyHeader
<1>9. HeaderMatches(r[1], req) <=> req.header = "never"
  BY <1>3, <1>h DEF HeaderMatches, AnyHeader
<1>10. HeaderMatches(r[2], req) <=> \/ plain /\ req.header = "always"
                                    \/ c.pattern /\ req.header = "pattern"
                                    \/ ~c.pattern /\ c.value /\ req.header = "value"
  <2> DEFINE x == IF c.pattern THEN "pattern" ELSE IF c.value THEN "value" ELSE "always"
  <2>1. r[2].header = <<"header", x>>
    BY <1>3, <1>h, Zenon DEF canaryHeaderMatch
  <2>2. x = req.header <=> \/ plain /\ req.header = "always"
                           \/ c.pattern /\ req.header = "pattern"
                           \/ ~c.pattern /\ c.value /\ req.header = "value"
    BY <1>1
  <2> HIDE DEF x
  <2>3. HeaderMatches(r[2], req) <=> x = req.header
    BY <2>1 DEF HeaderMatches, AnyHeader
  <2> QED BY <2>2, <2>3
<1>11. HeaderMatches(r[3], req) <=> req.cookie = "always"
  BY <1>3, <1>h DEF HeaderMatches, AnyHeader, cookieOnPattern
<1>12. HeaderMatches(r[4], req)
  BY <1>3, <1>h DEF HeaderMatches
<1> DEFINE M(i) == b[i] /\ HeaderMatches(r[i], req)
           I == IF M(1) THEN 1 ELSE IF M(2) THEN 2 ELSE IF M(3) THEN 3 ELSE 4
<1>13. I \in 1..4 /\ M(I)
  BY <1>4, <1>12
<1>14. r[I].refs = Asked(p, e, req)
  <2>1. Asked(p, e, req) = IF M(1) THEN primary ELSE IF M(2) THEN canary ELSE IF M(3) THEN canary
                           ELSE weightedRefs(p, e)
    BY <1>4, <1>9, <1>10, <1>11, Zenon DEF Asked, c, primary, canary
  <2>2. r[1].refs = primary /\ r[2].refs = canary /\ r[3].refs = canary /\ r[4].refs = weightedRefs(p, e)
    BY <1>3, <1>f
  <2> HIDE DEF M
  <2> QED BY <2>1, <2>2, Zenon
<1>15. ASSUME NEW i \in 1..4, M(i), i # I
       PROVE  Len(r[I].header) > Len(r[i].header) \/ (Len(r[I].header) = Len(r[i].header) /\ I < i)
  <2> HIDE DEF M
  <2>1. i = 1 \/ i = 2 \/ i = 3 \/ i = 4
    OBVIOUS
  <2>2. I < i /\ (I = 1 \/ I = 2 \/ I = 3)
    BY <1>15, <2>1
  <2> HIDE DEF I
  <2> QED BY <1>8, <2>1, <2>2
<1> HIDE DEF I
<1>16. /\ k \in [1..4 -> Nat]
       /\ \A i \in 1..4 : b[i] => k[i] \in DOMAIN F /\ F[k[i]] = r[i]
       /\ \A j \in DOMAIN F : \E i \in 1..4 : b[i] /\ j = k[i]
       /\ \A i, j \in 1..4 : b[i] /\ i < j => k[i] < k[j]
  BY <1>7 DEF Placed
<1>17. k[I] \in DOMAIN F /\ F[k[I]] = r[I]
  BY <1>13, <1>16
<1>18. ASSUME NEW j \in DOMAIN F \ {k[I]}, HeaderMatches(F[j], req)
       PROVE  \/ Len(F[k[I]].header) > Len(F[j].header)
              \/ Len(F[k[I]].header) = Len(F[j].header) /\ k[I] < j
  <2>1. PICK i \in 1..4 : b[i] /\ j = k[i]
    BY <1>16
  <2>2. i # I /\ F[j] = r[i]
    BY <1>16, <2>1
  <2>3. M(i)
    BY <1>18, <2>1, <2>2
  <2>4. Len(r[I].header) > Len(r[i].header) \/ (Len(r[I].header) = Len(r[i].header) /\ I < i)
    BY <1>15, <2>2, <2>3
  <2>5. I < i => k[I] < j
    BY <1>13, <1>16, <2>1
  <2> QED BY <1>17, <2>2, <2>4, <2>5
<1>19. Leads(F, k[I], req)
  BY <1>13, <1>17, <1>18 DEF Leads
<1>20. \A j \in DOMAIN F : F[j].path = p.path /\ F[j].exact = p.exact /\ Len(F[j].header) \in Nat
  <2> SUFFICES ASSUME NEW j \in DOMAIN F
               PROVE  F[j].path = p.path /\ F[j].exact = p.exact /\ Len(F[j].header) \in Nat
    OBVIOUS
  <2>1. PICK i \in 1..4 : F[j] = r[i]
    BY <1>16
  <2>2. r[i] \in T /\ Len(r[i].header) \in {0, 2}
    BY <1>3, <1>8
  <2> QED BY <1>p, <2>1, <2>2
<1>21. F \in Seq(ToSet(F))
  BY <1>6, OwnElements
<1>22. F[k[I]].refs = Asked(p, e, req)
  BY <1>14, <1>17
<1> QED BY <1>17, <1>19, <1>20, <1>21, <1>22 DEF RulesFor, F

-----------------------------------------------------------------------------
(* The rules of a route.                                                   *)

ResolvedRefs(refs, sources) == [j \in DOMAIN refs |-> Resolved(refs[j], sources)]

\* Resolving ports changes nothing but the ports.
LEMMA ResolvedRules ==
    ASSUME NEW B, NEW sources, NEW k \in DOMAIN B, RuleShape(B[k])
    PROVE  LET R == ResolveNamedPorts(B, sources)
           IN  /\ R[k].path = B[k].path /\ R[k].exact = B[k].exact /\ R[k].header = B[k].header
               /\ R[k].refs = ResolvedRefs(B[k].refs, sources)
<1> DEFINE R == ResolveNamedPorts(B, sources)
           refs == ResolvedRefs(B[k].refs, sources)
<1>1. R[k] = [B[k] EXCEPT !.refs = refs]
  BY DEF ResolveNamedPorts, ResolvedRefs, Resolved
<1>2. B[k] = [path |-> B[k].path, exact |-> B[k].exact, header |-> B[k].header,
              refs |-> B[k].refs, filters |-> B[k].filters]
  BY Zenon DEF RuleShape
<1> HIDE DEF refs, R
<1>3. /\ R[k].path = B[k].path /\ R[k].exact = B[k].exact /\ R[k].header = B[k].header
      /\ R[k].refs = refs
  BY <1>1, <1>2
<1> QED BY <1>3 DEF refs, R

\* The backends of the rule of a path that serves a request.
RefsFor(p, entries, req) ==
    IF p.path \in DOMAIN entries /\ p.svc # NoService THEN Asked(p, entries[p.path], req)
    ELSE IF p.svc = NoService THEN <<>> ELSE <<backendRefFromPath(p)>>

\* The rules made of path i, and those of all paths, which are flattened.
PartOf(p, entries, filters) ==
    IF p.path \in DOMAIN entries /\ p.svc # NoService
    THEN buildCanaryRules(p, entries[p.path], filters)
    ELSE <<plainRule(p, filters)>>

\* The rules made of one path answer the requests for it as asked.
LEMMA PartIs ==
    ASSUME NEW q \in Seq(Written), NEW E, E = collectCanaryEntries(q), NEW p, NEW filters, NEW req
    PROVE  RulesFor(PartOf(p, E, filters), p, req, RefsFor(p, E, req))
<1>1. CASE p.path \in DOMAIN E /\ p.svc # NoService
  <2>1. EntryOf(E[p.path], q, p.path)
    BY <1>1, Entries
  <2>2. PICK i \in usableCanaries(q, p.path) : E[p.path].cfg = q[i].cfg
    BY <2>1 DEF EntryOf
  <2>3. configured(E[p.path].cfg)
    BY <2>2, Admitted DEF usableCanaries
  <2> QED BY <1>1, <2>3, CanaryRules, Zenon DEF PartOf, RefsFor
<1>2. CASE ~(p.path \in DOMAIN E /\ p.svc # NoService)
  BY <1>2, PlainRules, Zenon DEF PartOf, RefsFor
<1> QED BY <1>1, <1>2

\* A request is answered by the rules of the best path that fits it, or not at all.
LEMMA RequestServed ==
    ASSUME NEW c \in Written, NEW q \in Seq(Written), NEW filters, NEW sources, NEW req
    PROVE  LET ps == pathsOf(c)
               E == collectCanaryEntries(q)
               R == ResolveNamedPorts(buildHTTPRouteRules(c, E, filters), sources)
           IN  /\ Fit(ps, req) = {} => Served(R, req) = {}
               /\ \A b : First(ps, req, b) =>
                     Served(R, req) = Shares(ResolvedRefs(RefsFor(ps[b], E, req), sources))
<1> DEFINE ps == pathsOf(c)
           E == collectCanaryEntries(q)
           R == ResolveNamedPorts(buildHTTPRouteRules(c, E, filters), sources)
           fit == Fit(ps, req)
           n == Len(ps)
           ss == [i \in DOMAIN ps |-> PartOf(ps[i], E, filters)]
           B == buildHTTPRouteRules(c, E, filters)
<1> SUFFICES /\ fit = {} => Served(R, req) = {}
             /\ \A b \in fit : (\A j \in fit \ {b} : Ahead(ps[b], ps[j])) =>
                   Served(R, req) = Shares(ResolvedRefs(RefsFor(ps[b], E, req), sources))
  BY Zenon DEF First
<1>1. B = FlattenSeq(ss)
  BY Zenon DEF buildHTTPRouteRules, PartOf
<1>2. ps \in Seq(ToSet(ps)) /\ \A k \in DOMAIN ps : PathShape(ps[k])
  BY Admitted, PathsShape
<1>3. B \in Seq(ToSet(B)) /\ \A k \in DOMAIN B : RuleShape(B[k])
  BY RulesShape
<1>4. n \in Nat /\ DOMAIN ps = 1..n /\ DOMAIN ss = 1..n /\ Len(ss) = n
  BY <1>2
<1>5. \A i \in 1..n : ss[i] = PartOf(ps[i], E, filters)
  BY <1>4
<1>6. \A i \in 1..n : RulesFor(ss[i], ps[i], req, RefsFor(ps[i], E, req))
  BY <1>5, PartIs
<1>7. DOMAIN R = DOMAIN B
  BY DEF ResolveNamedPorts
<1>8. \A k \in DOMAIN B : /\ R[k].path = B[k].path /\ R[k].exact = B[k].exact /\ R[k].header = B[k].header
                          /\ R[k].refs = ResolvedRefs(B[k].refs, sources)
  BY <1>3, ResolvedRules
<1> HIDE DEF n, ss, B, R, E, ps, fit
<1>f. \A i : i \in fit <=> i \in DOMAIN ps /\ PathMatches(ps[i], req)
  BY DEF fit, Fit
<1>9. CASE n = 0
  <2>1. FlattenSeq(ss) = ss
    BY <1>4, <1>9 DEF FlattenSeq
  <2>2. DOMAIN R = {} /\ fit = {}
    BY <1>1, <1>4, <1>7, <1>9, <1>f, <2>1
  <2>3. Served(R, req) = {}
    BY <2>2 DEF Served
  <2> QED BY <2>2, <2>3
<1>10. CASE n # 0
  <2> DEFINE T == UNION {ToSet(ss[i]) : i \in 1..n}
  <2>1. \A i \in 1..n : ss[i] \in Seq(ToSet(ss[i]))
    BY <1>6 DEF RulesFor
  <2>2. \A i \in 1..n : ss[i] \in Seq(T) /\ DOMAIN ss[i] = 1..Len(ss[i])
    BY <2>1
  <2> HIDE DEF T
  <2>3. PICK at \in [1..n -> Nat] : Laid(ss, n, B, at)
    BY <1>1, <1>4, <1>10, <2>2, Flattened, Zenon
  <2>4. DOMAIN B = 1..Len(B)
    BY <1>3
  <2>5. \A i \in 1..n : \A j \in DOMAIN ss[i] :
           /\ at[i] + j \in DOMAIN R /\ j \in Nat
           /\ R[at[i] + j].path = ps[i].path /\ R[at[i] + j].exact = ps[i].exact
           /\ R[at[i] + j].header = ss[i][j].header /\ Len(ss[i][j].header) \in Nat
           /\ R[at[i] + j].refs = ResolvedRefs(ss[i][j].refs, sources)
    <3> SUFFICES ASSUME NEW i \in 1..n, NEW j \in DOMAIN ss[i]
                 PROVE  /\ at[i] + j \in DOMAIN R /\ j \in Nat
                        /\ R[at[i] + j].path = ps[i].path /\ R[at[i] + j].exact = ps[i].exact
                        /\ R[at[i] + j].header = ss[i][j].header /\ Len(ss[i][j].header) \in Nat
                        /\ R[at[i] + j].refs = ResolvedRefs(ss[i][j].refs, sources)
      OBVIOUS
    <3>1. at[i] + j \in DOMAIN B /\ B[at[i] + j] = ss[i][j]
      BY <2>2, <2>3, <2>4 DEF Laid
    <3>2. ss[i][j].path = ps[i].path /\ ss[i][j].exact = ps[i].exact /\ Len(ss[i][j].header) \in Nat
      BY <1>6 DEF RulesFor
    <3>3. j \in Nat
      BY <2>2
    <3> QED BY <1>7, <1>8, <3>1, <3>2, <3>3
  <2>6. \A k \in DOMAIN R : \E i \in 1..n : \E j \in DOMAIN ss[i] : k = at[i] + j
    BY <1>7, <2>2, <2>3, <2>4 DEF Laid
  <2>7. \A k \in DOMAIN R : Ranked(R[k], k)
    <3> SUFFICES ASSUME NEW k \in DOMAIN R PROVE Ranked(R[k], k)
      OBVIOUS
    <3>1. PICK i \in 1..n : \E j \in DOMAIN ss[i] : k = at[i] + j
      BY <2>6
    <3>2. PICK j \in DOMAIN ss[i] : k = at[i] + j
      BY <3>1
    <3>3. Len(ps[i].path) \in Nat /\ ps[i].exact \in BOOLEAN
      BY <1>2, <1>4, PathFields
    <3>4. k \in Nat
      BY <1>7, <2>4
    <3> QED BY <2>5, <3>2, <3>3, <3>4 DEF Ranked
  <2>8. \A i \in 1..n : \A j \in DOMAIN ss[i] : PathMatches(R[at[i] + j], req) <=> i \in fit
    <3>1. \A i \in 1..n : \A j \in DOMAIN ss[i] : PathMatches(R[at[i] + j], req) <=> PathMatches(ps[i], req)
      BY <2>5 DEF PathMatches
    <3> QED BY <1>4, <1>f, <3>1
  <2>9. \A i \in 1..n : \A j \in DOMAIN ss[i] :
           HeaderMatches(R[at[i] + j], req) <=> HeaderMatches(ss[i][j], req)
    BY <2>5 DEF HeaderMatches
  <2>10. ASSUME fit = {} PROVE Served(R, req) = {}
    <3>1. \A k \in DOMAIN R : ~PathMatches(R[k], req)
      BY <2>6, <2>8, <2>10
    <3> QED BY <3>1 DEF Served
  <2>11. ASSUME NEW b \in fit, \A j \in fit \ {b} : Ahead(ps[b], ps[j])
         PROVE  Served(R, req) = Shares(ResolvedRefs(RefsFor(ps[b], E, req), sources))
    <3>0. b \in 1..n
      BY <1>4, <1>f
    <3>1. PICK J \in DOMAIN ss[b] : Leads(ss[b], J, req) /\ ss[b][J].refs = RefsFor(ps[b], E, req)
      BY <1>6, <3>0 DEF RulesFor
    <3> DEFINE K == at[b] + J
    <3>2. /\ K \in DOMAIN R /\ PathMatches(R[K], req) /\ HeaderMatches(R[K], req)
          /\ R[K].refs = ResolvedRefs(RefsFor(ps[b], E, req), sources)
      BY <2>5, <2>8, <2>9, <3>0, <3>1 DEF Leads
    <3>3. ASSUME NEW k \in DOMAIN R \ {K}, PathMatches(R[k], req), HeaderMatches(R[k], req)
          PROVE  Before(Precedence(R[K], K), Precedence(R[k], k))
      <4>1. PICK i \in 1..n : \E j \in DOMAIN ss[i] : k = at[i] + j
        BY <2>6
      <4>2. PICK j \in DOMAIN ss[i] : k = at[i] + j
        BY <4>1
      <4>3. i \in fit /\ HeaderMatches(ss[i][j], req)
        BY <2>8, <2>9, <3>3, <4>2
      <4>4. Ranked(R[K], K) /\ Ranked(R[k], k)
        BY <2>7, <3>2
      <4>5. /\ R[K].path = ps[b].path /\ R[K].exact = ps[b].exact /\ R[K].header = ss[b][J].header
            /\ R[k].path = ps[i].path /\ R[k].exact = ps[i].exact /\ R[k].header = ss[i][j].header
        BY <2>5, <3>0, <4>2
      <4>6. CASE i = b
        <5>1. j # J
          BY <4>2, <4>6
        <5>2. \/ Len(R[K].header) > Len(R[k].header)
              \/ Len(R[K].header) = Len(R[k].header) /\ J < j
          BY <3>1, <4>3, <4>5, <4>6, <5>1 DEF Leads
        <5>3. J < j => K < k
          <6>1. J \in Nat /\ j \in Nat /\ at[b] \in Nat
            BY <2>5, <3>0
          <6> QED BY <4>2, <4>6, <6>1
        <5> HIDE DEF K
        <5> QED BY <4>4, <4>5, <4>6, <5>2, <5>3, PrecedenceIs
      <4>7. CASE i # b
        <5>1. Ahead(ps[b], ps[i])
          BY <2>11, <4>3, <4>7
        <5> HIDE DEF K
        <5> QED BY <4>4, <4>5, <5>1, PrecedenceIs DEF Ahead
      <4> QED BY <4>6, <4>7
    <3> HIDE DEF K
    <3>4. Served(R, req) = Shares(R[K].refs)
      BY <2>7, <3>2, <3>3, ServedBy
    <3> QED BY <3>2, <3>4
  <2> QED BY <2>10, <2>11
<1> QED BY <1>9, <1>10

-----------------------------------------------------------------------------
(* What a request is answered by.                                          *)

\* Resolving one backend.
LEMMA OneResolved ==
    ASSUME NEW b, NEW sources
    PROVE  ResolvedRefs(<<b>>, sources) = <<Resolved(b, sources)>>
<1> DEFINE r == Resolved(b, sources)
           s == [j \in DOMAIN <<b>> |-> Resolved(<<b>>[j], sources)]
<1>1. DOMAIN <<b>> = 1..1 /\ <<b>>[1] = b
  OBVIOUS
<1>2. s \in Seq({r}) /\ Len(s) = 1 /\ s[1] = r
  <2>1. DOMAIN s = 1..1 /\ \A j \in 1..1 : s[j] = r
    <3>1. \A j \in 1..1 : j = 1
      OBVIOUS
    <3> QED BY <1>1, <3>1, Zenon
  <2>2. s = [j \in 1..1 |-> s[j]]
    BY <1>1
  <2> HIDE DEF s, r
  <2> QED BY <2>1, <2>2
<1> HIDE DEF s, r
<1>3. s = <<r>>
  BY <1>2
<1> QED BY <1>3 DEF s, r, ResolvedRefs

\* Resolving two.
LEMMA TwoResolved ==
    ASSUME NEW a, NEW b, NEW sources
    PROVE  ResolvedRefs(<<a, b>>, sources) = <<Resolved(a, sources), Resolved(b, sources)>>
<1> DEFINE r == Resolved(a, sources)
           t == Resolved(b, sources)
           s == [j \in DOMAIN <<a, b>> |-> Resolved(<<a, b>>[j], sources)]
<1>1. DOMAIN <<a, b>> = 1..2 /\ <<a, b>>[1] = a /\ <<a, b>>[2] = b
  OBVIOUS
<1>2. s \in Seq({r, t}) /\ Len(s) = 2 /\ s[1] = r /\ s[2] = t
  <2>1. DOMAIN s = 1..2 /\ s[1] = r /\ s[2] = t
    <3>1. 1 \in 1..2 /\ 2 \in 1..2
      OBVIOUS
    <3> QED BY <1>1, <3>1, Zenon
  <2>2. s = [j \in 1..2 |-> s[j]]
    BY <1>1
  <2> HIDE DEF s, r, t
  <2> QED BY <2>1, <2>2
<1> HIDE DEF s, r, t
<1>3. s = <<r, t>>
  BY <1>2
<1> QED BY <1>3 DEF s, r, t, ResolvedRefs

\* A backend gets the port that its Ingress names.
LEMMA NamedFound ==
    ASSUME NEW sources \in Seq(Written), Consistent(sources),
           NEW i \in DOMAIN sources, NEW x \in ToSet(pathsOf(sources[i])), x.svc # NoService
    PROVE  ResolvedRefs(<<backendRefFromPath(x)>>, sources) = <<NamedBackend(x)>>
<1>1. Weighted(backendRefFromPath(x), 1) = backendRefFromPath(x)
  BY DEF backendRefFromPath, Weighted
<1>2. Weighted(NamedBackend(x), 1) = NamedBackend(x)
  <2> DEFINE p == NamedBackend(x).port
  <2>1. NamedBackend(x) = [svc |-> x.svc, weight |-> 1, port |-> p]
    BY DEF NamedBackend
  <2> HIDE DEF p
  <2> QED BY <2>1 DEF Weighted
<1>3. Resolved(backendRefFromPath(x), sources) = NamedBackend(x)
  BY <1>1, <1>2, PortFound
<1> QED BY <1>3, OneResolved

\* How ingress-nginx decides: by the header, or else by the cookie.
Choice(cfg, req) == IF ByHeader(cfg, req) # "open" THEN ByHeader(cfg, req) ELSE ByCookie(cfg, req)

\* Where canary.go does not depart from it, it decides the same.
LEMMA AskedBy ==
    ASSUME NEW p, NEW e, NEW req, ~Departs(e.cfg, req)
    PROVE  Asked(p, e, req) = IF Choice(e.cfg, req) = "primary" THEN <<backendRefFromPath(p)>>
                              ELSE IF Choice(e.cfg, req) = "canary" THEN <<backendRefFromPath(e.path)>>
                              ELSE weightedRefs(p, e)
<1> DEFINE a == <<backendRefFromPath(p)>>
           b == <<backendRefFromPath(e.path)>>
           d == weightedRefs(p, e)
           plain == ~e.cfg.value /\ ~e.cfg.pattern
           never == e.cfg.header /\ plain /\ req.header = "never"
           takes == e.cfg.header /\ \/ plain /\ req.header = "always"
                                    \/ e.cfg.pattern /\ req.header = "pattern"
                                    \/ ~e.cfg.pattern /\ e.cfg.value /\ req.header = "value"
           cookie == e.cfg.cookie /\ req.cookie = "always"
<1>1. Asked(p, e, req) = IF never THEN a ELSE IF takes THEN b ELSE IF cookie THEN b ELSE d
  BY Zenon DEF Asked
<1>2. /\ never => ByHeader(e.cfg, req) = "primary"
      /\ takes => ByHeader(e.cfg, req) = "canary"
      /\ ~never /\ ~takes => ByHeader(e.cfg, req) = "open"
  BY DEF ByHeader, Departs
<1>3. ByHeader(e.cfg, req) = "open" =>
         /\ cookie => ByCookie(e.cfg, req) = "canary"
         /\ ~cookie => ByCookie(e.cfg, req) = "open"
  BY DEF ByCookie, Departs
<1>4. never => Choice(e.cfg, req) = "primary"
  BY <1>2 DEF Choice
<1>5. ~never /\ (takes \/ cookie) => Choice(e.cfg, req) = "canary"
  BY <1>2, <1>3 DEF Choice
<1>6. ~never /\ ~takes /\ ~cookie => Choice(e.cfg, req) = "open"
  BY <1>2, <1>3 DEF Choice
<1> HIDE DEF a, b, d, never, takes, cookie
<1>7. Asked(p, e, req) = IF Choice(e.cfg, req) = "primary" THEN a
                         ELSE IF Choice(e.cfg, req) = "canary" THEN b ELSE d
  BY <1>1, <1>4, <1>5, <1>6
<1> QED BY <1>7, Zenon DEF a, b, d

\* The backends of the rules are the ones ingress-nginx takes, with their shares.
LEMMA AskedFound ==
    ASSUME NEW sources \in Seq(Written), Consistent(sources),
           NEW i \in DOMAIN sources, NEW p \in ToSet(pathsOf(sources[i])), p.svc # NoService,
           NEW j \in DOMAIN sources, NEW e, e.path \in ToSet(pathsOf(sources[j])), e.path.svc # NoService,
           NEW req, ~Departs(e.cfg, req)
    PROVE  Shares(ResolvedRefs(Asked(p, e, req), sources)) = Canaried(p, e.path, e.cfg, req)
<1> DEFINE u == canaryTotal(e.cfg) - canaryWeight(e.cfg)
           v == canaryWeight(e.cfg)
<1>1. ResolvedRefs(<<backendRefFromPath(p)>>, sources) = <<NamedBackend(p)>>
  BY NamedFound
<1>2. ResolvedRefs(<<backendRefFromPath(e.path)>>, sources) = <<NamedBackend(e.path)>>
  BY NamedFound
<1>3. ResolvedRefs(weightedRefs(p, e), sources)
        = <<Weighted(NamedBackend(p), u), Weighted(NamedBackend(e.path), v)>>
  <2>1. weightedRefs(p, e) = <<Weighted(backendRefFromPath(p), u),
                               Weighted(backendRefFromPath(e.path), v)>>
    BY DEF weightedRefs, Weighted
  <2> HIDE DEF u, v
  <2>2. Resolved(Weighted(backendRefFromPath(p), u), sources) = Weighted(NamedBackend(p), u)
    BY PortFound
  <2>3. Resolved(Weighted(backendRefFromPath(e.path), v), sources)
          = Weighted(NamedBackend(e.path), v)
    BY PortFound
  <2> QED BY <2>1, <2>2, <2>3, TwoResolved
<1>4. Asked(p, e, req) = IF Choice(e.cfg, req) = "primary" THEN <<backendRefFromPath(p)>>
                         ELSE IF Choice(e.cfg, req) = "canary" THEN <<backendRefFromPath(e.path)>>
                         ELSE weightedRefs(p, e)
  BY AskedBy
<1>5. Canaried(p, e.path, e.cfg, req) =
         IF Choice(e.cfg, req) = "primary" THEN Shares(<<NamedBackend(p)>>)
         ELSE IF Choice(e.cfg, req) = "canary" THEN Shares(<<NamedBackend(e.path)>>)
         ELSE Shares(<<Weighted(NamedBackend(p), u), Weighted(NamedBackend(e.path), v)>>)
  BY Zenon DEF Canaried, Choice, Weighted
<1> HIDE DEF u, v
<1> QED BY <1>1, <1>2, <1>3, <1>4, <1>5, Zenon

\* A rule without backends answers nothing.
LEMMA NothingServed == \A sources : Shares(ResolvedRefs(<<>>, sources)) = {}
<1> SUFFICES ASSUME NEW sources PROVE Shares(ResolvedRefs(<<>>, sources)) = {}
  OBVIOUS
<1> DEFINE r == ResolvedRefs(<<>>, sources)
<1>1. DOMAIN r = {}
  BY DEF ResolvedRefs
<1>2. ToSet(r) = {}
  BY <1>1 DEF ToSet
<1> HIDE DEF r
<1>3. Cardinality({}) = 0
  BY FS_EmptySet
<1> DEFINE used == {x \in ToSet(r) : x.weight > 0}
           to == {<<x.svc, x.port>> : x \in used}
<1>4. used = {} /\ to = {} /\ {<< <<x.svc, x.port>>, x.weight>> : x \in used} = {}
  BY <1>2
<1>5. Shares(r) = IF Cardinality(to) = 1 THEN {<<b, 1>> : b \in to}
                  ELSE {<< <<x.svc, x.port>>, x.weight>> : x \in used}
  BY Zenon DEF Shares
<1> HIDE DEF used, to
<1> QED BY <1>3, <1>4, <1>5 DEF r

\* Of the canaries of n, those that may be asked for path p.
On(n, p) ==
    UNION {{<<x, obj[m].c.cfg>> : x \in {y \in ToSet(pathsOf(obj[m].c)) : y.path = p.path /\ y.svc # NoService}} :
             m \in {k \in findCanarySiblings(n, obj[n].c) : validCanary(obj[k].c.cfg)}}

\* The entries of canaries on a path.
LEMMA OnIs ==
    ASSUME NEW n, NEW p, NEW z
    PROVE  z \in On(n, p) <=>
             \E m \in findCanarySiblings(n, obj[n].c) : \E x \in ToSet(pathsOf(obj[m].c)) :
                /\ validCanary(obj[m].c.cfg) /\ x.path = p.path /\ x.svc # NoService
                /\ z = <<x, obj[m].c.cfg>>
  BY DEF On

\* The entry of a path is one of those, and there is one when there are any.
LEMMA EntryOn ==
    ASSUME NEW n, NEW q \in Lists(n), q \in Seq(Written), NEW p, NEW E, E = collectCanaryEntries(q)
    PROVE  /\ p.path \in DOMAIN E <=> On(n, p) # {}
           /\ p.path \in DOMAIN E => /\ <<E[p.path].path, E[p.path].cfg>> \in On(n, p)
                                     /\ E[p.path].path.svc # NoService
                                     /\ \E i \in DOMAIN q : E[p.path].path \in ToSet(pathsOf(q[i]))
<1> DEFINE F == findCanarySiblings(n, obj[n].c)
<1>1. ASSUME p.path \in DOMAIN E
      PROVE  /\ <<E[p.path].path, E[p.path].cfg>> \in On(n, p)
             /\ E[p.path].path.svc # NoService
             /\ \E i \in DOMAIN q : E[p.path].path \in ToSet(pathsOf(q[i]))
  <2>1. EntryOf(E[p.path], q, p.path)
    BY <1>1, Entries
  <2>2. PICK i \in usableCanaries(q, p.path) : \E j \in servedPaths(q[i], p.path) :
               E[p.path] = [cfg |-> q[i].cfg, path |-> pathsOf(q[i])[j]]
    BY <2>1 DEF EntryOf
  <2>3. PICK j \in servedPaths(q[i], p.path) : E[p.path] = [cfg |-> q[i].cfg, path |-> pathsOf(q[i])[j]]
    BY <2>2
  <2> DEFINE x == pathsOf(q[i])[j]
  <2>4. i \in DOMAIN q /\ validCanary(q[i].cfg)
    BY DEF usableCanaries
  <2>5. x \in ToSet(pathsOf(q[i])) /\ x.path = p.path /\ x.svc # NoService
    BY DEF servedPaths, ToSet
  <2>6. E[p.path].path = x /\ E[p.path].cfg = q[i].cfg
    BY <2>3
  <2> HIDE DEF x
  <2>7. PICK m \in F : q[i] = obj[m].c
    BY <2>4, ListHasAll
  <2>8. <<x, q[i].cfg>> \in On(n, p)
    BY <2>4, <2>5, <2>7, OnIs
  <2> QED BY <2>4, <2>5, <2>6, <2>8
<1>2. ASSUME On(n, p) # {} PROVE p.path \in DOMAIN E
  <2>1. PICK z : z \in On(n, p)
    BY <1>2
  <2>2. PICK m \in F : \E x \in ToSet(pathsOf(obj[m].c)) :
                /\ validCanary(obj[m].c.cfg) /\ x.path = p.path /\ x.svc # NoService
    BY <2>1, OnIs
  <2>3. PICK i \in DOMAIN q : q[i] = obj[m].c
    BY ListHasAll
  <2>4. servedPaths(q[i], p.path) # {}
    BY <2>2, <2>3 DEF servedPaths, ToSet
  <2>5. i \in usableCanaries(q, p.path)
    BY <2>2, <2>3, <2>4 DEF usableCanaries
  <2> QED BY <2>5, Entries
<1> QED BY <1>1, <1>2

\* The request is for a path of the Ingress, or for another one.
LEMMA RequestPath ==
    ASSUME NEW c \in Written, NEW req \in Requests(c)
    PROVE  req.path \in Seq(ToSet(req.path))
<1>1. req.path \in {p.path : p \in ToSet(pathsOf(c))} \cup {<<"a", "b">>}
  BY DEF Requests
<1>2. \A p \in ToSet(pathsOf(c)) : p.path \in Seq(ToSet(p.path))
  <2>1. \A k \in DOMAIN pathsOf(c) : PathShape(pathsOf(c)[k])
    BY Admitted, PathsShape
  <2> QED BY <2>1, PathFields DEF ToSet
<1>3. <<"a", "b">> \in Seq({"a", "b"})
  OBVIOUS
<1>4. <<"a", "b">> \in Seq(ToSet(<<"a", "b">>))
  BY <1>3, OwnElements
<1> QED BY <1>1, <1>2, <1>4

\* What is wanted of the path p of n.
WantedOf(n, p, req) ==
    IF p.svc = NoService THEN {{}}
    ELSE IF On(n, p) = {} THEN {Shares(<<NamedBackend(p)>>)}
    ELSE {Canaried(p, x[1], x[2], req) : x \in On(n, p)}

\* What Wanted says of the path that is ahead.
LEMMA WantedIs ==
    ASSUME NEW n, NEW req, NEW ps, ps = pathsOf(obj[n].c),
           Fit(ps, req) # {} => \E b : First(ps, req, b)
    PROVE  \/ Fit(ps, req) = {} /\ Wanted(n, req) = {{}}
           \/ \E b : First(ps, req, b) /\ Wanted(n, req) = WantedOf(n, ps[b], req)
<1> DEFINE Q == pathsOf(obj[n].c)
           best == CHOOSE i \in Fit(Q, req) : \A j \in Fit(Q, req) \ {i} :
                     \/ Q[i].exact /\ ~Q[j].exact
                     \/ Q[i].exact = Q[j].exact /\ Len(Q[i].path) > Len(Q[j].path)
<1>1. Wanted(n, req) = IF Fit(Q, req) = {} \/ Q[best].svc = NoService THEN {{}}
                       ELSE IF On(n, Q[best]) = {} THEN {Shares(<<NamedBackend(Q[best])>>)}
                       ELSE {Canaried(Q[best], x[1], x[2], req) : x \in On(n, Q[best])}
  BY Zenon DEF Wanted, On, Fit
<1>2. (\E b : First(Q, req, b)) => First(Q, req, best)
  BY Zenon DEF First, Ahead
<1> HIDE DEF best
<1>3. CASE Fit(Q, req) = {}
  BY <1>1, <1>3
<1>4. CASE Fit(Q, req) # {}
  <2>1. First(Q, req, best)
    BY <1>2, <1>4
  <2>2. Wanted(n, req) = WantedOf(n, Q[best], req)
    BY <1>1, <1>4, Zenon DEF WantedOf
  <2> QED BY <2>1, <2>2
<1> QED BY <1>3, <1>4

\* A route that is up to date serves what is wanted.
LEMMA RouteServes ==
    ASSUME NEW n \in Name, NEW q \in Lists(n), q \in Seq(Written), obj[n].c \in Written,
           NEW R, R = TranslateToHTTPRoute(obj[n].c, q).rules,
           Unambiguous(n), NEW req \in Requests(obj[n].c),
           \A m \in findCanarySiblings(n, obj[n].c) : ~Departs(obj[m].c.cfg, req)
    PROVE  Served(R, req) \in Wanted(n, req)
<1> DEFINE c == obj[n].c
           ps == pathsOf(c)
           E == collectCanaryEntries(q)
           sources == <<c>> \o q
           on == {n} \cup findCanarySiblings(n, c)
<1>1. R = ResolveNamedPorts(buildHTTPRouteRules(c, E, headerFilters(c)), sources)
  BY DEF TranslateToHTTPRoute
<1>2. ps \in Seq(ToSet(ps)) /\ \A k \in DOMAIN ps : PathShape(ps[k])
  BY Admitted, PathsShape
<1>3. req.path \in Seq(ToSet(req.path))
  BY RequestPath
<1>4. /\ \A i, j \in DOMAIN ps : ps[i].path = ps[j].path /\ ps[i].exact = ps[j].exact => i = j
      /\ \A a, b \in UNION {ToSet(pathsOf(obj[m].c)) : m \in on} : a.svc = b.svc => a.port = b.port
  BY Zenon DEF Unambiguous
<1>5. sources \in Seq(Written) /\ 1 \in DOMAIN sources /\ sources[1] = c
  OBVIOUS
<1>6. \A i \in DOMAIN q : i + 1 \in DOMAIN sources /\ sources[i + 1] = q[i]
  OBVIOUS
<1>7. \A i \in DOMAIN sources : \E m \in on : sources[i] = obj[m].c
  <2> SUFFICES ASSUME NEW i \in DOMAIN sources PROVE \E m \in on : sources[i] = obj[m].c
    OBVIOUS
  <2>1. CASE i = 1
    BY <1>5, <2>1
  <2>2. CASE i # 1
    <3>1. i - 1 \in DOMAIN q /\ sources[i] = q[i - 1]
      BY <1>5, <2>2
    <3>2. PICK m \in findCanarySiblings(n, c) : q[i - 1] = obj[m].c
      BY <3>1, ListHasAll
    <3> QED BY <3>1, <3>2
  <2> QED BY <2>1, <2>2
<1>8. Consistent(sources)
  <2> SUFFICES ASSUME NEW i \in DOMAIN sources, NEW j \in DOMAIN sources,
                      NEW a \in ToSet(pathsOf(sources[i])), NEW b \in ToSet(pathsOf(sources[j])), a.svc = b.svc
               PROVE  a.port = b.port
    BY DEF Consistent
  <2> HIDE DEF on, sources
  <2>1. a \in UNION {ToSet(pathsOf(obj[m].c)) : m \in on} /\ b \in UNION {ToSet(pathsOf(obj[m].c)) : m \in on}
    BY <1>7
  <2> QED BY <1>4, <2>1
<1> HIDE DEF sources, on
<1> HIDE DEF ps, E
<1>9. Fit(ps, req) # {} => \E b : First(ps, req, b)
  BY <1>2, <1>3, <1>4, BestPath
<1>10. /\ Fit(ps, req) = {} => Served(R, req) = {}
       /\ \A b : First(ps, req, b) =>
             Served(R, req) = Shares(ResolvedRefs(RefsFor(ps[b], E, req), sources))
  <2> DEFINE S == ResolveNamedPorts(buildHTTPRouteRules(c, E, headerFilters(c)), sources)
  <2>1. /\ Fit(ps, req) = {} => Served(S, req) = {}
        /\ \A b : First(ps, req, b) =>
              Served(S, req) = Shares(ResolvedRefs(RefsFor(ps[b], E, req), sources))
    BY RequestServed DEF ps, E
  <2>2. R = S
    BY <1>1
  <2> HIDE DEF S
  <2> QED BY <2>1, <2>2, Zenon
<1>11. \/ Fit(ps, req) = {} /\ Wanted(n, req) = {{}}
       \/ \E b : First(ps, req, b) /\ Wanted(n, req) = WantedOf(n, ps[b], req)
  BY <1>9, WantedIs, Zenon DEF ps
<1>12. CASE Fit(ps, req) = {}
  BY <1>10, <1>11, <1>12 DEF First
<1>13. CASE Fit(ps, req) # {}
  <2>1. PICK b : First(ps, req, b) /\ Wanted(n, req) = WantedOf(n, ps[b], req)
    BY <1>11, <1>13
  <2> DEFINE p == ps[b]
  <2>2. Served(R, req) = Shares(ResolvedRefs(RefsFor(p, E, req), sources))
    BY <1>10, <2>1
  <2>3. p \in ToSet(pathsOf(sources[1])) /\ 1 \in DOMAIN sources
    BY <1>5, <2>1 DEF ToSet, First, Fit, ps
  <2>4. Wanted(n, req) = IF p.svc = NoService THEN {{}}
                         ELSE IF On(n, p) = {} THEN {Shares(<<NamedBackend(p)>>)}
                         ELSE {Canaried(p, x[1], x[2], req) : x \in On(n, p)}
    BY <2>1, Zenon DEF WantedOf
  <2> HIDE DEF p
  <2>5. /\ p.path \in DOMAIN E <=> On(n, p) # {}
        /\ p.path \in DOMAIN E => /\ <<E[p.path].path, E[p.path].cfg>> \in On(n, p)
                                  /\ E[p.path].path.svc # NoService
                                  /\ \E i \in DOMAIN q : E[p.path].path \in ToSet(pathsOf(q[i]))
    BY EntryOn, Zenon DEF E
  <2>6. CASE p.svc = NoService
    <3>1. RefsFor(p, E, req) = <<>>
      BY <2>6, Zenon DEF RefsFor
    <3> QED BY <2>2, <2>4, <2>6, <3>1, NothingServed
  <2>7. CASE p.svc # NoService /\ p.path \notin DOMAIN E
    <3>1. RefsFor(p, E, req) = <<backendRefFromPath(p)>>
      BY <2>7, Zenon DEF RefsFor
    <3>2. ResolvedRefs(<<backendRefFromPath(p)>>, sources) = <<NamedBackend(p)>>
      BY <1>5, <1>8, <2>3, <2>7, NamedFound
    <3>3. Wanted(n, req) = {Shares(<<NamedBackend(p)>>)}
      BY <2>4, <2>5, <2>7, Zenon
    <3> QED BY <2>2, <3>1, <3>2, <3>3
  <2>8. CASE p.svc # NoService /\ p.path \in DOMAIN E
    <3> DEFINE e == E[p.path]
               z == <<e.path, e.cfg>>
    <3>1. RefsFor(p, E, req) = Asked(p, e, req)
      BY <2>8, Zenon DEF RefsFor
    <3>2. PICK i \in DOMAIN q : e.path \in ToSet(pathsOf(q[i]))
      BY <2>5, <2>8
    <3>3. i + 1 \in DOMAIN sources /\ e.path \in ToSet(pathsOf(sources[i + 1])) /\ e.path.svc # NoService
      BY <1>6, <2>5, <2>8, <3>2
    <3>4. z \in On(n, p) /\ z[1] = e.path /\ z[2] = e.cfg
      BY <2>5, <2>8
    <3>8. ~Departs(e.cfg, req)
      <4>1. PICK m \in findCanarySiblings(n, obj[n].c) : \E x \in ToSet(pathsOf(obj[m].c)) :
                z = <<x, obj[m].c.cfg>>
        BY <3>4, OnIs
      <4>2. e.cfg = obj[m].c.cfg
        BY <3>4, <4>1
      <4> QED BY <4>2
    <3> HIDE DEF e, z
    <3>5. Shares(ResolvedRefs(Asked(p, e, req), sources)) = Canaried(p, e.path, e.cfg, req)
      BY <1>5, <1>8, <2>3, <2>8, <3>3, <3>8, AskedFound
    <3>6. Wanted(n, req) = {Canaried(p, x[1], x[2], req) : x \in On(n, p)}
      BY <2>4, <2>5, <2>8, Zenon
    <3>7. Served(R, req) = Canaried(p, z[1], z[2], req)
      BY <2>2, <3>1, <3>4, <3>5
    <3> QED BY <3>4, <3>6, <3>7
  <2> QED BY <2>6, <2>7, <2>8
<1> QED BY <1>12, <1>13

-----------------------------------------------------------------------------
(* The properties.                                                         *)

\* The variables stay in their sets, and no HTTPRoute the controller writes has an
\* unresolved port or a weight out of range: collectCanaryEntries, the weights of
\* buildCanaryRules and ResolveNamedPorts together, for any contents.
THEOREM TypeCorrect == Spec => []TypeOK
<1>1. IInv => TypeOK
  BY DEF IInv
<1> QED BY <1>1, InvariantHolds, PTL

\* Nothing pending means that every route is up to date.
LEMMA AtRest == IInv /\ Quiet => \A n \in Settled : UpToDate(n) /\ (route[n].server => obj[n].c.key)
<1> SUFFICES ASSUME IInv, Quiet, NEW n \in Settled
             PROVE  UpToDate(n) /\ (route[n].server => obj[n].c.key)
  OBVIOUS
<1>1. n \in Name /\ Primary(n) /\ n \notin lost /\ queue = {} /\ w.pc = "idle" /\ w.todo = {}
  BY DEF Settled, Primary, Quiet, IInv, Working
<1>2. ~Pending(n)
  BY <1>1 DEF Pending, Queued
<1> QED BY <1>1, <1>2 DEF IInv, Followed

\* When the controller is done, each route is the translation of its Ingress and of
\* its canaries as they are, whichever change came between findCanarySiblings and
\* the write, except for those the code is known to miss (`lost').
THEOREM RoutesAreCurrent == Spec => []RoutesCurrent
<1>1. IInv => RoutesCurrent
  BY AtRest DEF RoutesCurrent
<1> QED BY <1>1, InvariantHolds, PTL

\* When the controller is done, of two routes on a hostname at most one has the
\* server-only directive: detectSnippetConflicts decides for each on its own, and of
\* two Ingresses one is older, by its name when they are of the same second.  (Except
\* for those that an Ingress created or edited later goes before, which are `lost'.)
THEOREM OneDirective == Spec => []OneServerDirective
<1>1. ASSUME IInv PROVE OneServerDirective
  <2> SUFFICES ASSUME Quiet, NEW m \in Settled, NEW n \in Settled, m # n,
                      route[m].hosts \cap route[n].hosts # {}, route[m].server, route[n].server
               PROVE  FALSE
    BY DEF OneServerDirective
  <2>1. \A x \in {m, n} : /\ x \in Name /\ Primary(x) /\ x \notin lost /\ Exists(x)
                          /\ route[x].hosts = transformedHostSet(obj[x].c) /\ obj[x].c.key
    <3>1. \A x \in {m, n} : UpToDate(x) /\ obj[x].c.key
      BY <1>1, AtRest
    <3>2. \A x \in {m, n} : route[x].hosts = transformedHostSet(obj[x].c)
      <4>1. \A c, q : TranslateToHTTPRoute(c, q).hosts = transformedHostSet(c)
        BY DEF TranslateToHTTPRoute
      <4> QED BY <3>1, <4>1, UpToDateIs
    <3> QED BY <3>1, <3>2 DEF Settled, Primary, Exists, Live
  <2>2. ASSUME NEW a \in {m, n}, NEW b \in {m, n}, a # b,
               isOlderIngress(a, obj[a].ts, b, obj[b].ts)
        PROVE  FALSE
    <3>1. Suppressed(b)
      <4>1. a \in siblings(b)
        BY <2>1, <2>2 DEF siblings
      <4>2. suppresses(a, b, obj[b].c)
        BY <2>1, <2>2 DEF suppresses, Primary
      <4> QED BY <4>1, <4>2 DEF Suppressed
    <3> QED BY <1>1, <2>1, <3>1 DEF IInv, Yielded, Quiet
  <2>3. isOlderIngress(m, obj[m].ts, n, obj[n].ts) \/ isOlderIngress(n, obj[n].ts, m, obj[m].ts)
    <3>1. m \in Nat /\ n \in Nat /\ obj[m].ts \in Nat /\ obj[n].ts \in Nat
      BY <1>1, <2>1, NameAssumption DEF IInv, TypeOK, Ingresses
    <3> QED BY <3>1 DEF isOlderIngress
  <2> QED BY <2>2, <2>3
<1> QED BY <1>1, InvariantHolds, PTL

\* TransformHostname moves each hostname to the new domain of the first rule for it,
\* leaves the others alone and makes no two names of the same domains equal, for any
\* list of domains.
THEOREM NamesRewritten == Spec => []HostsRenamed
<1>1. ASSUME IInv PROVE HostsRenamed
  <2> SUFFICES ASSUME Quiet, DomainsRewritten, NEW n \in Settled, EndsAtLabel(obj[n].c)
               PROVE  /\ route[n].hosts = {NewName(h) : h \in hosts(obj[n].c)}
                      /\ \A g, h \in hosts(obj[n].c) :
                            g # h /\ InDomains(g) = InDomains(h) => TransformHostname(g) # TransformHostname(h)
    BY DEF HostsRenamed
  <2>1. n \in Name /\ obj[n].st = "live"
    BY DEF Settled, Live
  <2>2. obj[n].c \in Contents[n]
    BY <1>1, <2>1 DEF IInv, TypeOK
  <2>3. admissible(obj[n].c)
    BY <2>1, <2>2, ContentsAssumption
  <2>4. \A h \in hosts(obj[n].c) : isHost(h)
    BY <2>3, Zenon DEF admissible
  <2>5. \A h \in hosts(obj[n].c) : TransformHostname(h) = NewName(h)
    BY <2>4, NewNames DEF EndsAtLabel
  <2>6. route[n].hosts = transformedHostSet(obj[n].c)
    <3>1. UpToDate(n)
      BY <1>1, AtRest
    <3>2. \A c, q : TranslateToHTTPRoute(c, q).hosts = transformedHostSet(c)
      BY DEF TranslateToHTTPRoute
    <3> QED BY <3>1, <3>2, UpToDateIs
  <2>7. transformedHostSet(obj[n].c) = {NewName(h) : h \in hosts(obj[n].c)}
    BY <2>5 DEF transformedHostSet
  <2>8. \A g, h \in hosts(obj[n].c) :
           g # h /\ InDomains(g) = InDomains(h) => TransformHostname(g) # TransformHostname(h)
    BY <2>4, <2>5, NewNamesDiffer
  <2> QED BY <2>6, <2>7, <2>8
<1> QED BY <1>1, InvariantHolds, PTL

\* When the controller is done, each request gets the backends and shares that
\* ingress-nginx would give it by the Ingresses as they are: the rules of
\* buildHTTPRouteRules and buildCanaryRules under the precedence of the Gateway API,
\* for any paths, weights, ports and any number of canaries, and except where
\* canary.go departs from ingress-nginx (a value with a pattern, a cookie "never").
THEOREM RequestsAreRouted == Spec => []RequestsRouted
<1>1. ASSUME IInv PROVE RequestsRouted
  <2> SUFFICES ASSUME Quiet, NEW n \in Settled, Unambiguous(n), NEW req \in Requests(obj[n].c),
                      \A m \in findCanarySiblings(n, obj[n].c) : ~Departs(obj[m].c.cfg, req)
               PROVE  Served(route[n].rules, req) \in Wanted(n, req)
    BY DEF RequestsRouted
  <2>1. n \in Name /\ obj[n].st = "live"
    BY DEF Settled, Live
  <2>2. UpToDate(n)
    BY <1>1, AtRest
  <2>3. PICK q \in Lists(n) : route[n].rules = TranslateToHTTPRoute(obj[n].c, q).rules
    BY <2>2, UpToDateIs
  <2>4. \A m \in Name : obj[m].st # "new" => obj[m].c \in Written
    BY <1>1 DEF IInv, TypeOK, Written
  <2>5. q \in Seq(Written)
    <3>1. PICK s \in SetToSeqs(findCanarySiblings(n, obj[n].c)) : q = [i \in DOMAIN s |-> obj[s[i]].c]
      BY DEF Lists
    <3>2. obj \in [Name -> Ingresses] /\ \A m \in Name : obj[m].st # "new" => obj[m].c \in Contents[m]
      BY <1>1 DEF IInv, TypeOK
    <3> QED BY <3>1, <3>2, ListedType
  <2> QED BY <2>1, <2>3, <2>4, <2>5, RouteServes
<1> QED BY <1>1, InvariantHolds, PTL
=============================================================================
