---------------------------- MODULE StackProofs ----------------------------
(***************************************************************************)
(* Theorems about modules Compose and Stack, for any documents, requests   *)
(* and tables. BuildPlan orders every file that can be ordered, as close   *)
(* to the document as it can, and refuses the others with a cycle of       *)
(* theirs; nothing is dropped unsaid. An apply keeps secrets, gives no     *)
(* alias and no volume twice, leaves nothing in progress, and implements   *)
(* ComposeChain.                                                           *)
(***************************************************************************)
EXTENDS Stack, FiniteSetTheorems, SequenceTheorems, TLAPS

----------------------------------------------------------------------------
(* Induction. The theorems of the library for it have an operator as a     *)
(* parameter; these have a set, which a proof can name.                    *)

\* A set of numbers has a least one.
LEMMA LeastOf == ASSUME NEW T, T \subseteq Nat, T # {} PROVE \E x \in T : \A y \in T : x <= y
<1>1. PICK x \in T : \A y \in T : ~(<<y, x>> \in OpToRel(<, Nat))
  BY NatLessThanWellFounded, WFMin
<1>2. \A y \in T : ~(y < x)
  BY <1>1 DEF OpToRel
<1> QED
  BY <1>2

\* What holds of 0, and of n + 1 when it does of n, holds of every number.
LEMMA NatInd == ASSUME NEW S, 0 \in S, \A n \in Nat : n \in S => n + 1 \in S PROVE Nat \subseteq S
<1> SUFFICES ASSUME Nat \ S # {} PROVE FALSE
  OBVIOUS
<1>1. PICK x \in Nat \ S : \A y \in Nat \ S : x <= y
  BY LeastOf
<1>2. x # 0 /\ x - 1 \in Nat /\ x - 1 \in S
  BY <1>1
<1> QED
  BY <1>1, <1>2

\* The first n values of a function that is defined from its previous value.
Chained(h, first, step, n) == h[0] = first /\ \A i \in 0..(n - 1) : h[i + 1] = step[h[i]]

\* There is such a function.
LEMMA Iterates ==
    ASSUME NEW S, NEW first \in S, NEW step \in [S -> S]
    PROVE  \E g \in [Nat -> S] : g[0] = first /\ \A n \in Nat : g[n + 1] = step[g[n]]
<1> DEFINE Reaches(n, x) == \E h \in [0..n -> S] : Chained(h, first, step, n) /\ h[n] = x
           Known == {n \in Nat : \E x \in S : Reaches(n, x)}
           Sure == {n \in Nat : \A x, y \in S : Reaches(n, x) /\ Reaches(n, y) => x = y}
           g == [n \in Nat |-> CHOOSE x \in S : Reaches(n, x)]
<1>1. Reaches(0, first)
  <2> DEFINE h == [i \in 0..0 |-> first]
  <2>1. h \in [0..0 -> S] /\ Chained(h, first, step, 0) /\ h[0] = first
    BY DEF Chained
  <2> QED
    BY <2>1
<1>2. ASSUME NEW n \in Nat, NEW x \in S, Reaches(n, x) PROVE Reaches(n + 1, step[x]) /\ step[x] \in S
  <2>1. PICK h \in [0..n -> S] : Chained(h, first, step, n) /\ h[n] = x
    BY <1>2
  <2> DEFINE k == [i \in 0..(n + 1) |-> IF i = n + 1 THEN step[x] ELSE h[i]]
  <2>2. k \in [0..(n + 1) -> S] /\ k[n + 1] = step[x] /\ \A i \in 0..n : k[i] = h[i]
    OBVIOUS
  <2> HIDE DEF k
  <2>3. Chained(k, first, step, n + 1)
    <3>1. k[0] = first
      BY <2>1, <2>2 DEF Chained
    <3>2. ASSUME NEW i \in 0..n PROVE k[i + 1] = step[k[i]]
      BY <2>1, <2>2 DEF Chained
    <3> QED
      BY <3>1, <3>2 DEF Chained
  <2> QED
    BY <2>2, <2>3
<1>3. ASSUME NEW n \in Nat, NEW x \in S, Reaches(n + 1, x)
      PROVE  \E w \in S : Reaches(n, w) /\ x = step[w]
  <2>1. PICK h \in [0..(n + 1) -> S] : Chained(h, first, step, n + 1) /\ h[n + 1] = x
    BY <1>3
  <2> DEFINE k == [i \in 0..n |-> h[i]]
  <2>2. k \in [0..n -> S] /\ Chained(k, first, step, n)
    BY <2>1 DEF Chained
  <2>3. x = step[h[n]] /\ h[n] \in S /\ k[n] = h[n]
    BY <2>1 DEF Chained
  <2> HIDE DEF k
  <2> QED
    BY <2>2, <2>3
<1>4. Nat \subseteq Known
  <2>1. 0 \in Known
    BY <1>1
  <2>2. \A n \in Nat : n \in Known => n + 1 \in Known
    BY <1>2
  <2> HIDE DEF Known
  <2> QED
    BY <2>1, <2>2, NatInd
<1>5. Nat \subseteq Sure
  <2>1. 0 \in Sure
    BY DEF Chained
  <2>2. ASSUME NEW n \in Nat, n \in Sure PROVE n + 1 \in Sure
    <3>1. \A x, y \in S : Reaches(n, x) /\ Reaches(n, y) => x = y
      BY <2>2
    <3> HIDE DEF Reaches
    <3> QED
      BY <1>3, <3>1
  <2> HIDE DEF Sure
  <2> QED
    BY <2>1, <2>2, NatInd
<1> HIDE DEF Reaches
<1>6. ASSUME NEW n \in Nat PROVE g[n] \in S /\ Reaches(n, g[n])
  BY <1>4
<1>7. g \in [Nat -> S] /\ g[0] = first
  BY <1>1, <1>5, <1>6
<1>8. ASSUME NEW n \in Nat PROVE g[n + 1] = step[g[n]]
  BY <1>2, <1>5, <1>6
<1> HIDE DEF g
<1> QED
  BY <1>7, <1>8

----------------------------------------------------------------------------
(* The order of a plan.                                                    *)

\* What Parse returns, and BuildPlan is given: a sequence of services, each with
\* a sequence of dependencies.
Sequenced(f) == Len(f.services) \in Nat /\ Positions(f) = 1..Len(f.services)
IsFile(f) ==
    /\ Sequenced(f)
    /\ \A p \in Positions(f) : Len(Deps(f, p)) \in Nat /\ DOMAIN Deps(f, p) = 1..Len(Deps(f, p))

Free(f, done) == {p \in Positions(f) \ done : Indegree(f, done, p) = 0}

\* There are n numbers from 1 to n.
LEMMA Counted == ASSUME NEW n \in Nat PROVE IsFiniteSet(1..n) /\ Cardinality(1..n) = n
<1>1. IsFiniteSet(1..n) /\ Cardinality(1..n) = IF 1 > n THEN 0 ELSE n - 1 + 1
  BY FS_Interval
<1> QED
  BY <1>1

\* A service waits for nothing when everything it depends on has been picked,
\* however often that is named.
LEMMA WaitsForNothing ==
    ASSUME NEW f, IsFile(f), NEW done, NEW p \in Positions(f)
    PROVE  p \in Free(f, done) <=> p \notin done /\ \A i \in DOMAIN Deps(f, p) : DepAt(f, p, i) \in done
<1> DEFINE n == Len(Deps(f, p))
           all == 1..n
           met == {i \in all : DepAt(f, p, i) \in done}
<1>1. n \in Nat /\ DOMAIN Deps(f, p) = all
  BY DEF IsFile, Sequenced
<1>2. IsFiniteSet(all) /\ Cardinality(all) = n
  BY <1>1, Counted
<1>3. met \in SUBSET all
  OBVIOUS
<1>4. IsFiniteSet(met) /\ Cardinality(met) \in Nat /\ (Cardinality(all) = Cardinality(met) => all = met)
  BY <1>2, <1>3, FS_Subset, FS_CardinalityType
<1>5. Indegree(f, done, p) = n - Cardinality(met)
  BY <1>1 DEF Indegree
<1>6. Indegree(f, done, p) = 0 <=> met = all
  <2> HIDE DEF met, all, n
  <2> QED
    BY <1>1, <1>2, <1>4, <1>5
<1> QED
  BY <1>1, <1>6 DEF Free

\* The one that is picked is the first that is free.
LEMMA Picked ==
    ASSUME NEW f, Sequenced(f), NEW done
    PROVE  /\ Free(f, done) = {} => Pick(f, done) = 0
           /\ Free(f, done) # {} => /\ Pick(f, done) \in Free(f, done)
                                    /\ \A q \in Free(f, done) : Pick(f, done) <= q
<1>1. Pick(f, done) = IF Free(f, done) = {} THEN 0
                      ELSE CHOOSE p \in Free(f, done) : \A q \in Free(f, done) : p <= q
  BY DEF Pick, Free
<1>2. Free(f, done) \subseteq Nat
  BY DEF Free, Sequenced
<1>3. Free(f, done) # {} => \E p \in Free(f, done) : \A q \in Free(f, done) : p <= q
  BY <1>2, LeastOf
<1> HIDE DEF Free
<1> QED
  BY <1>1, <1>3

\* Each service is the one to be picked after those before it.
Greedy(f, s) ==
    /\ s \in Seq(Positions(f))
    /\ \A k \in 1..Len(s) : s[k] = Pick(f, {s[j] : j \in 1..(k - 1)})

\* A service more, if there is one to be picked.
LEMMA ExtendedRight ==
    ASSUME NEW f, Sequenced(f), NEW s, Greedy(f, s)
    PROVE  /\ Greedy(f, Extended(f, s))
           /\ IF Pick(f, ToSet(s)) = 0 THEN Extended(f, s) = s ELSE Len(Extended(f, s)) = Len(s) + 1
<1> DEFINE p == Pick(f, ToSet(s))
<1>1. ToSet(s) = {s[j] : j \in 1..Len(s)} /\ Len(s) \in Nat
  BY DEF Greedy, ToSet
<1>2. CASE p = 0
  BY <1>2 DEF Extended
<1>3. CASE p # 0
  <2>1. p \in Positions(f)
    BY <1>3, Picked DEF Free
  <2> DEFINE t == Append(s, p)
  <2>2. t = Extended(f, s)
    BY <1>3 DEF Extended
  <2>3. /\ t \in Seq(Positions(f)) /\ Len(t) = Len(s) + 1 /\ t[Len(s) + 1] = p
        /\ \A k \in 1..Len(s) : t[k] = s[k]
    BY <2>1 DEF Greedy
  <2> HIDE DEF t
  <2>4. ASSUME NEW k \in 1..Len(t) PROVE t[k] = Pick(f, {t[j] : j \in 1..(k - 1)})
    <3>1. CASE k \in 1..Len(s)
      <4>1. {t[j] : j \in 1..(k - 1)} = {s[j] : j \in 1..(k - 1)}
        BY <1>1, <2>3, <3>1
      <4> QED
        BY <2>3, <3>1, <4>1 DEF Greedy
    <3>2. CASE k = Len(s) + 1
      <4>1. {t[j] : j \in 1..(k - 1)} = ToSet(s)
        BY <1>1, <2>3, <3>2
      <4> QED
        BY <2>3, <3>2, <4>1
    <3>3. k \in 1..Len(s) \/ k = Len(s) + 1
      <4>1. Len(s) \in Nat /\ Len(t) = Len(s) + 1
        BY <1>1, <2>3
      <4> QED
        BY <4>1
    <3> QED
      BY <3>1, <3>2, <3>3
  <2> QED
    BY <1>3, <2>2, <2>3, <2>4 DEF Greedy
<1> QED
  BY <1>2, <1>3

\* TopoOrder is greedy, and as long as it can be.
LEMMA TopoOrderGreedy ==
    ASSUME NEW f, Sequenced(f)
    PROVE  /\ Greedy(f, TopoOrder(f)) /\ Len(TopoOrder(f)) <= Len(f.services)
           /\ Len(TopoOrder(f)) = Len(f.services) \/ Pick(f, ToSet(TopoOrder(f))) = 0
<1> DEFINE S == {s \in Seq(Positions(f)) : Greedy(f, s)}
           step == [s \in S |-> Extended(f, s)]
           N == Len(f.services)
<1>1. <<>> \in S
  BY DEF Greedy
<1>2. step \in [S -> S]
  <2>1. ASSUME NEW s \in S PROVE Extended(f, s) \in S
    <3>1. Greedy(f, Extended(f, s))
      BY ExtendedRight
    <3> QED
      BY <3>1 DEF Greedy
  <2> HIDE DEF S
  <2> QED
    BY <2>1
<1> HIDE DEF S, step
<1>3. PICK g \in [Nat -> S] : g[0] = <<>> /\ \A n \in Nat : g[n + 1] = step[g[n]]
  <2>1. \A first \in S, next \in [S -> S] :
           \E g \in [Nat -> S] : g[0] = first /\ \A n \in Nat : g[n + 1] = next[g[n]]
    BY Iterates
  <2> QED
    BY <1>1, <1>2, <2>1
<1>4. \A n \in Nat : g[n + 1] = Extended(f, g[n]) /\ Greedy(f, g[n])
  BY <1>3 DEF S, step
<1>5. g = [n \in Nat |-> IF n = 0 THEN <<>> ELSE Extended(f, g[n - 1])]
  BY <1>3, <1>4
<1> DEFINE upTo == CHOOSE h : h = [n \in Nat |-> IF n = 0 THEN <<>> ELSE Extended(f, h[n - 1])]
<1>6. upTo = [n \in Nat |-> IF n = 0 THEN <<>> ELSE Extended(f, upTo[n - 1])]
  BY <1>5
<1>7. TopoOrder(f) = upTo[N]
  BY DEF TopoOrder
<1> HIDE DEF upTo
<1>8. \A n \in Nat : upTo[n + 1] = Extended(f, upTo[n]) /\ upTo[0] = <<>>
  BY <1>6
<1> DEFINE Good == {n \in Nat : /\ Greedy(f, upTo[n]) /\ Len(upTo[n]) <= n
                                /\ Len(upTo[n]) = n \/ Pick(f, ToSet(upTo[n])) = 0}
<1>9. 0 \in Good
  <2>1. Greedy(f, <<>>) /\ Len(<<>>) = 0
    BY <1>1 DEF S
  <2>2. upTo[0] = <<>>
    BY <1>8
  <2> QED
    BY <2>1, <2>2
<1>10. ASSUME NEW n \in Nat, n \in Good PROVE n + 1 \in Good
  <2>1. Greedy(f, upTo[n]) /\ Len(upTo[n]) <= n /\ (Len(upTo[n]) = n \/ Pick(f, ToSet(upTo[n])) = 0)
    BY <1>10
  <2>2. upTo[n + 1] = Extended(f, upTo[n]) /\ Len(upTo[n]) \in Nat
    <3>1. Len(upTo[n]) \in Nat
      BY <2>1 DEF Greedy
    <3> QED
      BY <1>8, <3>1
  <2> QED
    BY <2>1, <2>2, ExtendedRight
<1> HIDE DEF Good
<1>11. N \in Good
  BY <1>9, <1>10, NatInd DEF Sequenced
<1> QED
  BY <1>7, <1>11 DEF Good

Before(s, k) == {s[j] : j \in 1..(k - 1)}

\* What was picked was free, the first of what was, and was not picked before.
LEMMA GreedyRight ==
    ASSUME NEW f, Sequenced(f), NEW t, Greedy(f, t)
    PROVE  /\ Len(t) \in Nat /\ DOMAIN t = 1..Len(t) /\ t \in [1..Len(t) -> Positions(f)]
           /\ \A k \in 1..Len(t) : /\ t[k] \in Free(f, Before(t, k))
                                   /\ \A q \in Free(f, Before(t, k)) : t[k] <= q
           /\ \A j, k \in 1..Len(t) : j # k => t[j] # t[k]
<1>1. Len(t) \in Nat /\ DOMAIN t = 1..Len(t) /\ t \in [1..Len(t) -> Positions(f)]
  BY DEF Greedy
<1>2. ASSUME NEW k \in 1..Len(t)
      PROVE  t[k] \in Free(f, Before(t, k)) /\ \A q \in Free(f, Before(t, k)) : t[k] <= q
  <2>1. t[k] \in Positions(f) /\ t[k] = Pick(f, Before(t, k))
    BY <1>1 DEF Greedy, Before
  <2>2. t[k] # 0
    BY <2>1 DEF Sequenced
  <2> QED
    BY <2>1, <2>2, Picked
<1>3. ASSUME NEW j \in 1..Len(t), NEW k \in 1..Len(t), j < k PROVE t[j] # t[k]
  <2>1. t[k] \notin Before(t, k)
    BY <1>2 DEF Free
  <2> QED
    BY <1>1, <1>3, <2>1 DEF Before
<1>4. ASSUME NEW j \in 1..Len(t), NEW k \in 1..Len(t), j # k PROVE t[j] # t[k]
  BY <1>1, <1>3, <1>4
<1> QED
  BY <1>1, <1>2, <1>4

\* The dependencies of a service, by the edges of the file.
LEMMA EdgesOf ==
    ASSUME NEW f, IsFile(f), ~Undefined(f)
    PROVE  /\ \A p \in Positions(f) : \A i \in DOMAIN Deps(f, p) : DepAt(f, p, i) \in Positions(f)
           /\ \A p, q : <<p, q>> \in Edges(f) <=> /\ p \in Positions(f)
                                                  /\ \E i \in DOMAIN Deps(f, p) : q = DepAt(f, p, i)
<1>1. ASSUME NEW p \in Positions(f), NEW i \in DOMAIN Deps(f, p) PROVE DepAt(f, p, i) \in Positions(f)
  BY DEF Undefined, DepAt, Position
<1>2. ASSUME NEW p, NEW q
      PROVE  <<p, q>> \in Edges(f) <=> p \in Positions(f) /\ \E i \in DOMAIN Deps(f, p) : q = DepAt(f, p, i)
  BY DEF Edges
<1> QED
  BY <1>1, <1>2

\* What an order is: a sequence of all services in which none is before a
\* service that it depends on.
LEMMA OrdersAre ==
    ASSUME NEW f, Sequenced(f), NEW o
    PROVE  o \in Orders(f) <=>
             /\ o \in [Positions(f) -> Positions(f)]
             /\ \A i, j \in Positions(f) : i # j => o[i] # o[j]
             /\ \A i, j \in Positions(f) : i <= j => <<o[i], o[j]>> \notin Edges(f)
<1>1. Cardinality(Positions(f)) = Len(f.services) /\ Positions(f) = 1..Len(f.services)
  BY Counted DEF Sequenced
<1> QED
  BY <1>1 DEF Orders, SetToSeqs

\* An order has every service.
LEMMA OrdersHaveAll ==
    ASSUME NEW f, Sequenced(f), NEW o \in Orders(f), NEW p \in Positions(f)
    PROVE  \E i \in Positions(f) : o[i] = p
<1>1. o \in [Positions(f) -> Positions(f)] /\ \A i, j \in Positions(f) : i # j => o[i] # o[j]
  BY OrdersAre
<1>2. o \in Injection(Positions(f), Positions(f))
  BY <1>1 DEF Injection, IsInjective
<1>3. IsFiniteSet(Positions(f))
  BY Counted DEF Sequenced
<1>4. o \in Surjection(Positions(f), Positions(f))
  BY <1>2, <1>3, FS_Injection
<1> QED
  BY <1>4 DEF Surjection

\* In an order, what is before a place is all that is waited for there.
LEMMA FreeInOrder ==
    ASSUME NEW f, IsFile(f), ~Undefined(f), NEW o \in Orders(f), NEW i \in Positions(f)
    PROVE  /\ o[i] \in Positions(f)
           /\ \A d \in DOMAIN Deps(f, o[i]) : DepAt(f, o[i], d) \in Before(o, i)
           /\ o[i] \notin Before(o, i)
<1> Sequenced(f)
  BY DEF IsFile
<1>1. /\ o \in [Positions(f) -> Positions(f)]
      /\ \A j, k \in Positions(f) : j # k => o[j] # o[k]
      /\ \A j, k \in Positions(f) : j <= k => <<o[j], o[k]>> \notin Edges(f)
  BY OrdersAre
<1>2. Positions(f) = 1..Len(f.services) /\ Len(f.services) \in Nat
  BY DEF IsFile, Sequenced
<1>3. ASSUME NEW d \in DOMAIN Deps(f, o[i]) PROVE DepAt(f, o[i], d) \in Before(o, i)
  <2>1. DepAt(f, o[i], d) \in Positions(f) /\ <<o[i], DepAt(f, o[i], d)>> \in Edges(f)
    BY <1>1, EdgesOf
  <2>2. PICK j \in Positions(f) : o[j] = DepAt(f, o[i], d)
    BY <2>1, OrdersHaveAll
  <2>3. ~(i <= j)
    BY <1>1, <2>1, <2>2
  <2> QED
    BY <1>2, <2>2, <2>3 DEF Before
<1>4. o[i] \notin Before(o, i)
  BY <1>1, <1>2 DEF Before
<1> QED
  BY <1>1, <1>3, <1>4

\* A TopoOrder with all services is an order.
LEMMA WholeIsOrder ==
    ASSUME NEW f, IsFile(f), ~Undefined(f), Len(TopoOrder(f)) = Len(f.services)
    PROVE  TopoOrder(f) \in Orders(f)
<1> Sequenced(f)
  BY DEF IsFile
<1> DEFINE t == TopoOrder(f)
<1>1. Greedy(f, t)
  BY TopoOrderGreedy
<1>2. Positions(f) = 1..Len(t) /\ Len(t) \in Nat
  BY DEF IsFile, Sequenced
<1>3. /\ t \in [Positions(f) -> Positions(f)]
      /\ \A k \in Positions(f) : t[k] \in Free(f, Before(t, k))
      /\ \A j, k \in Positions(f) : j # k => t[j] # t[k]
  BY <1>1, <1>2, GreedyRight
<1>4. ASSUME NEW i \in Positions(f), NEW j \in Positions(f), i <= j, <<t[i], t[j]>> \in Edges(f)
      PROVE  FALSE
  <2>1. PICK d \in DOMAIN Deps(f, t[i]) : t[j] = DepAt(f, t[i], d)
    BY <1>4, EdgesOf
  <2>2. t[j] \in Before(t, i)
    BY <1>3, <2>1, WaitsForNothing
  <2> QED
    BY <1>2, <1>3, <1>4, <2>2 DEF Before
<1> QED
  BY <1>3, <1>4, OrdersAre

\* A TopoOrder that stops early has no order to go on to.
LEMMA StuckIsUnordered ==
    ASSUME NEW f, IsFile(f), ~Undefined(f), Len(TopoOrder(f)) # Len(f.services), NEW o \in Orders(f)
    PROVE  FALSE
<1> Sequenced(f)
  BY DEF IsFile
<1> DEFINE t == TopoOrder(f)
           N == Len(f.services)
           late == {i \in Positions(f) : o[i] \notin ToSet(t)}
<1>1. Greedy(f, t) /\ Len(t) <= N /\ Pick(f, ToSet(t)) = 0
  BY TopoOrderGreedy
<1>2. Positions(f) = 1..N /\ N \in Nat
  BY DEF IsFile, Sequenced
<1>3. Len(t) \in Nat /\ DOMAIN t = 1..Len(t) /\ t \in [1..Len(t) -> Positions(f)] /\ Len(t) < N
  BY <1>1, <1>2, GreedyRight
<1>4. o \in [1..N -> Positions(f)] /\ \A i, j \in 1..N : i # j => o[i] # o[j]
  BY <1>2, OrdersAre
<1> HIDE DEF t, N
<1>5. late # {}
  <2> SUFFICES ASSUME late = {} PROVE FALSE
    OBVIOUS
  <2> DEFINE at == [i \in 1..N |-> CHOOSE k \in 1..Len(t) : t[k] = o[i]]
  <2>1. ASSUME NEW i \in 1..N PROVE at[i] \in 1..Len(t) /\ t[at[i]] = o[i]
    <3>1. \E k \in 1..Len(t) : t[k] = o[i]
      BY <1>2, <1>3 DEF ToSet
    <3> QED
      BY <3>1
  <2>2. at \in [1..N -> 1..Len(t)]
    BY <2>1
  <2> HIDE DEF at
  <2>3. at \in Injection(1..N, 1..Len(t))
    BY <1>4, <2>1, <2>2 DEF Injection, IsInjective
  <2>4. Cardinality(1..N) <= Cardinality(1..Len(t))
    BY <1>3, <2>3, Counted, FS_Injection
  <2> QED
    BY <1>2, <1>3, <2>4, Counted
<1>6. PICK i \in late : \A j \in late : i <= j
  <2>1. late \subseteq Nat
    BY <1>2
  <2> HIDE DEF late
  <2> QED
    BY <1>5, <2>1, LeastOf
<1>7. Before(o, i) \subseteq ToSet(t)
  <2>1. ASSUME NEW j \in 1..(i - 1) PROVE o[j] \in ToSet(t)
    BY <1>2, <1>6
  <2> QED
    BY <2>1 DEF Before
<1>8. o[i] \in Free(f, ToSet(t))
  BY <1>6, <1>7, FreeInOrder, WaitsForNothing
<1>9. Pick(f, ToSet(t)) \in Positions(f)
  BY <1>8, Picked DEF Free
<1> QED
  BY <1>1, <1>2, <1>9

\* Where another order first differs from it, TopoOrder has the earlier service.
LEMMA ClosestOfAll ==
    ASSUME NEW f, IsFile(f), ~Undefined(f), TopoOrder(f) \in Orders(f), NEW o \in Orders(f)
    PROVE  \/ o = TopoOrder(f)
           \/ \E i \in Positions(f) : /\ TopoOrder(f)[i] < o[i]
                                      /\ \A j \in 1..(i - 1) : TopoOrder(f)[j] = o[j]
<1> Sequenced(f)
  BY DEF IsFile
<1> DEFINE t == TopoOrder(f)
           differ == {i \in Positions(f) : t[i] # o[i]}
<1>1. /\ t \in [Positions(f) -> Positions(f)] /\ o \in [Positions(f) -> Positions(f)]
      /\ Positions(f) = 1..Len(f.services) /\ Len(f.services) \in Nat
  BY OrdersAre DEF IsFile, Sequenced
<1>2. Greedy(f, t) /\ Len(t) = Len(f.services)
  BY TopoOrderGreedy, StuckIsUnordered
<1> HIDE DEF t
<1>3. CASE differ = {}
  BY <1>1, <1>3 DEF t
<1>4. CASE differ # {}
  <2>1. PICK i \in differ : \A j \in differ : i <= j
    <3>1. differ \subseteq Nat
      BY <1>1
    <3> HIDE DEF differ
    <3> QED
      BY <1>4, <3>1, LeastOf
  <2>2. \A j \in 1..(i - 1) : t[j] = o[j]
    BY <1>1, <2>1
  <2>3. Before(t, i) = Before(o, i)
    BY <2>2 DEF Before
  <2>4. o[i] \in Free(f, Before(t, i))
    BY <2>1, <2>3, FreeInOrder, WaitsForNothing
  <2>5. t[i] <= o[i]
    BY <1>1, <1>2, <2>1, <2>4, GreedyRight
  <2>6. t[i] < o[i]
    BY <1>1, <2>1, <2>5
  <2> QED
    BY <2>1, <2>2, <2>6 DEF t
<1> QED
  BY <1>3, <1>4

\* For every file whose dependencies are defined, BuildPlan's order is, of all
\* the orders in which a service comes after everything it depends on, the one
\* that is closest to the document; and when it does not get to the end there
\* is no such order (topoOrder).
THEOREM TopoOrderRight ==
    ASSUME NEW f, IsFile(f), ~Undefined(f)
    PROVE  OrderedRight(f)
<1> Sequenced(f)
  BY DEF IsFile
<1> DEFINE t == TopoOrder(f)
           Best(o) == \A p \in Orders(f) :
                         p = o \/ \E i \in DOMAIN o : o[i] < p[i] /\ \A j \in 1..(i - 1) : o[j] = p[j]
<1>1. Len(t) \in Nat /\ Len(t) <= Len(f.services) /\ Len(f.services) \in Nat
  BY TopoOrderGreedy DEF Greedy, IsFile, Sequenced
<1>2. CASE Len(t) # Len(f.services)
  <2>1. Orders(f) = {}
    BY <1>2, StuckIsUnordered
  <2> QED
    BY <1>1, <1>2, <2>1 DEF OrderedRight
<1>3. CASE Len(t) = Len(f.services)
  <2>1. t \in Orders(f)
    BY <1>3, WholeIsOrder
  <2>2. ASSUME NEW o \in Orders(f)
        PROVE  /\ o \in [Positions(f) -> Nat] /\ DOMAIN o = Positions(f) /\ Positions(f) \subseteq Nat
               /\ o = t \/ \E i \in DOMAIN t : t[i] < o[i] /\ \A j \in 1..(i - 1) : t[j] = o[j]
    <3>1. o \in [Positions(f) -> Positions(f)] /\ t \in [Positions(f) -> Positions(f)] /\ Positions(f) \subseteq Nat
      <4>1. \A p \in Orders(f) : p \in [Positions(f) -> Positions(f)]
        BY OrdersAre
      <4>2. Positions(f) \subseteq Nat
        BY DEF IsFile, Sequenced
      <4> QED
        BY <2>1, <4>1, <4>2
    <3> QED
      BY <2>1, <3>1, ClosestOfAll
  <2>3. Best(t)
    BY <2>2
  <2>4. ASSUME NEW o \in Orders(f), Best(o) PROVE o = t
    <3> SUFFICES ASSUME o # t PROVE FALSE
      OBVIOUS
    <3>1. PICK i \in Positions(f) : t[i] < o[i] /\ \A j \in 1..(i - 1) : t[j] = o[j]
      BY <2>1, <2>2
    <3>2. PICK k \in Positions(f) : o[k] < t[k] /\ \A j \in 1..(k - 1) : o[j] = t[j]
      BY <2>1, <2>2, <2>4
    <3>3. i \in Nat /\ k \in Nat /\ i > 0 /\ k > 0 /\ t[i] \in Nat /\ o[i] \in Nat /\ t[k] \in Nat /\ o[k] \in Nat
      BY <2>1, <2>2, SMTT(30) DEF IsFile, Sequenced
    <3>4. i < k \/ k < i \/ i = k
      BY <3>3
    <3> QED
      BY <3>1, <3>2, <3>3, <3>4
  <2>5. Closest(Orders(f)) = CHOOSE o \in Orders(f) : Best(o)
    BY DEF Closest
  <2> HIDE DEF Best, t
  <2>6. Closest(Orders(f)) = t
    BY <2>1, <2>3, <2>4, <2>5
  <2> QED
    BY <2>1, <2>6 DEF OrderedRight, t
<1> QED
  BY <1>2, <1>3

----------------------------------------------------------------------------
(* What the requests hold.                                                 *)

IsSeq(s) == s \in Seq(ToSet(s))

\* A planned service; the slug of its app ends in its name, whether the app
\* exists or is to be created.
IsPlanned(sp) ==
    /\ sp = [name |-> sp.name, update |-> sp.update, slug |-> sp.slug, build |-> sp.build,
             env |-> sp.env, deps |-> sp.deps, mounts |-> sp.mounts, internal |-> sp.internal,
             strategy |-> sp.strategy]
    /\ sp.update \in BOOLEAN /\ sp.slug \in Slugs /\ sp.slug[2] = sp.name
    /\ sp.strategy = IF sp.mounts # {} THEN "replace" ELSE ""
IsPlan(plan) ==
    /\ IsSeq(plan) /\ \A i \in DOMAIN plan : IsPlanned(plan[i])
    /\ \A i, j \in DOMAIN plan : i # j => plan[i].name # plan[j].name

IsItem(it) == /\ it = [sp |-> it.sp, app |-> it.app, row |-> it.row]
              /\ IsPlanned(it.sp) /\ IsApp(it.app) /\ it.row \in 1..MaxRows
AreItems(items) ==
    /\ IsSeq(items) /\ \A i \in DOMAIN items : IsItem(items[i])
    /\ \A i, j \in DOMAIN items : i # j => items[i].sp.slug # items[j].sp.slug

\* What Parse made of an upload, and where an upload that is applied puts it.
IsUpload(r) ==
    /\ Sequenced(r.file)
    /\ \A i, j \in Positions(r.file) : i # j => r.file.services[i].name # r.file.services[j].name
    /\ ~r.dry => \A i \in Positions(r.file) : <<Normal[r.project], r.file.services[i].name>> \in Slugs

Planning == {"existing", "taken"}
Applied == {"declare", "listenv", "writeenv", "row"}
Writing == {"upsert"} \cup Applied
Rolling == {"pull", "probe"}
Deploying == {"chain"} \cup Rolling

RequestOK(r) ==
    /\ r.pc \in Pcs
    /\ r.pc = "idle" => r = Idle
    /\ r.pc \in Planning =>
          /\ r = [pc |-> r.pc, items |-> r.items, doc |-> r.doc, file |-> r.file, project |-> r.project,
                  dry |-> r.dry, existing |-> r.existing]
          /\ r.items = <<>> /\ IsUpload(r)
    /\ r.pc = "taken" => \A n \in DOMAIN r.existing : r.existing[n] \in Slugs /\ r.existing[n][2] = n
    /\ r.pc \in Writing =>
          /\ r = [pc |-> r.pc, items |-> r.items, plan |-> r.plan, project |-> r.project,
                  at |-> r.at, app |-> r.app, left |-> r.left, secret |-> r.secret]
          /\ IsPlan(r.plan) /\ r.at \in DOMAIN r.plan /\ Len(r.items) = r.at - 1
          /\ \A i \in DOMAIN r.items : r.items[i].sp = r.plan[i]
    /\ r.pc \in Applied => IsApp(r.app)
    /\ r.pc = "declare" => r.left \subseteq r.plan[r.at].mounts
    /\ r.pc \in Deploying =>
          /\ r = [pc |-> r.pc, items |-> r.items, at |-> r.at, by |-> r.by]
          /\ r.at \in 1..(Len(r.items) + 1) /\ r.by \in 0..(r.at - 1)
    /\ r.pc \in Rolling => r.at \in DOMAIN r.items /\ r.by = 0
    /\ r.pc = "done" => r = [pc |-> r.pc, items |-> r.items, errored |-> r.errored]
                        /\ r.errored \in BOOLEAN
    /\ r.pc # "idle" => AreItems(r.items)

\* The ids of apps are given once, and the slug of a service's app ends in its name.
AppsOK ==
    /\ \E top \in Nat : \A s \in Slugs : apps[s].id <= top
    /\ \A s, t \in Slugs : Exists(s) /\ apps[s].id = apps[t].id => s = t
    /\ \A s \in Slugs : Exists(s) /\ apps[s].service # "" => s[2] = apps[s].service

Base == TypeOK /\ AppsOK /\ \A a \in Applies : RequestOK(req[a])

----------------------------------------------------------------------------
(* What the safety properties rest on.                                     *)

\* The secrets that are there when a request writes, it has seen, unless an
\* operator may write in between.
SecretsSeen ==
    ~conduct.meddle => \A a \in Applies : req[a].pc = "writeenv" =>
        \A s \in SlugsOf(req[a].app.id) : \A k \in Keys : apps[s].env[k] = "secret" => k \in req[a].secret

OneActive == ~conduct.overlap => \A a, b \in Applies : Active(a) /\ Active(b) => a = b

\* The names that an apply is still to give are nobody's.
ToCreate(a) == {i \in DOMAIN req[a].plan :
                  ~req[a].plan[i].update /\ (i > req[a].at \/ (i = req[a].at /\ req[a].pc = "upsert"))}
NamesUnclaimed ==
    ~conduct.overlap => \A a \in Applies : req[a].pc \in Writing => \A i \in ToCreate(a) :
        \A s \in Slugs : Exists(s) /\ apps[s].service # "" => apps[s].service # req[a].plan[i].name

\* As long as no app is deleted, what was applied is where it was applied.
StillThere ==
    ~conduct.careless => \A a \in Applies :
        /\ req[a].pc \in Applied => apps[Now(a).slug].id = req[a].app.id
        /\ \A i \in DOMAIN Held(a) : apps[Held(a)[i].sp.slug].id = Held(a)[i].app.id

\* An apply knows the strategies of the apps that it rolls out ...
StrategiesKnown ==
    ~conduct.overlap /\ ~conduct.careless => \A a \in Applies :
        /\ req[a].pc \in Applied => apps[Now(a).slug].strategy = req[a].app.strategy
        /\ Active(a) => \A i \in DOMAIN Held(a) : apps[Held(a)[i].sp.slug].strategy = Held(a)[i].app.strategy

\* ... and an app with a volume is replaced, unless an apply is about to say so.
Volumed(s) == Exists(s) /\ apps[s].mounts # {}
Declaring(a, s) == req[a].pc = "declare" /\ Now(a).slug = s /\ Now(a).mounts # {}
VolumesReplaced ==
    ~conduct.overlap /\ ~conduct.careless /\ ~conduct.faults /\ ~conduct.crash =>
        \A s \in Slugs : Volumed(s) => apps[s].strategy = "replace" \/ \E a \in Applies : Declaring(a, s)

\* The deployments of the requests are theirs, and what a row says of itself is
\* what it was last asked to, or could not be made to.
Row(a, i) == Held(a)[i].row
Status(a, i) == rows[Row(a, i)].status
Verdict(a, i) == rows[Row(a, i)].verdict
RowsSay ==
    ~conduct.careless => \A n \in 1..MaxRows : rows[n] # NoRow =>
        \/ rows[n].status = "deploying" /\ (rows[n].verdict = "none" \/ conduct.faults)
        \/ rows[n].status = rows[n].verdict
RowsHeld ==
    ~conduct.careless =>
        /\ \A a \in Applies : \A i \in DOMAIN Held(a) : rows[Row(a, i)] # NoRow /\ rows[Row(a, i)].app = Held(a)[i].app.id
        /\ \A a, b \in Applies : \A i \in DOMAIN Held(a), j \in DOMAIN Held(b) :
              Row(a, i) = Row(b, j) => a = b /\ i = j
        /\ \A s \in Slugs : \A c \in cont[s] : rows[c.row] # NoRow

\* How far each of them is.
InOrder ==
    ~conduct.careless => \A a \in Applies :
        /\ req[a].pc \in Writing => \A i \in DOMAIN Held(a) : Verdict(a, i) = "none"
        /\ req[a].pc \in Deploying => \A i \in DOMAIN Held(a) :
              /\ i >= req[a].at => Verdict(a, i) = "none"
              /\ i < req[a].at => Verdict(a, i) \in {"healthy", "failed"}
              /\ i < req[a].at /\ req[a].by = 0 => Verdict(a, i) = "healthy"
        /\ req[a].pc \in Deploying /\ req[a].by # 0 => Verdict(a, req[a].by) = "failed"
        /\ req[a].pc = "done" /\ ~req[a].errored /\ life # "second" =>
              \A i \in DOMAIN Held(a) : Verdict(a, i) \in {"healthy", "failed"}

\* A deployment that waits has no container.
WaitingUntouched ==
    ~conduct.careless => \A a \in Applies : \A i \in DOMAIN Held(a) :
        \/ Verdict(a, i) # "none"
        \/ req[a].pc = "probe" /\ req[a].at = i
        \/ req[a].pc = "done" /\ ~req[a].errored
        \/ \A s \in Slugs : \A c \in cont[s] : c.row # Row(a, i)

\* A deployment that the process left is in a container that outlived it.
Left(a, i) == req[a].pc = "done" /\ ~req[a].errored /\ Status(a, i) = "deploying"
LeftAdopted ==
    ~conduct.careless /\ ~conduct.faults => \A a \in Applies : \A i \in DOMAIN Held(a) : Left(a, i) =>
        /\ Adopted(Held(a)[i])
        /\ \A b \in Applies : Active(b) => \A j \in DOMAIN Held(b) : Row(b, j) > Row(a, i)

DirsHeld == /\ life # "first" => conduct.crash
            /\ Up /\ ~conduct.crash => \A a \in dirs : Active(a)

\* The volumes of a container are among those of its app ...
MountsDeclared ==
    ~conduct.overlap /\ ~conduct.careless => \A s \in Slugs : \A c \in cont[s] :
        Exists(s) /\ c.mounts \subseteq apps[s].mounts

\* ... which has two containers only while an apply that keeps the earlier one
\* probes the later.
Probes(a, s) == req[a].pc = "probe" /\ Held(a)[req[a].at].sp.slug = s
PairsRollOut ==
    ~conduct.overlap /\ ~conduct.careless /\ ~(conduct.faults /\ conduct.crash) =>
        \A s \in Slugs : \A c, d \in cont[s] : c # d =>
            \E a \in Applies : /\ Probes(a, s) /\ Held(a)[req[a].at].app.strategy # "replace"
                               /\ (c.row = Row(a, req[a].at)) <=> (d.row # Row(a, req[a].at))

\* A container that is not being probed is of a healthy deployment of its app.
ServesHealthy(s, c) == rows[c.row].status = "healthy" /\ rows[c.row].app = apps[s].id
ServedIsHealthy ==
    ~conduct.careless /\ ~conduct.faults /\ life # "second" => \A s \in Slugs : \A c \in cont[s] :
        ServesHealthy(s, c) \/ \E a \in Applies : Probes(a, s) /\ c.row = Row(a, req[a].at)

----------------------------------------------------------------------------
(* The helpers of the model.                                               *)

\* The id that SQLite gives is above all that are used.
LEMMA NextIsNew ==
    ASSUME NEW used, used \subseteq Nat, NEW top \in Nat, \A u \in used : u <= top
    PROVE  NextOf(used) \in Ids /\ \A u \in used : u < NextOf(used)
<1> DEFINE all == used \cup {0}
           above == {n \in Nat : \A u \in all : u <= n}
<1>1. top \in above
  OBVIOUS
<1>2. PICK n \in above : \A m \in above : n <= m
  <2>1. above \subseteq Nat /\ above # {}
    BY <1>1
  <2> HIDE DEF above
  <2> QED
    BY <2>1, LeastOf
<1>3. n \in all
  <2> SUFFICES ASSUME n \notin all PROVE FALSE
    OBVIOUS
  <2>1. n - 1 \in above
    BY <1>2
  <2> QED
    BY <1>2, <2>1
<1>4. \A u \in all : u <= n
  BY <1>2
<1> DEFINE most == CHOOSE m \in all : \A u \in used : u <= m
<1>5. most \in all /\ \A u \in used : u <= most
  BY <1>3, <1>4
<1>6. NextOf(used) = 1 + most
  BY DEF NextOf
<1> HIDE DEF most
<1> QED
  BY <1>5, <1>6 DEF Ids

\* One element more.
LEMMA Appended ==
    ASSUME NEW s, IsSeq(s), NEW x
    PROVE  /\ IsSeq(Append(s, x)) /\ Len(Append(s, x)) = Len(s) + 1 /\ Append(s, x)[Len(s) + 1] = x
           /\ DOMAIN Append(s, x) = 1..(Len(s) + 1)
           /\ \A i \in 1..Len(s) : Append(s, x)[i] = s[i]
<1> DEFINE t == Append(s, x)
           S == ToSet(s) \cup {x}
<1>1. s \in Seq(S) /\ x \in S /\ Len(s) \in Nat
  BY DEF IsSeq
<1>2. t \in Seq(S) /\ Len(t) = Len(s) + 1 /\ t[Len(s) + 1] = x /\ \A i \in 1..Len(s) : t[i] = s[i]
  BY <1>1
<1>3. DOMAIN t = 1..(Len(s) + 1)
  BY <1>2
<1> HIDE DEF t, S
<1>4. t \in Seq({t[i] : i \in DOMAIN t})
  BY <1>1, <1>2, <1>3
<1> QED
  BY <1>2, <1>3, <1>4 DEF IsSeq, ToSet, t

LEMMA SeqIs == ASSUME NEW s, IsSeq(s) PROVE Len(s) \in Nat /\ DOMAIN s = 1..Len(s)
BY DEF IsSeq

LEMMA FunctionIsSeq ==
    ASSUME NEW n \in Nat, NEW s, s = [i \in 1..n |-> s[i]]
    PROVE  IsSeq(s) /\ Len(s) = n
<1>1. s \in Seq({s[i] : i \in DOMAIN s}) /\ Len(s) = n
  OBVIOUS
<1> QED
  BY <1>1 DEF IsSeq, ToSet

LEMMA EmptyIs == IsSeq(<<>>) /\ Len(<<>>) = 0 /\ DOMAIN <<>> = {} /\ AreItems(<<>>)
<1>1. <<>> \in Seq({}) /\ Len(<<>>) = 0 /\ DOMAIN <<>> = {}
  OBVIOUS
<1>2. ToSet(<<>>) = {}
  BY <1>1 DEF ToSet
<1> QED
  BY <1>1, <1>2 DEF AreItems, IsSeq

\* A plan that is not refused has each service of the file once, as it is there.
LEMMA PlanOf ==
    ASSUME NEW f, Sequenced(f), NEW project, NEW existing, NEW taken,
           BuildPlan(f, project, existing, taken).ok
    PROVE  LET services == BuildPlan(f, project, existing, taken).services
           IN  /\ IsSeq(services) /\ Len(services) = Len(f.services)
               /\ \E t \in [Positions(f) -> Positions(f)] :
                     /\ \A i, j \in Positions(f) : i # j => t[i] # t[j]
                     /\ \A i \in Positions(f) :
                           /\ services[i] = PlanService(project, f.services[t[i]], existing)
                           /\ ~Rejected(project, f.services[t[i]].name, existing, taken)
<1> DEFINE t == TopoOrder(f)
           services == [i \in Positions(f) |-> PlanService(project, f.services[t[i]], existing)]
<1>1. /\ ~(Len(t) < Len(f.services))
      /\ \A p \in Positions(f) : ~Rejected(project, f.services[p].name, existing, taken)
      /\ BuildPlan(f, project, existing, taken) = [ok |-> TRUE, services |-> services]
  BY DEF BuildPlan, Refused
<1>2. Greedy(f, t) /\ Len(t) <= Len(f.services)
  BY TopoOrderGreedy
<1>3. /\ Len(t) \in Nat /\ t \in [1..Len(t) -> Positions(f)]
      /\ \A i, j \in 1..Len(t) : i # j => t[i] # t[j]
  BY <1>2, GreedyRight
<1>4. Positions(f) = 1..Len(t) /\ Len(t) = Len(f.services)
  BY <1>1, <1>2, <1>3 DEF Sequenced
<1> HIDE DEF t
<1>5. IsSeq(services) /\ Len(services) = Len(f.services)
  <2>1. services = [i \in 1..Len(t) |-> services[i]]
    BY <1>4
  <2> HIDE DEF services
  <2> QED
    BY <1>3, <1>4, <2>1, FunctionIsSeq
<1>6. /\ t \in [Positions(f) -> Positions(f)]
      /\ \A i, j \in Positions(f) : i # j => t[i] # t[j]
      /\ \A i \in Positions(f) : /\ services[i] = PlanService(project, f.services[t[i]], existing)
                                 /\ ~Rejected(project, f.services[t[i]].name, existing, taken)
  BY <1>1, <1>3, <1>4
<1>7. BuildPlan(f, project, existing, taken).services = services
  BY <1>1
<1> HIDE DEF services
<1> QED
  BY <1>5, <1>6, <1>7

----------------------------------------------------------------------------
(* Every step keeps the types, and the ids and slugs of the apps.          *)

LEMMA GoesTo == ASSUME TypeOK, NEW a \in Applies, NEW r, Goes(a, r)
                PROVE  /\ req' = [b \in Applies |-> req'[b]] /\ req'[a] = r
                       /\ \A b \in Applies : b # a => req'[b] = req[b]
BY DEF TypeOK, Goes

\* A file that Parse accepts.
LEMMA BeginUpload ==
    ASSUME TypeOK, NEW a \in Applies, NEW u \in Uploads[conduct.uploads][a], Parse(u.doc).ok,
           NEW project, project = IF u.query # "" THEN u.query ELSE u.doc.name,
           NEW r, r.file = Parse(u.doc), r.project = project, r.dry = u.dry
    PROVE  IsUpload(r)
<1> DEFINE raws == u.doc.services
           services == [i \in DOMAIN raws |-> Service(raws[i])]
<1>1. Len(raws) \in Nat /\ DOMAIN raws = 1..Len(raws)
      /\ (~u.dry => \A i \in DOMAIN raws : <<Normal[project], raws[i].name>> \in Slugs)
  <2>1. /\ IsDocument(u.doc)
        /\ ~u.dry => \A i \in DOMAIN u.doc.services : <<Normal[project], u.doc.services[i].name>> \in Slugs
    BY StackAssumption DEF TypeOK
  <2>2. Len(raws) \in Nat /\ DOMAIN raws = 1..Len(raws)
    BY <2>1 DEF IsDocument, IsSequence
  <2> QED
    BY <2>1, <2>2
<1>2. r.file.services = services /\ IsInjective([i \in DOMAIN raws |-> raws[i].name])
  <2> DEFINE file == Parse(u.doc)
  <2>1. file # Refused
    <3> HIDE DEF file
    <3> SUFFICES ASSUME file = Refused PROVE ~file.ok
      BY DEF file
    <3> QED
      BY DEF Refused
  <2>2. IsInjective([i \in DOMAIN raws |-> raws[i].name])
    BY <2>1 DEF Parse
  <2>3. file.services = services
    BY <2>1 DEF Parse
  <2> QED
    BY <2>2, <2>3
<1>3. \A i, j \in DOMAIN raws : i # j => raws[i].name # raws[j].name
  BY <1>2 DEF IsInjective
<1>4. DOMAIN services = DOMAIN raws /\ \A i \in DOMAIN raws : services[i].name = raws[i].name
  BY DEF Service
<1>5. Len(services) = Len(raws)
  <2>1. services = [i \in 1..Len(raws) |-> services[i]]
    BY <1>1
  <2> HIDE DEF services
  <2> QED
    BY <1>1, <2>1, FunctionIsSeq
<1> HIDE DEF services, raws
<1>6. Positions(r.file) = DOMAIN raws /\ \A i \in DOMAIN raws : r.file.services[i].name = raws[i].name
  BY <1>2, <1>4 DEF Positions
<1>7. Sequenced(r.file)
  BY <1>1, <1>2, <1>5, <1>6 DEF Sequenced
<1>8. ~r.dry => \A i \in DOMAIN raws : <<Normal[r.project], raws[i].name>> \in Slugs
  BY ONLY <1>1, r.project = project, r.dry = u.dry
<1> QED
  BY <1>3, <1>6, <1>7, <1>8, ZenonT(40) DEF IsUpload

LEMMA BeginRequest == ASSUME Base, NEW a \in Applies, Begin(a) PROVE RequestOK(req'[a])
<1>1. PICK u \in Uploads[conduct.uploads][a] :
         LET file == Parse(u.doc)
             project == IF u.query # "" THEN u.query ELSE u.doc.name
         IN  \/ Goes(a, Ended([items |-> <<>>], FALSE))
             \/ file.ok /\ Goes(a, [pc |-> "existing", items |-> <<>>, doc |-> u.doc, file |-> file,
                                    project |-> project, dry |-> u.dry, existing |-> <<>>])
  BY DEF Begin
<1>2. CASE Goes(a, Ended([items |-> <<>>], FALSE))
  <2>1. req'[a] = [pc |-> "done", items |-> <<>>, errored |-> FALSE]
    BY <1>2, GoesTo DEF Base, Ended
  <2> QED
    BY <2>1, EmptyIs DEF RequestOK, Pcs, Planning, Writing, Applied, Deploying, Rolling
<1>3. ASSUME NEW project, project = IF u.query # "" THEN u.query ELSE u.doc.name, Parse(u.doc).ok,
             Goes(a, [pc |-> "existing", items |-> <<>>, doc |-> u.doc, file |-> Parse(u.doc),
                      project |-> project, dry |-> u.dry, existing |-> <<>>])
      PROVE  RequestOK(req'[a])
  <2>1. req'[a] = [pc |-> "existing", items |-> <<>>, doc |-> u.doc, file |-> Parse(u.doc),
                   project |-> project, dry |-> u.dry, existing |-> <<>>]
    BY <1>3, GoesTo DEF Base
  <2>2. IsUpload(req'[a])
    BY <1>3, <2>1, BeginUpload DEF Base
  <2> QED
    BY <2>1, <2>2, EmptyIs DEF RequestOK, Pcs, Planning, Writing, Applied, Deploying, Rolling
<1> QED
  BY <1>1, <1>2, <1>3

\* A request that ends with what it holds.
LEMMA EndRequest == ASSUME NEW r, RequestOK(r), r.pc # "idle", NEW errored \in BOOLEAN
                    PROVE  RequestOK(Ended(r, errored))
BY DEF RequestOK, Ended, Pcs, Planning, Writing, Applied, Deploying, Rolling

LEMMA ReadExistingRequest == ASSUME Base, NEW a \in Applies, ReadExisting(a) PROVE RequestOK(req'[a])
<1> DEFINE names == {apps[s].service : s \in Mine(req[a].project)}
           existing == [n \in names |-> CHOOSE s \in Mine(req[a].project) : apps[s].service = n]
<1>1. req[a].pc = "existing" /\ req'[a] = [req[a] EXCEPT !.pc = "taken", !.existing = existing]
  BY GoesTo DEF ReadExisting, Base
<1>2. ASSUME NEW n \in names PROVE existing[n] \in Slugs /\ existing[n][2] = n
  <2>1. existing[n] \in Mine(req[a].project) /\ apps[existing[n]].service = n
    OBVIOUS
  <2> HIDE DEF existing, names
  <2> QED
    BY <2>1 DEF Mine, Base, AppsOK
<1>3. DOMAIN existing = names
  OBVIOUS
<1> HIDE DEF existing
<1>4. RequestOK(req[a])
  BY DEF Base
<1> DEFINE r == req[a]
<1>5. req'[a] = [pc |-> "taken", items |-> r.items, doc |-> r.doc, file |-> r.file, project |-> r.project,
                 dry |-> r.dry, existing |-> existing]
  <2>1. r = [pc |-> r.pc, items |-> r.items, doc |-> r.doc, file |-> r.file, project |-> r.project,
             dry |-> r.dry, existing |-> r.existing]
    BY <1>1, <1>4 DEF RequestOK, Planning
  <2> HIDE DEF r
  <2>2. req'[a] = [r EXCEPT !.pc = "taken", !.existing = existing]
    BY <1>1 DEF r
  <2> QED
    BY ONLY <2>1, <2>2
<1>6. IsUpload(req'[a])
  BY <1>1, <1>4, <1>5 DEF RequestOK, Planning, IsUpload, Sequenced, Positions
<1>7. r.items = <<>>
  BY <1>1, <1>4 DEF RequestOK, Planning
<1> QED
  BY <1>2, <1>3, <1>5, <1>6, <1>7, EmptyIs DEF RequestOK, Pcs, Planning, Writing, Applied, Deploying, Rolling

\* What is planned for a service of a file.
LEMMA ServiceIsPlanned ==
    ASSUME NEW r, RequestOK(r), r.pc = "taken", ~r.dry, NEW p \in Positions(r.file)
    PROVE  /\ IsPlanned(PlanService(r.project, r.file.services[p], r.existing))
           /\ PlanService(r.project, r.file.services[p], r.existing).name = r.file.services[p].name
<1> DEFINE sp == PlanService(r.project, r.file.services[p], r.existing)
           name == r.file.services[p].name
<1>1. <<Normal[r.project], name>> \in Slugs /\ <<Normal[r.project], name>>[2] = name
  BY DEF RequestOK, IsUpload, Planning
<1>2. name \in DOMAIN r.existing => r.existing[name] \in Slugs /\ r.existing[name][2] = name
  BY DEF RequestOK
<1>3. /\ sp = [name |-> sp.name, update |-> sp.update, slug |-> sp.slug, build |-> sp.build,
               env |-> sp.env, deps |-> sp.deps, mounts |-> sp.mounts, internal |-> sp.internal,
               strategy |-> sp.strategy]
      /\ sp.name = name /\ sp.update = (name \in DOMAIN r.existing)
      /\ sp.slug = IF name \in DOMAIN r.existing THEN r.existing[name] ELSE <<Normal[r.project], name>>
      /\ sp.strategy = IF sp.mounts # {} THEN "replace" ELSE ""
  BY DEF PlanService
<1> HIDE DEF sp, name
<1>4. sp.slug \in Slugs /\ sp.slug[2] = sp.name
  <2>1. CASE name \in DOMAIN r.existing
    BY <1>2, <1>3, <2>1
  <2>2. CASE name \notin DOMAIN r.existing
    <3>1. sp.slug = <<Normal[r.project], name>>
      BY <1>3, <2>2
    <3> QED
      BY <1>1, <1>3, <3>1
  <2> QED
    BY <2>1, <2>2
<1>5. sp.update \in BOOLEAN
  <2>1. (name \in DOMAIN r.existing) \in BOOLEAN
    OBVIOUS
  <2>2. sp.update = (name \in DOMAIN r.existing)
    BY <1>3
  <2> QED
    BY ONLY <2>1, <2>2
<1> QED
  BY <1>3, <1>4, <1>5 DEF IsPlanned, sp, name

LEMMA ReadTakenRequest == ASSUME Base, NEW a \in Applies, ReadTaken(a) PROVE RequestOK(req'[a])
<1> DEFINE r == req[a]
           plan == BuildPlan(r.file, r.project, r.existing, Taken(a))
<1>1. r.pc = "taken" /\ RequestOK(r)
  BY DEF ReadTaken, Base
<1>2. \/ Goes(a, Ended(r, FALSE))
      \/ plan.ok /\ ~r.dry /\ Goes(a, IF plan.services = <<>> THEN Orchestrate(<<>>)
                                      ELSE Write(<<>>, plan.services, r.project, 1))
  BY DEF ReadTaken
<1>3. CASE Goes(a, Ended(r, FALSE))
  BY <1>1, <1>3, GoesTo, EndRequest DEF Base
<1>4. CASE plan.ok /\ ~r.dry /\ Goes(a, IF plan.services = <<>> THEN Orchestrate(<<>>)
                                      ELSE Write(<<>>, plan.services, r.project, 1))
  <2> DEFINE services == plan.services
  <2>1. Sequenced(r.file)
    BY <1>1 DEF RequestOK, IsUpload, Planning
  <2>2. IsSeq(services) /\ Len(services) = Len(r.file.services)
    BY <1>4, <2>1, PlanOf
  <2>3. PICK t \in [Positions(r.file) -> Positions(r.file)] :
            /\ \A i, j \in Positions(r.file) : i # j => t[i] # t[j]
            /\ \A i \in Positions(r.file) :
                  services[i] = PlanService(r.project, r.file.services[t[i]], r.existing)
    BY <1>4, <2>1, PlanOf
  <2>4. DOMAIN services = Positions(r.file)
    BY <2>1, <2>2, SeqIs DEF Sequenced
  <2> HIDE DEF services
  <2>5. ASSUME NEW i \in DOMAIN services
        PROVE  IsPlanned(services[i]) /\ services[i].name = r.file.services[t[i]].name
    <3>1. services[i] = PlanService(r.project, r.file.services[t[i]], r.existing)
          /\ t[i] \in Positions(r.file)
      BY <2>3, <2>4
    <3> QED
      BY <1>1, <1>4, <3>1, ServiceIsPlanned, ZenonT(40)
  <2>6. ASSUME NEW i \in DOMAIN services, NEW j \in DOMAIN services, i # j
        PROVE  services[i].name # services[j].name
    BY <1>1, <2>3, <2>4, <2>5, <2>6 DEF RequestOK, IsUpload, Planning
  <2>7. IsPlan(services)
    BY <2>2, <2>5, <2>6 DEF IsPlan
  <2>8. CASE services = <<>>
    <3>1. req'[a] = [pc |-> "chain", items |-> <<>>, at |-> 1, by |-> 0]
      BY <1>4, <2>8, GoesTo DEF Base, Orchestrate, services
    <3> QED
      BY <3>1, EmptyIs DEF RequestOK, Pcs, Planning, Writing, Applied, Deploying, Rolling
  <2>9. CASE services # <<>>
    <3>1. req'[a] = [pc |-> "upsert", items |-> <<>>, plan |-> services, project |-> r.project,
                     at |-> 1, app |-> NoApp, left |-> {}, secret |-> {}]
      BY <1>4, <2>9, GoesTo DEF Base, Write, services
    <3>2. 1 \in DOMAIN services
      BY <2>2, <2>9, SeqIs DEF IsSeq
    <3> QED
      BY <2>7, <3>1, <3>2, EmptyIs DEF RequestOK, Pcs, Planning, Writing, Applied, Deploying, Rolling
  <2> QED
    BY <2>8, <2>9
<1> QED
  BY <1>2, <1>3, <1>4

\* What a step that edits apps leaves: which there are, and whose they are.
AppsEdited ==
    /\ apps' = [s \in Slugs |-> apps'[s]]
    /\ \A s \in Slugs : IF Exists(s) THEN /\ apps'[s].id = apps[s].id /\ apps'[s].service = apps[s].service
                                          /\ IsApp(apps'[s])
                                     ELSE apps'[s] = NoApp
SettingsKept ==
    \A s \in Slugs : Exists(s) => /\ apps'[s].mounts = apps[s].mounts /\ apps'[s].strategy = apps[s].strategy
                                  /\ apps'[s].env = apps[s].env

LEMMA StatusEdits ==
    ASSUME TypeOK, NEW id, NEW status \in {"created", "deploying", "running", "error"},
           apps' = [s \in Slugs |-> IF id # 0 /\ s \in SlugsOf(id) THEN [apps[s] EXCEPT !.status = status]
                                    ELSE apps[s]]
    PROVE  AppsEdited /\ SettingsKept
<1>1. apps' = [s \in Slugs |-> apps'[s]]
  OBVIOUS
<1>2. ASSUME NEW s \in Slugs, Exists(s)
      PROVE  /\ apps'[s].id = apps[s].id /\ apps'[s].service = apps[s].service /\ IsApp(apps'[s])
             /\ apps'[s].mounts = apps[s].mounts /\ apps'[s].strategy = apps[s].strategy
             /\ apps'[s].env = apps[s].env
  <2>1. IsApp(apps[s])
    BY <1>2 DEF TypeOK
  <2>2. apps'[s] = [apps[s] EXCEPT !.status = status] \/ apps'[s] = apps[s]
    OBVIOUS
  <2> QED
    BY <2>1, <2>2 DEF IsApp
<1>3. ASSUME NEW s \in Slugs, ~Exists(s) PROVE apps'[s] = NoApp
  BY <1>3 DEF SlugsOf, Exists, NoApp
<1> QED
  BY <1>1, <1>2, <1>3 DEF AppsEdited, SettingsKept

LEMMA AppsSame == ASSUME TypeOK, apps' = apps PROVE AppsEdited /\ SettingsKept
BY DEF TypeOK, Exists, AppsEdited, SettingsKept

\* A status, or an update that fails.
LEMMA Marks ==
    ASSUME TypeOK, NEW id, NEW status \in {"created", "deploying", "running", "error"}, Mark(id, status)
    PROVE  AppsEdited /\ SettingsKept
<1>1. \/ apps' = [s \in Slugs |-> IF id # 0 /\ s \in SlugsOf(id) THEN [apps[s] EXCEPT !.status = status]
                                  ELSE apps[s]]
      \/ apps' = apps
  BY DEF Mark, Update
<1> QED
  BY <1>1, StatusEdits, AppsSame

\* The environment of one app.
LEMMA EnvEdits ==
    ASSUME TypeOK, NEW id, NEW keys,
           apps' = [s \in Slugs |-> IF id # 0 /\ s \in SlugsOf(id)
                                    THEN [apps[s] EXCEPT !.env = [k \in Keys |-> IF k \in keys THEN "plain" ELSE @[k]]]
                                    ELSE apps[s]]
    PROVE  /\ AppsEdited
           /\ \A s \in Slugs : Exists(s) =>
                 /\ apps'[s].mounts = apps[s].mounts /\ apps'[s].strategy = apps[s].strategy
                 /\ \A k \in Keys : apps'[s].env[k] = IF apps[s].id = id /\ k \in keys THEN "plain" ELSE apps[s].env[k]
<1>1. apps' = [s \in Slugs |-> apps'[s]]
  OBVIOUS
<1>2. ASSUME NEW s \in Slugs, Exists(s)
      PROVE  /\ apps'[s].id = apps[s].id /\ apps'[s].service = apps[s].service /\ IsApp(apps'[s])
             /\ apps'[s].mounts = apps[s].mounts /\ apps'[s].strategy = apps[s].strategy
             /\ \A k \in Keys : apps'[s].env[k] = IF apps[s].id = id /\ k \in keys THEN "plain" ELSE apps[s].env[k]
  <2>1. IsApp(apps[s]) /\ apps[s].id # 0
    BY <1>2 DEF TypeOK, IsApp, Ids
  <2>2. CASE apps[s].id = id
    <3> DEFINE env == [k \in Keys |-> IF k \in keys THEN "plain" ELSE apps[s].env[k]]
    <3>1. apps'[s] = [apps[s] EXCEPT !.env = env]
      BY <2>1, <2>2 DEF SlugsOf
    <3>2. env \in [Keys -> {"none", "plain", "secret"}]
      BY <2>1 DEF IsApp
    <3>3. \A k \in Keys : env[k] = IF k \in keys THEN "plain" ELSE apps[s].env[k]
      OBVIOUS
    <3> HIDE DEF env
    <3> QED
      BY <2>1, <2>2, <3>1, <3>2, <3>3 DEF IsApp
  <2>3. CASE apps[s].id # id
    BY <2>1, <2>3 DEF SlugsOf
  <2> QED
    BY <2>2, <2>3
<1>3. ASSUME NEW s \in Slugs, ~Exists(s) PROVE apps'[s] = NoApp
  BY <1>3 DEF SlugsOf, Exists, NoApp
<1> QED
  BY <1>1, <1>2, <1>3 DEF AppsEdited

\* FinishDeployment settles one row, if it is there, or fails to.
LEMMA Finishes ==
    ASSUME TypeOK, NEW n \in 1..MaxRows, NEW verdict \in {"healthy", "failed"}, Finish(n, verdict)
    PROVE  /\ rows' = [m \in 1..MaxRows |-> rows'[m]]
           /\ \A m \in 1..MaxRows :
                 IF rows[m] = NoRow THEN rows'[m] = NoRow
                 ELSE /\ IsRow(rows'[m]) /\ rows'[m] # NoRow /\ rows'[m].app = rows[m].app
                      /\ IF m = n
                         THEN /\ rows'[m].verdict = verdict
                              /\ rows'[m].status = verdict \/ (conduct.faults /\ rows'[m].status = "deploying")
                         ELSE rows'[m] = rows[m]
<1>1. PICK status \in {verdict} \cup (IF conduct.faults THEN {"deploying"} ELSE {}) :
         rows' = [m \in 1..MaxRows |-> IF m = n /\ rows[m] # NoRow
                                       THEN [rows[m] EXCEPT !.verdict = verdict, !.status = status] ELSE rows[m]]
  <2>1. PICK status \in {verdict} \cup (IF conduct.faults THEN {"deploying"} ELSE {}) :
           rows' = IF rows[n] = NoRow THEN rows ELSE [rows EXCEPT ![n].verdict = verdict, ![n].status = status]
    BY DEF Finish
  <2>2. rows = [m \in 1..MaxRows |-> rows[m]]
    BY DEF TypeOK
  <2>3. rows' = [m \in 1..MaxRows |-> IF m = n /\ rows[m] # NoRow
                                      THEN [rows[m] EXCEPT !.verdict = verdict, !.status = status] ELSE rows[m]]
    BY ONLY <2>1, <2>2
  <2> QED
    BY <2>3
<1>2. status \in {"deploying", "healthy", "failed"} /\ (status = verdict \/ (conduct.faults /\ status = "deploying"))
  BY <1>1
<1>3. ASSUME NEW m \in 1..MaxRows, rows[m] # NoRow
      PROVE  /\ IsRow(rows'[m]) /\ rows'[m] # NoRow /\ rows'[m].app = rows[m].app
             /\ IF m = n THEN rows'[m].verdict = verdict /\ rows'[m].status = status
                ELSE rows'[m] = rows[m]
  <2>1. IsRow(rows[m])
    BY <1>3 DEF TypeOK
  <2>2. rows'[m] = IF m = n THEN [rows[m] EXCEPT !.verdict = verdict, !.status = status] ELSE rows[m]
    BY <1>1, <1>3
  <2>3. /\ IsRow(rows'[m]) /\ rows'[m].app = rows[m].app
        /\ IF m = n THEN rows'[m].verdict = verdict /\ rows'[m].status = status
           ELSE rows'[m] = rows[m]
    BY <1>2, <2>1, <2>2 DEF IsRow
  <2> QED
    BY <2>3 DEF IsRow, NoRow, Ids
<1>4. rows' = [m \in 1..MaxRows |-> rows'[m]] /\ \A m \in 1..MaxRows : rows[m] = NoRow => rows'[m] = NoRow
  BY <1>1
<1> QED
  BY <1>2, <1>3, <1>4

\* A request that goes on writing, and one that goes on deploying.
LEMMA WritesOn ==
    ASSUME NEW r, RequestOK(r), r.pc \in Writing, NEW pc \in Applied, NEW app, IsApp(app), NEW left, NEW secret, NEW q,
           pc = "declare" => left \subseteq r.plan[r.at].mounts,
           q = [pc |-> pc, items |-> r.items, plan |-> r.plan, project |-> r.project, at |-> r.at,
                app |-> app, left |-> left, secret |-> secret]
    PROVE  RequestOK(q)
<1>1. /\ IsPlan(r.plan) /\ r.at \in DOMAIN r.plan /\ Len(r.items) = r.at - 1
      /\ \A i \in DOMAIN r.items : r.items[i].sp = r.plan[i]
      /\ AreItems(r.items)
  BY DEF RequestOK, Writing, Applied
<1>2. q.pc \in Writing /\ q.pc \notin Planning \cup Deploying \cup {"idle", "done"}
  BY DEF Writing, Applied, Planning, Deploying, Rolling
<1> QED
  BY <1>1, <1>2 DEF RequestOK, Pcs, Applied, Rolling, Deploying, Planning

LEMMA DeploysOn ==
    ASSUME NEW r, RequestOK(r), r.pc \in Deploying, NEW q,
           NEW pc \in Deploying, NEW at \in 1..(Len(r.items) + 1), NEW by \in 0..(at - 1),
           pc \in Rolling => at <= Len(r.items) /\ by = 0,
           q = [pc |-> pc, items |-> r.items, at |-> at, by |-> by]
    PROVE  RequestOK(q)
<1>1. AreItems(r.items) /\ Len(r.items) \in Nat /\ DOMAIN r.items = 1..Len(r.items)
  BY SeqIs DEF RequestOK, Deploying, Rolling, AreItems
<1>2. q.pc \in Deploying /\ q.pc \notin Planning \cup Writing \cup {"idle", "done", "taken"}
  BY DEF Writing, Applied, Planning, Deploying, Rolling
<1> QED
  BY <1>1, <1>2 DEF RequestOK, Pcs, Applied, Rolling, Deploying, Planning, Writing

LEMMA WritingIs ==
    ASSUME NEW r, RequestOK(r), r.pc \in Writing
    PROVE  /\ r = [pc |-> r.pc, items |-> r.items, plan |-> r.plan, project |-> r.project,
                   at |-> r.at, app |-> r.app, left |-> r.left, secret |-> r.secret]
           /\ IsPlan(r.plan) /\ r.at \in DOMAIN r.plan /\ IsPlanned(r.plan[r.at])
           /\ Len(r.plan) \in Nat /\ DOMAIN r.plan = 1..Len(r.plan)
           /\ AreItems(r.items) /\ Len(r.items) = r.at - 1 /\ DOMAIN r.items = 1..Len(r.items)
           /\ \A i \in DOMAIN r.items : r.items[i].sp = r.plan[i]
           /\ r.pc \in Applied => IsApp(r.app)
BY SeqIs DEF RequestOK, Writing, Applied, IsPlan, AreItems

LEMMA DeployingIs ==
    ASSUME NEW r, RequestOK(r), r.pc \in Deploying
    PROVE  /\ r = [pc |-> r.pc, items |-> r.items, at |-> r.at, by |-> r.by]
           /\ AreItems(r.items) /\ Len(r.items) \in Nat /\ DOMAIN r.items = 1..Len(r.items)
           /\ r.at \in 1..(Len(r.items) + 1) /\ r.by \in 0..(r.at - 1)
           /\ r.at <= Len(r.items) => r.at \in DOMAIN r.items /\ IsItem(r.items[r.at])
           /\ r.pc \in Rolling => r.at <= Len(r.items) /\ r.by = 0
BY SeqIs DEF RequestOK, Deploying, Rolling, AreItems

\* upsertComposeApp writes one app, or nothing.
LEMMA Upserts ==
    ASSUME Base, NEW a \in Applies, Upsert(a)
    PROVE  LET sp == Now(a)
               r == req[a]
           IN  /\ IsPlanned(sp)
               /\ \/ Give500(a) /\ apps' = apps
                  \/ /\ UNCHANGED dirs /\ sp.update = Exists(sp.slug) /\ IsApp(apps'[sp.slug])
                     /\ req'[a] = [pc |-> "declare", items |-> r.items, plan |-> r.plan, project |-> r.project,
                                   at |-> r.at, app |-> apps'[sp.slug], left |-> sp.mounts, secret |-> r.secret]
                     /\ \E q : Goes(a, q)
                     /\ apps' = [s \in Slugs |-> apps'[s]]
                     /\ \A s \in Slugs \ {sp.slug} : apps'[s] = apps[s]
                     /\ IF sp.update
                        THEN AppsEdited /\ SettingsKept
                        ELSE /\ \A s \in Slugs : apps[s].id < apps'[sp.slug].id
                             /\ apps'[sp.slug].service = sp.name /\ apps'[sp.slug].mounts = {}
                             /\ apps'[sp.slug].env = [k \in Keys |-> "none"]
<1> DEFINE sp == Now(a)
           r == req[a]
           app == apps[sp.slug]
<1>1. RequestOK(r) /\ r.pc = "upsert"
  BY DEF Base, Upsert
<1>2. /\ r = [pc |-> r.pc, items |-> r.items, plan |-> r.plan, project |-> r.project,
              at |-> r.at, app |-> r.app, left |-> r.left, secret |-> r.secret]
      /\ IsPlanned(sp)
  BY <1>1, WritingIs DEF Writing, Now
<1>3. sp.slug \in Slugs
  BY <1>2 DEF IsPlanned
<1> HIDE DEF sp
<1>4. CASE Give500(a) /\ apps' = apps
  BY <1>2, <1>4 DEF sp
<1>5. CASE /\ sp.update = Exists(sp.slug)
           /\ apps' = [apps EXCEPT ![sp.slug] =
                 IF sp.update THEN [app EXCEPT !.internal = sp.internal]
                 ELSE [HandMadeApp EXCEPT !.id = NextOf({apps[s].id : s \in Slugs}),
                                          !.project = r.project, !.service = sp.name,
                                          !.internal = sp.internal, !.status = "created"]]
           /\ Goes(a, [r EXCEPT !.pc = "declare", !.app = apps'[sp.slug], !.left = sp.mounts])
           /\ UNCHANGED dirs
  <2>1. req'[a] = [r EXCEPT !.pc = "declare", !.app = apps'[sp.slug], !.left = sp.mounts]
    BY <1>5, GoesTo DEF Base
  <2>2. req'[a] = [pc |-> "declare", items |-> r.items, plan |-> r.plan, project |-> r.project,
                   at |-> r.at, app |-> apps'[sp.slug], left |-> sp.mounts, secret |-> r.secret]
    BY ONLY <1>2, <2>1
  <2>3. apps' = [s \in Slugs |-> apps'[s]] /\ \A s \in Slugs \ {sp.slug} : apps'[s] = apps[s]
    BY <1>5 DEF Base, TypeOK
  <2>4. CASE sp.update
    <3>1. Exists(sp.slug) /\ IsApp(app)
      BY <1>3, <1>5, <2>4 DEF Base, TypeOK
    <3>2. apps'[sp.slug] = [app EXCEPT !.internal = sp.internal]
      BY <1>3, <1>5, <2>4 DEF Base, TypeOK
    <3>3. /\ IsApp(apps'[sp.slug]) /\ apps'[sp.slug].id = app.id /\ apps'[sp.slug].service = app.service
          /\ apps'[sp.slug].mounts = app.mounts /\ apps'[sp.slug].strategy = app.strategy
          /\ apps'[sp.slug].env = app.env
      BY <3>1, <3>2 DEF IsApp
    <3>4. AppsEdited /\ SettingsKept
      BY <1>3, <2>3, <3>1, <3>3 DEF AppsEdited, SettingsKept, Base, TypeOK, Exists
    <3> QED
      BY <1>2, <1>5, <2>2, <2>3, <2>4, <3>3, <3>4 DEF sp
  <2>5. CASE ~sp.update
    <3> DEFINE id == NextOf({apps[s].id : s \in Slugs})
    <3>1. PICK top \in Nat : \A s \in Slugs : apps[s].id <= top
      BY DEF Base, AppsOK
    <3>2. \A s \in Slugs : apps[s].id \in Nat
      BY DEF Base, TypeOK, IsApp, Ids, Exists, NoApp
    <3>3. id \in Ids /\ \A s \in Slugs : apps[s].id < id
      <4>1. {apps[s].id : s \in Slugs} \subseteq Nat /\ \A u \in {apps[s].id : s \in Slugs} : u <= top
        BY <3>1, <3>2
      <4> QED
        BY <3>1, <4>1, NextIsNew
    <3> HIDE DEF id
    <3>4. apps'[sp.slug] = [HandMadeApp EXCEPT !.id = id, !.project = r.project, !.service = sp.name,
                                               !.internal = sp.internal, !.status = "created"]
      BY <1>3, <1>5, <2>5 DEF Base, TypeOK, id
    <3>5. apps'[sp.slug] = [id |-> id, project |-> r.project, service |-> sp.name, internal |-> sp.internal,
                            strategy |-> "zero-downtime", status |-> "created", mounts |-> {},
                            env |-> [k \in Keys |-> "none"]]
      BY <3>4, ZenonT(40) DEF HandMadeApp
    <3>6. [k \in Keys |-> "none"] \in [Keys -> {"none", "plain", "secret"}]
      OBVIOUS
    <3>7. IsApp(apps'[sp.slug])
      BY <3>3, <3>5, <3>6 DEF IsApp
    <3>8. /\ \A s \in Slugs : apps[s].id < apps'[sp.slug].id
          /\ apps'[sp.slug].service = sp.name /\ apps'[sp.slug].mounts = {}
          /\ apps'[sp.slug].env = [k \in Keys |-> "none"]
      BY <3>3, <3>5
    <3>9. \E q : Goes(a, q)
      BY <1>5
    <3>10. UNCHANGED dirs /\ sp.update = Exists(sp.slug)
      BY <1>5
    <3> QED
      BY <1>2, <2>2, <2>3, <2>5, <3>7, <3>8, <3>9, <3>10 DEF sp
  <2> QED
    BY <2>4, <2>5
<1> QED
  BY <1>4, <1>5 DEF Upsert, sp

\* UpsertVolume: a mount more.
LEMMA Declares ==
    ASSUME Base, NEW a \in Applies, Declare(a)
    PROVE  LET sp == Now(a)
               r == req[a]
           IN  /\ IsPlanned(sp) /\ IsApp(r.app)
               /\ \/ Give500(a) /\ apps' = apps
                  \/ /\ UNCHANGED dirs /\ \E q : Goes(a, q)
                     /\ \E left \in SUBSET sp.mounts :
                           req'[a] = [pc |-> "declare", items |-> r.items, plan |-> r.plan, project |-> r.project,
                                      at |-> r.at, app |-> r.app, left |-> left, secret |-> r.secret]
                     /\ AppsEdited
                     /\ \E m \in sp.mounts : \A s \in Slugs : Exists(s) =>
                           /\ apps'[s].mounts = IF apps[s].id = r.app.id THEN apps[s].mounts \cup {m}
                                                ELSE apps[s].mounts
                           /\ apps'[s].strategy = apps[s].strategy /\ apps'[s].env = apps[s].env
<1> DEFINE sp == Now(a)
           r == req[a]
<1>1. RequestOK(r) /\ r.pc = "declare"
  BY DEF Base, Declare
<1>2. /\ r = [pc |-> r.pc, items |-> r.items, plan |-> r.plan, project |-> r.project,
              at |-> r.at, app |-> r.app, left |-> r.left, secret |-> r.secret]
      /\ IsPlanned(sp) /\ IsApp(r.app) /\ r.left \subseteq sp.mounts
  BY <1>1, WritingIs DEF Writing, Applied, Now, RequestOK
<1> HIDE DEF sp
<1>3. CASE Give500(a) /\ apps' = apps
  BY <1>2, <1>3 DEF sp
<1>4. ASSUME NEW m \in r.left,
             apps' = Update(r.app.id, LAMBDA x : [x EXCEPT !.mounts = @ \cup {m}]),
             Goes(a, [r EXCEPT !.left = @ \ {m}]), UNCHANGED dirs
      PROVE  /\ UNCHANGED dirs /\ \E q : Goes(a, q)
             /\ \E left \in SUBSET sp.mounts :
                   req'[a] = [pc |-> "declare", items |-> r.items, plan |-> r.plan, project |-> r.project,
                              at |-> r.at, app |-> r.app, left |-> left, secret |-> r.secret]
             /\ AppsEdited
             /\ \E n \in sp.mounts : \A s \in Slugs : Exists(s) =>
                   /\ apps'[s].mounts = IF apps[s].id = r.app.id THEN apps[s].mounts \cup {n} ELSE apps[s].mounts
                   /\ apps'[s].strategy = apps[s].strategy /\ apps'[s].env = apps[s].env
  <2> DEFINE left == r.left \ {m}
  <2>1. req'[a] = [r EXCEPT !.left = left]
    BY <1>4, GoesTo DEF Base
  <2>2. left \in SUBSET sp.mounts /\ m \in sp.mounts
    BY <1>2
  <2> HIDE DEF left
  <2>3. req'[a] = [pc |-> "declare", items |-> r.items, plan |-> r.plan, project |-> r.project,
                   at |-> r.at, app |-> r.app, left |-> left, secret |-> r.secret]
    BY ONLY <1>1, <1>2, <2>1
  <2>4. apps' = [s \in Slugs |-> IF r.app.id # 0 /\ s \in SlugsOf(r.app.id)
                                 THEN [apps[s] EXCEPT !.mounts = @ \cup {m}] ELSE apps[s]]
    BY <1>4 DEF Update
  <2>5. apps' = [s \in Slugs |-> apps'[s]]
    BY <2>4
  <2>6. ASSUME NEW s \in Slugs, Exists(s)
        PROVE  /\ apps'[s].id = apps[s].id /\ apps'[s].service = apps[s].service /\ IsApp(apps'[s])
               /\ apps'[s].mounts = IF apps[s].id = r.app.id THEN apps[s].mounts \cup {m} ELSE apps[s].mounts
               /\ apps'[s].strategy = apps[s].strategy /\ apps'[s].env = apps[s].env
    <3>1. IsApp(apps[s]) /\ apps[s].id # 0
      BY <2>6 DEF Base, TypeOK, IsApp, Ids
    <3>2. CASE apps[s].id = r.app.id
      <4>1. apps'[s] = [apps[s] EXCEPT !.mounts = @ \cup {m}]
        BY <2>4, <3>1, <3>2 DEF SlugsOf
      <4> QED
        BY <3>1, <3>2, <4>1 DEF IsApp
    <3>3. CASE apps[s].id # r.app.id
      BY <2>4, <3>1, <3>3 DEF SlugsOf
    <3> QED
      BY <3>2, <3>3
  <2>7. ASSUME NEW s \in Slugs, ~Exists(s) PROVE apps'[s] = NoApp
    BY <2>4, <2>7 DEF SlugsOf, Exists, NoApp
  <2>8. AppsEdited
    BY <2>5, <2>6, <2>7 DEF AppsEdited
  <2>9. \E q : Goes(a, q)
    BY <1>4
  <2> QED
    BY <1>4, <2>2, <2>3, <2>6, <2>8, <2>9
<1>5. \/ Give500(a) /\ apps' = apps
      \/ \E m \in r.left : /\ apps' = Update(r.app.id, LAMBDA x : [x EXCEPT !.mounts = @ \cup {m}])
                           /\ Goes(a, [r EXCEPT !.left = @ \ {m}]) /\ UNCHANGED dirs
  BY DEF Declare
<1> QED
  BY <1>2, <1>3, <1>4, <1>5 DEF sp

\* UpdateAppDeployStrategy.
LEMMA Recommends ==
    ASSUME Base, NEW a \in Applies, Recommend(a)
    PROVE  LET sp == Now(a)
               r == req[a]
               strategy == Strategy(sp, r.app)
           IN  /\ IsPlanned(sp) /\ IsApp(r.app) /\ UNCHANGED dirs /\ \E q : Goes(a, q)
               /\ \E pc \in {"row", "listenv"} : \E app :
                     /\ req'[a] = [pc |-> pc, items |-> r.items, plan |-> r.plan, project |-> r.project,
                                   at |-> r.at, app |-> app, left |-> r.left, secret |-> r.secret]
                     /\ IsApp(app) /\ app.id = r.app.id /\ app.strategy = strategy
               /\ AppsEdited
               /\ \A s \in Slugs : Exists(s) =>
                     /\ apps'[s].strategy = IF apps[s].id = r.app.id /\ strategy # r.app.strategy THEN strategy
                                            ELSE apps[s].strategy
                     /\ apps'[s].mounts = apps[s].mounts /\ apps'[s].env = apps[s].env
<1> DEFINE sp == Now(a)
           r == req[a]
           strategy == Strategy(sp, r.app)
           app == [r.app EXCEPT !.strategy = strategy]
<1>1. RequestOK(r) /\ r.pc = "declare"
  BY DEF Base, Recommend
<1>2. /\ r = [pc |-> r.pc, items |-> r.items, plan |-> r.plan, project |-> r.project,
              at |-> r.at, app |-> r.app, left |-> r.left, secret |-> r.secret]
      /\ IsPlanned(sp) /\ IsApp(r.app)
  BY <1>1, WritingIs DEF Writing, Applied, Now
<1>3. strategy \in {"zero-downtime", "replace"}
  BY <1>2 DEF IsPlanned, IsApp, Strategy
<1>4. PICK pc \in {"row", "listenv"} : Goes(a, [r EXCEPT !.pc = pc, !.app.strategy = strategy])
  <2>1. Goes(a, [r EXCEPT !.pc = IF sp.env = {} THEN "row" ELSE "listenv", !.app.strategy = strategy])
    BY DEF Recommend
  <2> HIDE DEF strategy
  <2> QED
    BY <2>1
<1>5. /\ apps' = Update(r.app.id, LAMBDA x : [x EXCEPT !.strategy = IF strategy = r.app.strategy THEN @ ELSE strategy])
      /\ UNCHANGED dirs
  BY DEF Recommend
<1> HIDE DEF sp, strategy
<1>6. req'[a] = [r EXCEPT !.pc = pc, !.app.strategy = strategy]
  BY <1>4, GoesTo DEF Base
<1>7. req'[a] = [pc |-> pc, items |-> r.items, plan |-> r.plan, project |-> r.project,
                 at |-> r.at, app |-> app, left |-> r.left, secret |-> r.secret]
  BY ONLY <1>2, <1>6
<1>8. IsApp(app) /\ app.id = r.app.id /\ app.strategy = strategy
  BY <1>2, <1>3 DEF IsApp
<1>9. apps' = [s \in Slugs |-> IF r.app.id # 0 /\ s \in SlugsOf(r.app.id)
                               THEN [apps[s] EXCEPT !.strategy = IF strategy = r.app.strategy THEN @ ELSE strategy]
                               ELSE apps[s]]
  BY <1>5 DEF Update
<1> HIDE DEF app
<1>10. apps' = [s \in Slugs |-> apps'[s]]
  BY <1>9
<1>11. ASSUME NEW s \in Slugs, Exists(s)
       PROVE  /\ apps'[s].id = apps[s].id /\ apps'[s].service = apps[s].service /\ IsApp(apps'[s])
              /\ apps'[s].strategy = IF apps[s].id = r.app.id /\ strategy # r.app.strategy THEN strategy
                                     ELSE apps[s].strategy
              /\ apps'[s].mounts = apps[s].mounts /\ apps'[s].env = apps[s].env
  <2>1. IsApp(apps[s]) /\ apps[s].id # 0
    BY <1>11 DEF Base, TypeOK, IsApp, Ids
  <2>2. CASE apps[s].id = r.app.id
    <3>1. apps'[s] = [apps[s] EXCEPT !.strategy = IF strategy = r.app.strategy THEN @ ELSE strategy]
      BY <1>9, <2>1, <2>2 DEF SlugsOf
    <3> QED
      BY <1>3, <2>1, <2>2, <3>1 DEF IsApp
  <2>3. CASE apps[s].id # r.app.id
    BY <1>9, <2>1, <2>3 DEF SlugsOf
  <2> QED
    BY <2>2, <2>3
<1>12. ASSUME NEW s \in Slugs, ~Exists(s) PROVE apps'[s] = NoApp
  BY <1>9, <1>12 DEF SlugsOf, Exists, NoApp
<1>13. AppsEdited
  BY <1>10, <1>11, <1>12 DEF AppsEdited
<1> QED
  BY <1>2, <1>4, <1>5, <1>7, <1>8, <1>11, <1>13 DEF sp, strategy

\* ListEnvVars.
LEMMA Lists ==
    ASSUME Base, NEW a \in Applies, ListEnv(a)
    PROVE  /\ \E q : Goes(a, q)
           /\ IsApp(req[a].app)
           /\ req'[a] = [pc |-> "writeenv", items |-> req[a].items, plan |-> req[a].plan,
                         project |-> req[a].project, at |-> req[a].at, app |-> req[a].app,
                         left |-> req[a].left, secret |-> {k \in Keys : \E s \in SlugsOf(req[a].app.id) : apps[s].env[k] = "secret"}]
<1> DEFINE r == req[a]
           secret == {k \in Keys : \E s \in SlugsOf(r.app.id) : apps[s].env[k] = "secret"}
<1>1. RequestOK(r) /\ r.pc = "listenv"
  BY DEF Base, ListEnv
<1>2. /\ r = [pc |-> r.pc, items |-> r.items, plan |-> r.plan, project |-> r.project,
              at |-> r.at, app |-> r.app, left |-> r.left, secret |-> r.secret]
      /\ IsApp(r.app)
  BY <1>1, WritingIs DEF Writing, Applied
<1>3. req'[a] = [r EXCEPT !.pc = "writeenv", !.secret = secret] /\ \E q : Goes(a, q)
  BY GoesTo DEF Base, ListEnv
<1> HIDE DEF secret
<1>4. req'[a] = [pc |-> "writeenv", items |-> r.items, plan |-> r.plan, project |-> r.project,
                 at |-> r.at, app |-> r.app, left |-> r.left, secret |-> secret]
  BY ONLY <1>2, <1>3
<1> QED
  BY <1>2, <1>3, <1>4 DEF secret

\* applyComposeEnv writes what is not secret.
LEMMA Writes ==
    ASSUME Base, NEW a \in Applies, WriteEnv(a)
    PROVE  LET r == req[a]
           IN  /\ IsApp(r.app)
               /\ \/ Give500(a) /\ apps' = apps
                  \/ /\ UNCHANGED dirs /\ \E q : Goes(a, q)
                     /\ req'[a] = [pc |-> "row", items |-> r.items, plan |-> r.plan, project |-> r.project,
                                   at |-> r.at, app |-> r.app, left |-> r.left, secret |-> r.secret]
                     /\ AppsEdited
                     /\ \A s \in Slugs : Exists(s) =>
                           /\ apps'[s].mounts = apps[s].mounts /\ apps'[s].strategy = apps[s].strategy
                           /\ \A k \in Keys : apps'[s].env[k] = IF apps[s].id = r.app.id /\ k \in Written(a) THEN "plain"
                                                                ELSE apps[s].env[k]
<1> DEFINE r == req[a]
           written == Written(a)
<1>1. RequestOK(r) /\ r.pc = "writeenv"
  BY DEF Base, WriteEnv
<1>2. /\ r = [pc |-> r.pc, items |-> r.items, plan |-> r.plan, project |-> r.project,
              at |-> r.at, app |-> r.app, left |-> r.left, secret |-> r.secret]
      /\ IsApp(r.app)
  BY <1>1, WritingIs DEF Writing, Applied
<1>3. CASE Give500(a) /\ apps' = apps
  BY <1>2, <1>3
<1>4. CASE /\ apps' = Update(r.app.id, LAMBDA x : [x EXCEPT !.env =
                        [k \in Keys |-> IF k \in written THEN "plain" ELSE @[k]]])
           /\ Goes(a, [r EXCEPT !.pc = "row"]) /\ UNCHANGED dirs
  <2>1. req'[a] = [r EXCEPT !.pc = "row"] /\ \E q : Goes(a, q)
    BY <1>4, GoesTo DEF Base
  <2>2. req'[a] = [pc |-> "row", items |-> r.items, plan |-> r.plan, project |-> r.project,
                   at |-> r.at, app |-> r.app, left |-> r.left, secret |-> r.secret]
    BY ONLY <1>2, <2>1
  <2> HIDE DEF written
  <2>3. apps' = [s \in Slugs |-> IF r.app.id # 0 /\ s \in SlugsOf(r.app.id)
                        THEN [apps[s] EXCEPT !.env = [k \in Keys |-> IF k \in written THEN "plain" ELSE @[k]]]
                        ELSE apps[s]]
    BY <1>4 DEF Update
  <2>4. /\ AppsEdited
        /\ \A s \in Slugs : Exists(s) =>
              /\ apps'[s].mounts = apps[s].mounts /\ apps'[s].strategy = apps[s].strategy
              /\ \A k \in Keys : apps'[s].env[k] = IF apps[s].id = r.app.id /\ k \in written THEN "plain"
                                                   ELSE apps[s].env[k]
    BY <2>3, EnvEdits DEF Base
  <2> QED
    BY <1>2, <1>4, <2>1, <2>2, <2>4 DEF written
<1> QED
  BY <1>3, <1>4 DEF WriteEnv

\* CreateDeploymentFull: a row of its own, after all others.
LEMMA Creates ==
    ASSUME Base, NEW a \in Applies, CreateRow(a)
    PROVE  LET r == req[a]
           IN  /\ IsApp(r.app)
               /\ \/ Give500(a) /\ rows' = rows
                  \/ /\ UNCHANGED dirs /\ \E q : Goes(a, q)
                     /\ \E n \in 1..MaxRows :
                           LET it == [sp |-> Now(a), app |-> r.app, row |-> n]
                               items == Append(r.items, it)
                           IN  /\ rows[n] = NoRow /\ \A m \in 1..MaxRows : rows[m] # NoRow => m < n
                               /\ rows' = [m \in 1..MaxRows |-> IF m = n THEN [app |-> r.app.id, status |-> "deploying", verdict |-> "none"]
                                                                ELSE rows[m]]
                               /\ \/ /\ r.at + 1 \in DOMAIN r.plan
                                     /\ req'[a] = [pc |-> "upsert", items |-> items, plan |-> r.plan,
                                                   project |-> r.project, at |-> r.at + 1, app |-> NoApp, left |-> {}, secret |-> {}]
                                  \/ req'[a] = [pc |-> "chain", items |-> items, at |-> 1, by |-> 0]
                               /\ AreItems(items) /\ Len(items) = r.at /\ DOMAIN items = 1..r.at
                               /\ items[r.at] = it /\ \A i \in DOMAIN r.items : items[i] = r.items[i]
                               /\ \A i \in DOMAIN items : items[i].sp = r.plan[i]
<1> DEFINE r == req[a]
           used == {m \in 1..MaxRows : rows[m] # NoRow}
           n == NextRow
           it == [sp |-> Now(a), app |-> r.app, row |-> n]
           items == Append(r.items, it)
<1>1. RequestOK(r) /\ r.pc = "row"
  BY DEF Base, CreateRow
<1>2. /\ IsPlan(r.plan) /\ r.at \in DOMAIN r.plan /\ IsPlanned(Now(a)) /\ IsApp(r.app)
      /\ Len(r.plan) \in Nat /\ DOMAIN r.plan = 1..Len(r.plan)
      /\ AreItems(r.items) /\ Len(r.items) = r.at - 1 /\ DOMAIN r.items = 1..Len(r.items)
      /\ \A i \in DOMAIN r.items : r.items[i].sp = r.plan[i]
  BY <1>1, WritingIs DEF Writing, Applied, Now
<1> MaxRows \in Nat
  BY StackAssumption
<1>3. n \in Ids /\ \A m \in used : m < n
  <2>1. used \subseteq Nat /\ \A m \in used : m <= MaxRows
    OBVIOUS
  <2>2. n = NextOf(used)
    BY DEF NextRow
  <2> HIDE DEF used, n
  <2> QED
    BY <2>1, <2>2, NextIsNew
<1>4. CASE Give500(a) /\ rows' = rows
  BY <1>2, <1>4
<1>5. CASE /\ n <= MaxRows /\ UNCHANGED dirs
           /\ rows' = [rows EXCEPT ![n] = [app |-> r.app.id, status |-> "deploying", verdict |-> "none"]]
           /\ Goes(a, IF r.at < Len(r.plan) THEN Write(items, r.plan, r.project, r.at + 1)
                      ELSE Orchestrate(items))
  <2>1. n \in 1..MaxRows /\ n \notin used
    <3> HIDE DEF n
    <3>1. n \in Nat /\ n > 0 /\ n <= MaxRows
      BY <1>3, <1>5 DEF Ids
    <3>2. n \notin used
      <4> HIDE DEF used
      <4> SUFFICES ASSUME n \in used PROVE FALSE
        OBVIOUS
      <4>1. n < n
        BY <1>3
      <4> QED
        BY <3>1, <4>1
    <3> QED
      BY <3>1, <3>2
  <2>2. rows[n] = NoRow /\ \A m \in 1..MaxRows : rows[m] # NoRow => m < n
    BY <1>3, <2>1
  <2> HIDE DEF n
  <2>3. rows' = [m \in 1..MaxRows |-> IF m = n THEN [app |-> r.app.id, status |-> "deploying", verdict |-> "none"] ELSE rows[m]]
    BY <1>5, <2>1 DEF Base, TypeOK
  <2>4. IsItem(it) /\ it.sp = r.plan[r.at]
    BY <1>2, <2>1 DEF IsItem, Now
  <2> HIDE DEF it
  <2>5. /\ IsSeq(items) /\ Len(items) = r.at /\ DOMAIN items = 1..r.at /\ items[r.at] = it
        /\ \A i \in DOMAIN r.items : items[i] = r.items[i]
    <3>1. IsSeq(r.items) /\ Len(r.items) + 1 = r.at /\ DOMAIN r.items = 1..Len(r.items)
      BY <1>2 DEF AreItems
    <3>2. \A s, x : IsSeq(s) =>
            /\ IsSeq(Append(s, x)) /\ Len(Append(s, x)) = Len(s) + 1 /\ Append(s, x)[Len(s) + 1] = x
            /\ DOMAIN Append(s, x) = 1..(Len(s) + 1)
            /\ \A i \in 1..Len(s) : Append(s, x)[i] = s[i]
      BY Appended
    <3> QED
      BY ONLY <3>1, <3>2
  <2> HIDE DEF items
  <2>6. \A i \in DOMAIN items : i \in DOMAIN r.items \/ i = r.at
    BY <1>2, <2>5
  <2>7. ASSUME NEW i \in DOMAIN items
        PROVE  IsItem(items[i]) /\ items[i].sp = r.plan[i] /\ i \in DOMAIN r.plan /\ IsPlanned(r.plan[i])
    <3>1. IsItem(items[i]) /\ items[i].sp = r.plan[i]
      BY <1>2, <2>4, <2>5, <2>6 DEF AreItems
    <3>2. i \in DOMAIN r.plan
      BY <1>2, <2>5
    <3> QED
      BY <1>2, <3>1, <3>2 DEF IsPlan
  <2>8. ASSUME NEW i \in DOMAIN items, NEW j \in DOMAIN items, i # j
        PROVE  items[i].sp.slug # items[j].sp.slug
    <3>1. r.plan[i].name # r.plan[j].name
      BY <1>2, <2>7, <2>8 DEF IsPlan
    <3>2. r.plan[i].slug[2] = r.plan[i].name /\ r.plan[j].slug[2] = r.plan[j].name
      BY <2>7 DEF IsPlanned
    <3>3. items[i].sp = r.plan[i] /\ items[j].sp = r.plan[j]
      BY <2>7
    <3> QED
      BY <3>1, <3>2, <3>3
  <2>9. AreItems(items)
    BY <2>5, <2>7, <2>8 DEF AreItems
  <2>10. \E q : Goes(a, q)
    BY <1>5
  <2>11. req'[a] = IF r.at < Len(r.plan) THEN Write(items, r.plan, r.project, r.at + 1) ELSE Orchestrate(items)
    BY <1>5, GoesTo DEF Base
  <2>12. \/ /\ r.at + 1 \in DOMAIN r.plan
            /\ req'[a] = [pc |-> "upsert", items |-> items, plan |-> r.plan,
                          project |-> r.project, at |-> r.at + 1, app |-> NoApp, left |-> {}, secret |-> {}]
         \/ req'[a] = [pc |-> "chain", items |-> items, at |-> 1, by |-> 0]
    <3>1. CASE r.at < Len(r.plan)
      BY <1>2, <2>11, <3>1 DEF Write
    <3>2. CASE ~(r.at < Len(r.plan))
      BY <2>11, <3>2 DEF Orchestrate
    <3> QED
      BY <3>1, <3>2
  <2> QED
    BY <1>2, <1>5, <2>1, <2>2, <2>3, <2>5, <2>7, <2>9, <2>10, <2>12 DEF it, items
<1>6. \/ Give500(a) /\ rows' = rows
      \/ /\ n <= MaxRows /\ UNCHANGED dirs
         /\ rows' = [rows EXCEPT ![n] = [app |-> r.app.id, status |-> "deploying", verdict |-> "none"]]
         /\ Goes(a, IF r.at < Len(r.plan) THEN Write(items, r.plan, r.project, r.at + 1)
                    ELSE Orchestrate(items))
  BY DEF CreateRow
<1> QED
  BY <1>4, <1>5, <1>6

----------------------------------------------------------------------------

\* The request after it, whatever its items.
LEMMA RowCreated ==
    ASSUME Base, NEW a \in Applies, CreateRow(a)
    PROVE  \/ Give500(a) /\ rows' = rows
           \/ \E items : \/ req'[a] = [pc |-> "upsert", items |-> items, plan |-> req[a].plan,
                                      project |-> req[a].project, at |-> req[a].at + 1, app |-> NoApp, left |-> {}, secret |-> {}]
                        \/ req'[a] = [pc |-> "chain", items |-> items, at |-> 1, by |-> 0]
<1> DEFINE r == req[a]
           Next1(items) == [pc |-> "upsert", items |-> items, plan |-> r.plan,
                            project |-> r.project, at |-> r.at + 1, app |-> NoApp, left |-> {}, secret |-> {}]
           Next2(items) == [pc |-> "chain", items |-> items, at |-> 1, by |-> 0]
<1>1. CASE Give500(a) /\ rows' = rows
  BY <1>1
<1>2. CASE ~(Give500(a) /\ rows' = rows)
  <2>1. PICK n \in 1..MaxRows :
          LET items == Append(r.items, [sp |-> Now(a), app |-> r.app, row |-> n])
          IN  req'[a] = Next1(items) \/ req'[a] = Next2(items)
    BY <1>2, Creates
  <2> HIDE DEF Next1, Next2
  <2>2. \E items : req'[a] = Next1(items) \/ req'[a] = Next2(items)
    BY ONLY <2>1
  <2> QED
    BY ONLY <2>2 DEF Next1, Next2
<1> QED
  BY <1>1, <1>2

\* The place of the goroutine, and the deployment at it.
LEMMA AtItem ==
    ASSUME Base, NEW a \in Applies, req[a].pc \in Deploying, req[a].at <= Len(req[a].items)
    PROVE  /\ req[a] = [pc |-> req[a].pc, items |-> req[a].items, at |-> req[a].at, by |-> req[a].by]
           /\ IsItem(Item(a)) /\ req[a].at \in DOMAIN req[a].items /\ Held(a) = req[a].items
           /\ Item(a) = Held(a)[req[a].at] /\ DOMAIN Held(a) = 1..Len(req[a].items)
           /\ req[a].at \in Nat /\ Len(req[a].items) \in Nat /\ req[a].by \in 0..(req[a].at - 1)
<1>1. RequestOK(req[a]) /\ req[a].pc # "idle"
  BY DEF Base, Deploying, Rolling
<1> QED
  BY <1>1, DeployingIs DEF Item, Held

LEMMA RollingIs == ASSUME Base, NEW a \in Applies, req[a].pc \in Rolling
                   PROVE  req[a].pc \in Deploying /\ req[a].at <= Len(req[a].items) /\ req[a].by = 0
<1>1. RequestOK(req[a]) /\ req[a].pc \in Deploying
  BY DEF Base, Deploying
<1> QED
  BY <1>1, DeployingIs

\* On to the next service.
LEMMA MovesOn ==
    ASSUME Base, NEW a \in Applies, req[a].pc \in Deploying, req[a].at <= Len(req[a].items),
           NEW by \in 0..req[a].at, Moves(a, by)
    PROVE  /\ req'[a] = [pc |-> "chain", items |-> req[a].items, at |-> req[a].at + 1, by |-> by]
           /\ RequestOK(req'[a])
           /\ \E q : Goes(a, q)
<1> DEFINE r == req[a]
<1>1. /\ r = [pc |-> r.pc, items |-> r.items, at |-> r.at, by |-> r.by]
      /\ r.at \in 1..Len(r.items) /\ Len(r.items) \in Nat /\ RequestOK(r)
  BY AtItem DEF Base
<1>2. req'[a] = [r EXCEPT !.pc = "chain", !.at = @ + 1, !.by = by] /\ \E q : Goes(a, q)
  BY GoesTo DEF Moves, Base
<1>3. req'[a] = [pc |-> "chain", items |-> r.items, at |-> r.at + 1, by |-> by]
  BY ONLY <1>1, <1>2
<1>4. r.at + 1 \in 1..(Len(r.items) + 1) /\ by \in 0..((r.at + 1) - 1)
  BY <1>1
<1>5. RequestOK(req'[a])
  BY <1>1, <1>3, <1>4, DeploysOn DEF Deploying, Rolling
<1> QED
  BY <1>2, <1>3, <1>5

----------------------------------------------------------------------------
(* Base is inductive.                                                      *)

LEMMA OneRequest ==
    ASSUME Base, NEW a \in Applies, \E q : Goes(a, q), RequestOK(req'[a])
    PROVE  /\ req' = [b \in Applies |-> req'[b]]
           /\ \A b \in Applies : RequestOK(req'[b]) /\ (b # a => req'[b] = req[b])
<1>1. TypeOK
  BY DEF Base
<1>2. PICK q : Goes(a, q)
  OBVIOUS
<1> QED
  BY <1>1, <1>2, GoesTo DEF Base

LEMMA GivesUp ==
    ASSUME Base, NEW a \in Applies, req[a].pc # "idle", NEW errored \in BOOLEAN, Goes(a, Ended(req[a], errored))
    PROVE  /\ req'[a] = [pc |-> "done", items |-> req[a].items, errored |-> errored]
           /\ RequestOK(req'[a])
           /\ \E q : Goes(a, q)
<1>1. req'[a] = Ended(req[a], errored)
  BY GoesTo DEF Base
<1>2. RequestOK(req'[a])
  BY <1>1, EndRequest DEF Base
<1> QED
  BY <1>1, <1>2 DEF Ended

LEMMA EditedApps ==
    ASSUME Base, AppsEdited
    PROVE  /\ apps' = [s \in Slugs |-> apps'[s]] /\ AppsOK'
           /\ \A s \in Slugs : /\ apps'[s].id = apps[s].id /\ (Exists(s)' <=> Exists(s))
                               /\ Exists(s)' => IsApp(apps'[s])
                               /\ SlugsOf(apps[s].id)' = SlugsOf(apps[s].id)
<1>1. ASSUME NEW s \in Slugs
      PROVE  /\ apps'[s].id = apps[s].id /\ (Exists(s)' <=> Exists(s))
             /\ Exists(s)' => IsApp(apps'[s]) /\ apps'[s].service = apps[s].service
  <2>1. CASE Exists(s)
    <3>1. apps'[s].id = apps[s].id /\ apps'[s].service = apps[s].service /\ IsApp(apps'[s])
      BY <2>1 DEF AppsEdited
    <3>2. Exists(s)'
      BY <3>1 DEF Exists, NoApp, IsApp, Ids
    <3> QED
      BY <2>1, <3>1, <3>2
  <2>2. CASE ~Exists(s)
    BY <2>2 DEF AppsEdited, Exists
  <2> QED
    BY <2>1, <2>2
<1>2. AppsOK'
  <2>1. \E top \in Nat : \A s \in Slugs : apps'[s].id <= top
    BY <1>1 DEF Base, AppsOK
  <2>2. ASSUME NEW s \in Slugs, NEW t \in Slugs, Exists(s)', apps'[s].id = apps'[t].id PROVE s = t
    <3>1. Exists(s) /\ apps[s].id = apps[t].id
      BY <1>1, <2>2
    <3> QED
      BY <3>1 DEF Base, AppsOK
  <2>3. \A s \in Slugs : Exists(s)' /\ apps'[s].service # "" => s[2] = apps'[s].service
    BY <1>1 DEF Base, AppsOK
  <2> QED
    BY <2>1, <2>2, <2>3 DEF AppsOK
<1>3. \A s \in Slugs : SlugsOf(apps[s].id)' = SlugsOf(apps[s].id)
  BY <1>1 DEF SlugsOf
<1> QED
  BY <1>1, <1>2, <1>3 DEF AppsEdited

\* The parts of Base, for the steps that change one request and maybe an app.
LEMMA HandlerKeepsBase ==
    ASSUME Base, NEW a \in Applies, \E q : Goes(a, q), RequestOK(req'[a]),
           AppsEdited \/ apps' = apps, dirs' = dirs \/ dirs' = dirs \cup {a} \/ dirs' = dirs \ {a},
           rows' = [n \in 1..MaxRows |-> rows'[n]], \A n \in 1..MaxRows : rows'[n] # NoRow => IsRow(rows'[n]),
           cont' = [s \in Slugs |-> cont'[s]],
           \A s \in Slugs : \A c \in cont'[s] : c = [row |-> c.row, mounts |-> c.mounts] /\ c.row \in 1..MaxRows,
           UNCHANGED <<life, ops, conduct>>
    PROVE  Base'
<1>1. /\ req' = [b \in Applies |-> req'[b]]
      /\ \A b \in Applies : RequestOK(req'[b])
  BY OneRequest
<1>2. \A b \in Applies : req'[b].pc \in Pcs
  BY <1>1 DEF RequestOK
<1>3. apps' = [s \in Slugs |-> apps'[s]] /\ AppsOK' /\ \A s \in Slugs : Exists(s)' => IsApp(apps'[s])
  <2>1. CASE AppsEdited
    BY <2>1, EditedApps
  <2>2. CASE apps' = apps
    BY <2>2 DEF Base, TypeOK, AppsOK, Exists
  <2> QED
    BY <2>1, <2>2
<1>4. \A b \in Applies : RequestOK(req[b])'
  BY <1>1 DEF RequestOK, Idle, IsUpload, Sequenced, Positions, AreItems, IsItem, IsPlan, IsPlanned, IsApp, IsSeq
<1>5. TypeOK'
  BY <1>1, <1>2, <1>3 DEF Base, TypeOK, Exists
<1> QED
  BY <1>3, <1>4, <1>5 DEF Base

LEMMA BaseStart == ASSUME Init PROVE Base
<1>1. ASSUME NEW s \in Slugs
      PROVE  apps[s] = HandMadeApp \/ apps[s] = NoApp
  BY DEF Init
<1>2. IsApp(HandMadeApp) /\ HandMadeApp.service = "" /\ HandMadeApp.id = 1
  <2>1. [k \in Keys |-> "none"] \in [Keys -> {"none", "plain", "secret"}]
    OBVIOUS
  <2> QED
    BY <2>1 DEF IsApp, HandMadeApp, Ids
<1>10. /\ \A x : x = HandMadeApp => x.id = 1 /\ x # NoApp
       /\ \A x : x = NoApp => x.id = 0
  <2>1. \A x : x = NoApp => x.id = 0
    BY DEF NoApp
  <2>2. ASSUME NEW x, x = HandMadeApp PROVE x.id = 1
    <3>1. x.id = HandMadeApp.id
      BY <2>2
    <3> QED
      BY <1>2, <3>1
  <2> QED
    BY <2>1, <2>2
<1>3. AppsOK
  <2>1. ASSUME NEW s \in Slugs PROVE apps[s].id <= 1 /\ (Exists(s) => apps[s] = HandMadeApp)
    <3>1. CASE apps[s] = HandMadeApp
      BY <1>10, <3>1
    <3>2. CASE apps[s] = NoApp
      BY <1>10, <3>2 DEF Exists
    <3> QED
      BY <1>1, <3>1, <3>2
  <2>2. ASSUME NEW s \in Slugs, NEW t \in Slugs, Exists(s), apps[s].id = apps[t].id PROVE s = t
    <3>1. apps[s] = HandMadeApp /\ apps[t] = HandMadeApp
      <4>1. apps[s] = HandMadeApp
        BY <2>1, <2>2
      <4>2. apps[t] # NoApp
        BY <1>10, <2>2, <4>1
      <4> QED
        BY <1>1, <4>1, <4>2
    <3>2. PICK made \in {{}} \cup {{h} : h \in HandMade} :
             apps = [x \in Slugs |-> IF x \in made THEN HandMadeApp ELSE NoApp]
      BY DEF Init
    <3>3. s \in made /\ t \in made
      BY <1>10, <3>1, <3>2
    <3> QED
      BY <3>3
  <2> QED
    BY <1>2, <2>1, <2>2 DEF AppsOK
<1>4. \A a \in Applies : RequestOK(req[a])
  BY DEF Init, Idle, RequestOK, Pcs, Planning, Writing, Applied, Deploying, Rolling
<1>5. apps = [s \in Slugs |-> apps[s]]
  BY DEF Init
<1>6. TypeOK
  <2>1. \A s \in Slugs : Exists(s) => IsApp(apps[s])
    BY <1>1, <1>2 DEF Exists
  <2>2. /\ rows = [n \in 1..MaxRows |-> rows[n]] /\ \A n \in 1..MaxRows : rows[n] # NoRow => IsRow(rows[n])
        /\ cont = [s \in Slugs |-> cont[s]] /\ \A s \in Slugs : cont[s] = {}
        /\ req = [a \in Applies |-> req[a]] /\ \A a \in Applies : req[a].pc \in Pcs
    BY DEF Init, Idle, Pcs
  <2>3. /\ dirs \subseteq Applies /\ life \in {"first", "down", "second"} /\ ops \in 0..MaxOps
        /\ conduct \in Conducts
    <3> MaxOps \in Nat
      BY StackAssumption
    <3> QED
      BY DEF Init
  <2> QED
    BY <1>5, <2>1, <2>2, <2>3 DEF TypeOK
<1> QED
  BY <1>3, <1>4, <1>6 DEF Base

\* The rows and the containers, when a step does not touch them.
LEMMA TablesKept ==
    ASSUME Base
    PROVE  /\ rows' = rows => /\ rows' = [n \in 1..MaxRows |-> rows'[n]]
                              /\ \A n \in 1..MaxRows : rows'[n] # NoRow => IsRow(rows'[n])
           /\ cont' = cont => /\ cont' = [s \in Slugs |-> cont'[s]]
                              /\ \A s \in Slugs : \A c \in cont'[s] :
                                    c = [row |-> c.row, mounts |-> c.mounts] /\ c.row \in 1..MaxRows
BY DEF Base, TypeOK

LEMMA PlansKeepBase ==
    ASSUME Base, NEW a \in Applies, Begin(a) \/ ReadExisting(a) \/ ReadTaken(a) \/ StoreFails(a) \/ Return(a)
    PROVE  Base'
<1>1. /\ rows' = rows /\ cont' = cont /\ apps' = apps /\ UNCHANGED <<life, ops, conduct>>
      /\ dirs' = dirs \/ dirs' = dirs \cup {a} \/ dirs' = dirs \ {a}
      /\ \E q : Goes(a, q)
  BY DEF Begin, ReadExisting, ReadTaken, StoreFails, Return, Give500
<1>2. ASSUME StoreFails(a) \/ Return(a) PROVE RequestOK(req'[a])
  BY <1>2, GivesUp DEF StoreFails, Return, Give500
<1>3. RequestOK(req'[a])
  BY <1>2, BeginRequest, ReadExistingRequest, ReadTakenRequest
<1> QED
  BY <1>1, <1>3, TablesKept, HandlerKeepsBase

\* A row that is settled, or none.
LEMMA RowsEnd ==
    ASSUME Base, NEW n \in 1..MaxRows, Finish(n, "healthy") \/ Finish(n, "failed")
    PROVE  /\ rows' = [m \in 1..MaxRows |-> rows'[m]]
           /\ \A m \in 1..MaxRows : rows'[m] # NoRow => IsRow(rows'[m])
BY Finishes DEF Base

LEMMA UpsertKeepsBase == ASSUME Base, NEW a \in Applies, Upsert(a) PROVE Base'
<1> DEFINE r == req[a]
           sp == Now(a)
<1>1. /\ rows' = rows /\ cont' = cont /\ UNCHANGED <<life, ops, conduct>> /\ r.pc = "upsert" /\ RequestOK(r)
  BY DEF Upsert, Base
<1>2. CASE Give500(a) /\ apps' = apps
  <2>1. RequestOK(req'[a]) /\ (\E q : Goes(a, q)) /\ dirs' = dirs \ {a}
    BY <1>1, <1>2, GivesUp DEF Give500
  <2> QED
    BY <1>1, <1>2, <2>1, TablesKept, HandlerKeepsBase
<1>3. ASSUME dirs' = dirs, IsApp(apps'[sp.slug]), \E q : Goes(a, q),
             req'[a] = [pc |-> "declare", items |-> r.items, plan |-> r.plan, project |-> r.project,
                        at |-> r.at, app |-> apps'[sp.slug], left |-> sp.mounts, secret |-> r.secret],
             apps' = [s \in Slugs |-> apps'[s]], \A s \in Slugs \ {sp.slug} : apps'[s] = apps[s],
             IsPlanned(sp)
      PROVE  RequestOK(req'[a])
  <2>1. sp.mounts \subseteq r.plan[r.at].mounts /\ "declare" \in Applied /\ r.pc \in Writing
    BY <1>1 DEF Now, Applied, Writing
  <2> QED
    BY <1>1, <1>3, <2>1, WritesOn
<1>4. ASSUME dirs' = dirs, RequestOK(req'[a]), \E q : Goes(a, q), AppsEdited
      PROVE  Base'
  BY <1>1, <1>4, TablesKept, HandlerKeepsBase
<1>5. ASSUME dirs' = dirs, RequestOK(req'[a]), \E q : Goes(a, q), IsApp(apps'[sp.slug]), IsPlanned(sp),
             apps' = [s \in Slugs |-> apps'[s]], \A s \in Slugs \ {sp.slug} : apps'[s] = apps[s],
             ~Exists(sp.slug), \A s \in Slugs : apps[s].id < apps'[sp.slug].id,
             apps'[sp.slug].service = sp.name
      PROVE  Base'
  <2>1. sp.slug \in Slugs /\ sp.slug[2] = sp.name /\ apps'[sp.slug].id \in Nat /\ apps'[sp.slug].id # 0
    BY <1>5 DEF IsPlanned, IsApp, Ids
  <2> HIDE DEF sp
  <2>2. \A s \in Slugs : apps[s].id \in Nat
    BY DEF Base, TypeOK, IsApp, Ids, Exists, NoApp
  <2>3. AppsOK'
    <3>1. \A s \in Slugs : apps'[s].id <= apps'[sp.slug].id
      BY <1>5, <2>1, <2>2
    <3>2. ASSUME NEW s \in Slugs, NEW t \in Slugs, Exists(s)', apps'[s].id = apps'[t].id PROVE s = t
      <4>1. CASE s = sp.slug \/ t = sp.slug
        BY <1>5, <2>1, <2>2, <3>2, <4>1
      <4>2. CASE s # sp.slug /\ t # sp.slug
        BY <1>5, <3>2, <4>2 DEF Base, AppsOK, Exists
      <4> QED
        BY <4>1, <4>2
    <3>3. ASSUME NEW s \in Slugs, Exists(s)', apps'[s].service # "" PROVE s[2] = apps'[s].service
      <4>1. CASE s = sp.slug
        BY <1>5, <2>1, <4>1
      <4>2. CASE s # sp.slug
        BY <1>5, <3>3, <4>2 DEF Base, AppsOK, Exists
      <4> QED
        BY <4>1, <4>2
    <3> QED
      BY <2>1, <3>1, <3>2, <3>3 DEF AppsOK
  <2>4. req' = [b \in Applies |-> req'[b]] /\ \A b \in Applies : RequestOK(req'[b])
    BY <1>5, OneRequest
  <2>5. \A s \in Slugs : Exists(s)' => IsApp(apps'[s])
    BY <1>5 DEF Base, TypeOK, Exists
  <2>6. TypeOK'
    <3>1. \A b \in Applies : req'[b].pc \in Pcs
      BY <2>4 DEF RequestOK
    <3> QED
      BY <1>1, <1>5, <2>4, <2>5, <3>1, TablesKept DEF Base, TypeOK
  <2>7. \A b \in Applies : RequestOK(req[b])'
    BY <2>4 DEF RequestOK, Idle, IsUpload, Sequenced, Positions, AreItems, IsItem, IsPlan, IsPlanned, IsApp, IsSeq
  <2> QED
    BY <2>3, <2>6, <2>7 DEF Base
<1> QED
  BY <1>2, <1>3, <1>4, <1>5, Upserts

LEMMA WriterKeepsBase ==
    ASSUME Base, NEW a \in Applies, Declare(a) \/ Recommend(a) \/ ListEnv(a) \/ WriteEnv(a)
    PROVE  Base'
<1> DEFINE r == req[a]
<1>1. /\ rows' = rows /\ cont' = cont /\ UNCHANGED <<life, ops, conduct>>
      /\ r.pc \in Applied /\ r.pc \in Writing /\ r.pc # "idle" /\ RequestOK(r)
  BY DEF Declare, Recommend, ListEnv, WriteEnv, Applied, Writing, Base
<1>2. CASE Give500(a) /\ apps' = apps
  <2>1. RequestOK(req'[a]) /\ (\E q : Goes(a, q)) /\ dirs' = dirs \ {a}
    BY <1>1, <1>2, GivesUp DEF Give500
  <2> QED
    BY <1>1, <1>2, <2>1, TablesKept, HandlerKeepsBase
<1>3. ASSUME RequestOK(req'[a]), \E q : Goes(a, q), AppsEdited \/ apps' = apps, dirs' = dirs
      PROVE  Base'
  BY <1>1, <1>3, TablesKept, HandlerKeepsBase
<1>4. CASE Declare(a)
  <2> SUFFICES ASSUME ~(Give500(a) /\ apps' = apps) PROVE Base'
    BY <1>2
  <2>1. PICK left \in SUBSET Now(a).mounts :
           req'[a] = [pc |-> "declare", items |-> r.items, plan |-> r.plan, project |-> r.project,
                      at |-> r.at, app |-> r.app, left |-> left, secret |-> r.secret]
    BY <1>4, Declares
  <2>2. RequestOK(req'[a])
    <3>1. "declare" \in Applied /\ IsApp(r.app) /\ left \subseteq r.plan[r.at].mounts
      BY <1>4, Declares DEF Applied, Now
    <3> QED
      BY <1>1, <2>1, <3>1, WritesOn
  <2> QED
    BY <1>3, <1>4, <2>2, Declares
<1>7. CASE Recommend(a)
  <2>0. PICK pc \in {"row", "listenv"} : \E app :
           /\ req'[a] = [pc |-> pc, items |-> r.items, plan |-> r.plan, project |-> r.project,
                         at |-> r.at, app |-> app, left |-> r.left, secret |-> r.secret]
           /\ IsApp(app)
    BY <1>7, Recommends
  <2>1. PICK app :
           /\ req'[a] = [pc |-> pc, items |-> r.items, plan |-> r.plan, project |-> r.project,
                         at |-> r.at, app |-> app, left |-> r.left, secret |-> r.secret]
           /\ IsApp(app)
    BY <2>0
  <2>2. RequestOK(req'[a])
    <3>1. pc \in Applied /\ pc # "declare"
      BY DEF Applied
    <3> QED
      BY <1>1, <2>1, <3>1, WritesOn
  <2> QED
    BY <1>3, <1>7, <2>2, Recommends
<1>5. CASE ListEnv(a)
  <2>1. RequestOK(req'[a])
    <3>1. PICK secret :
            req'[a] = [pc |-> "writeenv", items |-> r.items, plan |-> r.plan, project |-> r.project,
                       at |-> r.at, app |-> r.app, left |-> r.left, secret |-> secret]
      BY <1>5, Lists
    <3>2. IsApp(r.app) /\ "writeenv" \in Applied
      BY <1>5, Lists DEF Applied
    <3> QED
      BY <1>1, <3>1, <3>2, WritesOn
  <2>2. dirs' = dirs /\ apps' = apps
    BY <1>5 DEF ListEnv
  <2> QED
    BY <1>3, <1>5, <2>1, <2>2, Lists
<1>6. CASE WriteEnv(a)
  <2> SUFFICES ASSUME ~(Give500(a) /\ apps' = apps) PROVE Base'
    BY <1>2
  <2>1. /\ IsApp(r.app) /\ dirs' = dirs /\ AppsEdited /\ \E q : Goes(a, q)
        /\ req'[a] = [pc |-> "row", items |-> r.items, plan |-> r.plan, project |-> r.project,
                      at |-> r.at, app |-> r.app, left |-> r.left, secret |-> r.secret]
    BY <1>6, Writes
  <2>2. RequestOK(req'[a])
    <3>1. "row" \in Applied
      BY DEF Applied
    <3> QED
      BY <1>1, <2>1, <3>1, WritesOn
  <2> QED
    BY <1>3, <2>1, <2>2
<1> QED
  BY <1>4, <1>5, <1>6, <1>7

LEMMA CreateRowKeepsBase == ASSUME Base, NEW a \in Applies, CreateRow(a) PROVE Base'
<1> DEFINE r == req[a]
<1>1. /\ apps' = apps /\ cont' = cont /\ UNCHANGED <<life, ops, conduct>>
      /\ r.pc = "row" /\ RequestOK(r) /\ r.pc # "idle"
  BY DEF CreateRow, Base
<1>2. CASE Give500(a) /\ rows' = rows
  <2>1. RequestOK(req'[a]) /\ (\E q : Goes(a, q)) /\ dirs' = dirs \ {a}
    BY <1>1, <1>2, GivesUp DEF Give500
  <2> QED
    BY <1>1, <1>2, <2>1, TablesKept, HandlerKeepsBase
<1>3. ASSUME NEW n \in 1..MaxRows, NEW items,
             IsApp(r.app), dirs' = dirs, \E q : Goes(a, q),
             rows' = [m \in 1..MaxRows |-> IF m = n THEN [app |-> r.app.id, status |-> "deploying", verdict |-> "none"] ELSE rows[m]],
             \/ /\ r.at + 1 \in DOMAIN r.plan
                /\ req'[a] = [pc |-> "upsert", items |-> items, plan |-> r.plan,
                              project |-> r.project, at |-> r.at + 1, app |-> NoApp, left |-> {}, secret |-> {}]
             \/ req'[a] = [pc |-> "chain", items |-> items, at |-> 1, by |-> 0],
             AreItems(items), Len(items) = r.at, DOMAIN items = 1..r.at,
             \A i \in DOMAIN items : items[i].sp = r.plan[i]
      PROVE  Base'
  <2>1. IsPlan(r.plan) /\ r.at \in 1..Len(r.plan) /\ Len(r.plan) \in Nat
    BY <1>1, WritingIs DEF Writing, Applied
  <2>2. RequestOK(req'[a])
    <3>1. CASE req'[a] = [pc |-> "chain", items |-> items, at |-> 1, by |-> 0]
      BY <1>3, <2>1, <3>1 DEF RequestOK, Pcs, Planning, Writing, Applied, Deploying, Rolling
    <3>2. CASE /\ r.at + 1 \in DOMAIN r.plan
               /\ req'[a] = [pc |-> "upsert", items |-> items, plan |-> r.plan,
                             project |-> r.project, at |-> r.at + 1, app |-> NoApp, left |-> {}, secret |-> {}]
      <4> DEFINE q == req'[a]
      <4>1. /\ q.pc = "upsert" /\ q.items = items /\ q.plan = r.plan /\ q.at = r.at + 1
            /\ q = [pc |-> q.pc, items |-> q.items, plan |-> q.plan, project |-> q.project,
                    at |-> q.at, app |-> q.app, left |-> q.left, secret |-> q.secret]
        BY <3>2
      <4>2. Len(items) = (r.at + 1) - 1 /\ r.at + 1 \in DOMAIN r.plan
        BY <1>3, <2>1, <3>2
      <4> HIDE DEF q
      <4>3. RequestOK(q)
        BY <1>3, <2>1, <4>1, <4>2 DEF RequestOK, Pcs, Planning, Writing, Applied, Deploying, Rolling
      <4> QED
        BY <4>3 DEF q
    <3> QED
      BY <1>3, <3>1, <3>2
  <2>3. /\ rows' = [m \in 1..MaxRows |-> rows'[m]]
        /\ \A m \in 1..MaxRows : rows'[m] # NoRow => IsRow(rows'[m])
    BY <1>3 DEF Base, TypeOK, IsRow, IsApp
  <2> QED
    BY <1>1, <1>3, <2>2, <2>3, TablesKept, HandlerKeepsBase
<1>4. CASE ~(Give500(a) /\ rows' = rows)
  <2>1. PICK n \in 1..MaxRows :
           LET items == Append(r.items, [sp |-> Now(a), app |-> r.app, row |-> n])
           IN  /\ IsApp(r.app) /\ dirs' = dirs /\ \E q : Goes(a, q)
               /\ rows' = [m \in 1..MaxRows |-> IF m = n THEN [app |-> r.app.id, status |-> "deploying", verdict |-> "none"] ELSE rows[m]]
               /\ \/ /\ r.at + 1 \in DOMAIN r.plan
                     /\ req'[a] = [pc |-> "upsert", items |-> items, plan |-> r.plan,
                                   project |-> r.project, at |-> r.at + 1, app |-> NoApp, left |-> {}, secret |-> {}]
                  \/ req'[a] = [pc |-> "chain", items |-> items, at |-> 1, by |-> 0]
               /\ AreItems(items) /\ Len(items) = r.at /\ DOMAIN items = 1..r.at
               /\ \A i \in DOMAIN items : items[i].sp = r.plan[i]
    BY <1>4, Creates
  <2> QED
    BY <1>3, <2>1
<1> QED
  BY <1>2, <1>4

\* fail() keeps some of the other containers.
LEMMA Fails ==
    ASSUME Base, NEW a \in Applies, Fail(a)
    PROVE  /\ \E left \in SUBSET Others(Item(a).sp.slug, Item(a).row) :
                 /\ cont' = [cont EXCEPT ![Item(a).sp.slug] = left]
                 /\ left = Others(Item(a).sp.slug, Item(a).row) \/ req[a].pc = "pull"
           /\ Finish(Item(a).row, "failed") /\ AppsEdited /\ SettingsKept
<1> DEFINE it == Item(a)
           others == Others(it.sp.slug, it.row)
<1>1. PICK left \in {others} \cup (IF req[a].pc = "pull" /\ it.app.strategy = "replace" THEN {{}} ELSE {}) :
         /\ cont' = [cont EXCEPT ![it.sp.slug] = left]
         /\ Finish(it.row, "failed")
         /\ Mark(it.app.id, IF left # {} THEN "running" ELSE "error") \/ Mark(it.app.id, "running")
  BY DEF Fail
<1>2. left \in SUBSET others /\ (left = others \/ req[a].pc = "pull")
  BY <1>1
<1>3. AppsEdited /\ SettingsKept
  <2>1. PICK status \in {"running", "error"} : Mark(it.app.id, status)
    BY <1>1
  <2> QED
    BY <2>1, Marks DEF Base
<1> QED
  BY <1>1, <1>2, <1>3

\* What a step of the goroutine leaves of the apps.
LEMMA DeployEdits == ASSUME Base, NEW a \in Applies, Deploys(a) PROVE AppsEdited /\ SettingsKept
<1> DEFINE it == Item(a)
<1>1. CASE Reject(a)
  <2>1. Mark(it.app.id, "error") \/ apps' = apps
    BY <1>1 DEF Reject
  <2> QED
    BY <2>1, Marks, AppsSame DEF Base
<1>2. CASE Start(a) \/ Succeed(a)
  <2>1. Mark(it.app.id, "deploying") \/ Mark(it.app.id, "running")
    BY <1>2 DEF Start, Succeed, Mark
  <2> QED
    BY <2>1, Marks DEF Base
<1>3. CASE CreateContainer(a) \/ Abort(a) \/ Return(a)
  BY <1>3, AppsSame DEF CreateContainer, Abort, Return, Base
<1> QED
  BY <1>1, <1>2, <1>3, Fails DEF Deploys

LEMMA DeployKeepsBase == ASSUME Base, NEW a \in Applies, Deploys(a) PROVE Base'
<1> DEFINE r == req[a]
           it == Item(a)
<1> SUFFICES ASSUME ~Return(a) PROVE Base'
  BY PlansKeepBase
<1>1. UNCHANGED <<dirs, life, ops, conduct>> /\ r.pc \in Deploying /\ r.at <= Len(r.items) /\ RequestOK(r)
  BY RollingIs DEF Deploys, Reject, Start, CreateContainer, Succeed, Fail, Abort, IsNext, Base, Rolling, Deploying
<1>2. /\ r = [pc |-> r.pc, items |-> r.items, at |-> r.at, by |-> r.by]
      /\ IsItem(it) /\ r.at \in Nat /\ Len(r.items) \in Nat /\ r.by \in 0..(r.at - 1) /\ r.at \in 1..Len(r.items)
  BY <1>1, AtItem, DeployingIs
<1>3. it.row \in 1..MaxRows /\ it.sp.slug \in Slugs
  BY <1>2 DEF IsItem, IsPlanned
<1>4. RequestOK(req'[a]) /\ \E q : Goes(a, q)
  <2>1. CASE Reject(a) \/ Succeed(a) \/ Fail(a) \/ Abort(a)
    <3>1. 0 \in 0..r.at /\ r.at \in 0..r.at /\ r.by \in 0..r.at
      BY <1>2
    <3>2. Moves(a, 0) \/ Moves(a, r.at) \/ Moves(a, r.by)
      BY <2>1 DEF Reject, Succeed, Fail, Abort, FailsAt
    <3> QED
      BY <1>1, <3>1, <3>2, MovesOn
  <2>2. ASSUME NEW pc \in Rolling, r.by = 0, Goes(a, [r EXCEPT !.pc = pc]) PROVE RequestOK(req'[a])
    <3>1. req'[a] = [r EXCEPT !.pc = pc]
      BY <2>2, GoesTo DEF Base
    <3>2. req'[a] = [pc |-> pc, items |-> r.items, at |-> r.at, by |-> r.by]
      BY ONLY <1>2, <3>1
    <3> QED
      BY <1>1, <1>2, <2>2, <3>2, DeploysOn DEF Rolling, Deploying
  <2>3. CASE Start(a)
    BY <2>2, <2>3 DEF Start, IsNext, Rolling
  <2>4. CASE CreateContainer(a)
    BY <2>2, <2>4, RollingIs DEF CreateContainer, Rolling
  <2> QED
    BY <2>1, <2>3, <2>4 DEF Deploys
<1>5. AppsEdited
  BY DeployEdits
<1>6. /\ rows' = [m \in 1..MaxRows |-> rows'[m]]
      /\ \A m \in 1..MaxRows : rows'[m] # NoRow => IsRow(rows'[m])
  <2>1. CASE Start(a) \/ CreateContainer(a)
    BY <2>1, TablesKept DEF Start, CreateContainer
  <2>2. CASE Reject(a) \/ Succeed(a) \/ Fail(a) \/ Abort(a)
    BY <1>3, <2>2, RowsEnd DEF Reject, Succeed, Fail, Abort
  <2> QED
    BY <2>1, <2>2 DEF Deploys
<1>7. /\ cont' = [s \in Slugs |-> cont'[s]]
      /\ \A s \in Slugs : \A c \in cont'[s] : c = [row |-> c.row, mounts |-> c.mounts] /\ c.row \in 1..MaxRows
  <2>1. CASE Start(a) \/ Reject(a) \/ Abort(a)
    BY <2>1, TablesKept DEF Start, Reject, Abort
  <2>2. CASE CreateContainer(a)
    <3> DEFINE mounts == UNION {apps[s].mounts : s \in SlugsOf(it.app.id)}
               old == IF it.app.strategy = "replace" THEN {} ELSE cont[it.sp.slug]
    <3>1. cont' = [cont EXCEPT ![it.sp.slug] = old \cup {[row |-> it.row, mounts |-> mounts]}]
      BY <2>2 DEF CreateContainer
    <3>2. old \subseteq cont[it.sp.slug]
      OBVIOUS
    <3>3. [row |-> it.row, mounts |-> mounts].row = it.row /\ [row |-> it.row, mounts |-> mounts].mounts = mounts
      OBVIOUS
    <3> HIDE DEF mounts, old, it
    <3>4. /\ cont' = [s \in Slugs |-> cont'[s]]
          /\ \A s \in Slugs : \A c \in cont'[s] : c \in cont[s] \/ c = [row |-> it.row, mounts |-> mounts]
      BY <1>3, <3>1, <3>2 DEF Base, TypeOK
    <3> QED
      BY <1>3, <3>3, <3>4 DEF Base, TypeOK
  <2>3. CASE Succeed(a)
    BY <1>3, <2>3 DEF Succeed, Others, Base, TypeOK
  <2>4. CASE Fail(a)
    <3>1. PICK left \in SUBSET cont[it.sp.slug] : cont' = [cont EXCEPT ![it.sp.slug] = left]
      BY <2>4, Fails DEF Others
    <3> HIDE DEF it
    <3> QED
      BY <1>3, <3>1 DEF Base, TypeOK
  <2> QED
    BY <2>1, <2>2, <2>3, <2>4 DEF Deploys
<1> QED
  BY <1>1, <1>4, <1>5, <1>6, <1>7, HandlerKeepsBase

\* The parts of Base again, for the steps of the operator and of the process.
LEMMA TablesKeepBase ==
    ASSUME Base,
           req' = [b \in Applies |-> req'[b]], \A b \in Applies : RequestOK(req'[b]),
           apps' = [s \in Slugs |-> apps'[s]], AppsOK', \A s \in Slugs : Exists(s)' => IsApp(apps'[s]),
           rows' = [n \in 1..MaxRows |-> rows'[n]], \A n \in 1..MaxRows : rows'[n] # NoRow => IsRow(rows'[n]),
           cont' = [s \in Slugs |-> cont'[s]],
           \A s \in Slugs : \A c \in cont'[s] : c = [row |-> c.row, mounts |-> c.mounts] /\ c.row \in 1..MaxRows,
           dirs' = dirs, life' \in {"first", "down", "second"}, ops' \in 0..MaxOps, conduct' = conduct
    PROVE  Base'
<1>1. \A b \in Applies : req'[b].pc \in Pcs
  BY DEF RequestOK
<1>2. \A b \in Applies : RequestOK(req[b])'
  BY DEF RequestOK, Idle, IsUpload, Sequenced, Positions, AreItems, IsItem, IsPlan, IsPlanned, IsApp, IsSeq
<1>3. TypeOK'
  BY <1>1 DEF Base, TypeOK, Exists
<1> QED
  BY <1>2, <1>3 DEF Base

LEMMA RequestsKept == ASSUME Base, req' = req
                      PROVE  req' = [b \in Applies |-> req'[b]] /\ \A b \in Applies : RequestOK(req'[b])
BY DEF Base, TypeOK

LEMMA OpsCounted == ASSUME Base, ops < MaxOps, ops' = ops + 1 PROVE ops' \in 0..MaxOps
<1> MaxOps \in Nat
  BY StackAssumption
<1> QED
  BY DEF Base, TypeOK

LEMMA DeleteKeepsBase == ASSUME Base, NEW s \in Slugs, DeleteApp(s) PROVE Base'
<1>1. /\ req' = req /\ dirs' = dirs /\ life' = life /\ conduct' = conduct /\ ops < MaxOps /\ ops' = ops + 1
      /\ cont' = [cont EXCEPT ![s] = {}]
      /\ apps' = [apps EXCEPT ![s] = NoApp]
      /\ rows' = [n \in 1..MaxRows |-> IF rows[n].app = apps[s].id THEN NoRow ELSE rows[n]]
  BY DEF DeleteApp, Allowed
<1>2. apps' = [t \in Slugs |-> apps'[t]] /\ \A t \in Slugs : apps'[t] = IF t = s THEN NoApp ELSE apps[t]
  BY <1>1 DEF Base, TypeOK
<1>3. \A t \in Slugs : Exists(t)' => t # s /\ Exists(t)
  BY <1>2 DEF Exists
<1>4. AppsOK'
  <2>1. PICK top \in Nat : \A t \in Slugs : apps[t].id <= top
    BY DEF Base, AppsOK
  <2>2. \A t \in Slugs : apps'[t].id <= top
    BY <1>2, <2>1 DEF NoApp
  <2>3. ASSUME NEW t \in Slugs, NEW u \in Slugs, Exists(t)', apps'[t].id = apps'[u].id PROVE t = u
    <3>1. apps[t].id # 0 /\ NoApp.id = 0
      BY <1>3, <2>3 DEF Base, TypeOK, IsApp, Ids, NoApp
    <3>2. u # s
      BY <1>2, <1>3, <2>3, <3>1
    <3> QED
      BY <1>2, <1>3, <2>3, <3>2 DEF Base, AppsOK
  <2>4. \A t \in Slugs : Exists(t)' /\ apps'[t].service # "" => t[2] = apps'[t].service
    BY <1>2, <1>3 DEF Base, AppsOK
  <2> QED
    BY <2>2, <2>3, <2>4 DEF AppsOK
<1>5. \A t \in Slugs : Exists(t)' => IsApp(apps'[t])
  BY <1>2, <1>3 DEF Base, TypeOK
<1>6. rows' = [n \in 1..MaxRows |-> rows'[n]] /\ \A n \in 1..MaxRows : rows'[n] # NoRow => IsRow(rows'[n])
  BY <1>1 DEF Base, TypeOK
<1>7. /\ cont' = [t \in Slugs |-> cont'[t]]
      /\ \A t \in Slugs : \A c \in cont'[t] : c = [row |-> c.row, mounts |-> c.mounts] /\ c.row \in 1..MaxRows
  BY <1>1 DEF Base, TypeOK
<1>8. ops' \in 0..MaxOps /\ life' \in {"first", "down", "second"}
  BY <1>1, OpsCounted DEF Base, TypeOK
<1> QED
  BY <1>1, <1>2, <1>4, <1>5, <1>6, <1>7, <1>8, RequestsKept, TablesKeepBase

\* What an operator writes of an app.
LEMMA Puts ==
    ASSUME Base, NEW s \in Slugs, PutEnv(s)
    PROVE  /\ AppsEdited
           /\ \A t \in Slugs : Exists(t) => /\ apps'[t].mounts = apps[t].mounts /\ apps'[t].strategy = apps[t].strategy
                                            /\ t # s => apps'[t] = apps[t]
<1>1. PICK env \in [Keys -> {"none", "secret"}] : apps' = [apps EXCEPT ![s].env = env]
  BY DEF PutEnv
<1>2. /\ apps' = [t \in Slugs |-> apps'[t]] /\ apps'[s] = [apps[s] EXCEPT !.env = env]
      /\ \A t \in Slugs : t # s => apps'[t] = apps[t]
  BY <1>1 DEF Base, TypeOK
<1>3. Exists(s) /\ IsApp(apps[s])
  BY DEF PutEnv, Base, TypeOK
<1>4. env \in [Keys -> {"none", "plain", "secret"}]
  OBVIOUS
<1>5. IsApp(apps'[s]) /\ apps'[s].id = apps[s].id /\ apps'[s].service = apps[s].service
      /\ apps'[s].mounts = apps[s].mounts /\ apps'[s].strategy = apps[s].strategy
  BY <1>2, <1>3, <1>4 DEF IsApp
<1> QED
  BY <1>2, <1>3, <1>5 DEF AppsEdited, Base, TypeOK, Exists

LEMMA PutKeepsBase == ASSUME Base, NEW s \in Slugs, PutEnv(s) PROVE Base'
<1>1. /\ req' = req /\ dirs' = dirs /\ life' = life /\ conduct' = conduct /\ ops < MaxOps /\ ops' = ops + 1
      /\ rows' = rows /\ cont' = cont
  BY DEF PutEnv, Allowed
<1>2. ops' \in 0..MaxOps /\ life' \in {"first", "down", "second"}
  BY <1>1, OpsCounted DEF Base, TypeOK
<1> QED
  BY <1>1, <1>2, Puts, EditedApps, RequestsKept, TablesKept, TablesKeepBase

\* The boot settles what is stuck, and keeps of the containers what the rows name,
\* unless a call of it fails.
LEMMA Reboots ==
    ASSUME Base, Reboot
    PROVE  /\ AppsEdited /\ SettingsKept
           /\ rows' = [n \in 1..MaxRows |-> rows'[n]]
           /\ \A n \in 1..MaxRows :
                 \/ rows'[n] = rows[n]
                 \/ n \in Unended /\ rows'[n] = [app |-> rows[n].app, status |-> "failed", verdict |-> "failed"]
           /\ \A n \in 1..MaxRows : rows'[n] # NoRow => IsRow(rows'[n])
           /\ cont' = [s \in Slugs |-> cont'[s]] /\ \A s \in Slugs : cont'[s] \subseteq cont[s]
           /\ ~conduct.faults =>
                 /\ \A s \in Slugs : cont'[s] = {c \in cont[s] : Keep(s, c)}
                 /\ \A n \in Unended : Stuck(n, cont') => rows'[n].status = "failed"
           /\ req' = [a \in Applies |-> req'[a]]
           /\ \A a \in Applies : req'[a] = IF req[a].pc = "idle" THEN Idle ELSE Ended(req[a], FALSE)
           /\ life = "down" /\ life' = "second" /\ UNCHANGED <<dirs, ops, conduct>>
<1>1. PICK spared \in SUBSET Slugs, skipped \in SUBSET Unended, unmarked \in SUBSET Slugs :
         LET left == [s \in Slugs |-> {c \in cont[s] : s \in spared \/ Keep(s, c)}]
             stuck == {n \in Unended \ skipped : Stuck(n, left)}
             marked == {s \in Slugs \ unmarked : \E n \in stuck : rows[n].app = apps[s].id}
         IN  /\ ~conduct.faults => spared = {} /\ skipped = {}
             /\ cont' = left
             /\ rows' = [n \in 1..MaxRows |-> IF n \in stuck THEN [rows[n] EXCEPT !.verdict = "failed", !.status = "failed"]
                                              ELSE rows[n]]
             /\ apps' = [s \in Slugs |->
                           IF s \in marked THEN [apps[s] EXCEPT !.status = IF left[s] # {} THEN "running" ELSE "error"]
                           ELSE apps[s]]
  <2>1. /\ Some({s \in Slugs : cont[s] # {}}) \subseteq SUBSET Slugs /\ Some(Unended) \subseteq SUBSET Unended
        /\ Some(Slugs) \subseteq SUBSET Slugs
    BY DEF Some
  <2>2. ~conduct.faults => Some({s \in Slugs : cont[s] # {}}) = {{}} /\ Some(Unended) = {{}}
    BY DEF Some
  <2> QED
    <3> DEFINE Body(spared, skipped, unmarked) ==
                  LET left == [s \in Slugs |-> {c \in cont[s] : s \in spared \/ Keep(s, c)}]
                      stuck == {n \in Unended \ skipped : Stuck(n, left)}
                      marked == {s \in Slugs \ unmarked : \E n \in stuck : rows[n].app = apps[s].id}
                  IN  /\ cont' = left
                      /\ rows' = [n \in 1..MaxRows |-> IF n \in stuck THEN [rows[n] EXCEPT !.verdict = "failed", !.status = "failed"]
                                                       ELSE rows[n]]
                      /\ apps' = [s \in Slugs |->
                                    IF s \in marked THEN [apps[s] EXCEPT !.status = IF left[s] # {} THEN "running" ELSE "error"]
                                    ELSE apps[s]]
    <3>1. \E spared \in Some({s \in Slugs : cont[s] # {}}), skipped \in Some(Unended), unmarked \in Some(Slugs) :
             Body(spared, skipped, unmarked)
      BY DEF Reboot
    <3> HIDE DEF Body
    <3>2. \E spared \in SUBSET Slugs, skipped \in SUBSET Unended, unmarked \in SUBSET Slugs :
             (~conduct.faults => spared = {} /\ skipped = {}) /\ Body(spared, skipped, unmarked)
      BY <2>1, <2>2, <3>1
    <3> QED
      BY <3>2 DEF Body
<1> DEFINE left == [s \in Slugs |-> {c \in cont[s] : s \in spared \/ Keep(s, c)}]
           stuck == {n \in Unended \ skipped : Stuck(n, left)}
           marked == {s \in Slugs \ unmarked : \E n \in stuck : rows[n].app = apps[s].id}
<1>2. stuck \subseteq Unended /\ Unended \subseteq 1..MaxRows
  BY DEF Unended
<1>3. /\ cont' = [s \in Slugs |-> cont'[s]] /\ \A s \in Slugs : cont'[s] \subseteq cont[s]
      /\ ~conduct.faults => \A s \in Slugs : cont'[s] = {c \in cont[s] : Keep(s, c)}
  BY <1>1
<1>4. ~conduct.faults => \A n \in Unended : Stuck(n, cont') => n \in stuck
  BY <1>1
<1>5. /\ ~conduct.faults => spared = {} /\ skipped = {}
      /\ rows' = [n \in 1..MaxRows |-> IF n \in stuck THEN [rows[n] EXCEPT !.verdict = "failed", !.status = "failed"]
                                       ELSE rows[n]]
      /\ apps' = [s \in Slugs |->
                    IF s \in marked THEN [apps[s] EXCEPT !.status = IF left[s] # {} THEN "running" ELSE "error"]
                    ELSE apps[s]]
      /\ \A s \in marked : \E n \in stuck : rows[n].app = apps[s].id
  BY <1>1
<1> HIDE DEF stuck, left, marked
<1>6. rows' = [n \in 1..MaxRows |-> rows'[n]]
  BY <1>5
<1>7. ASSUME NEW n \in 1..MaxRows
      PROVE  /\ n \in stuck => rows'[n] = [app |-> rows[n].app, status |-> "failed", verdict |-> "failed"]
             /\ n \notin stuck => rows'[n] = rows[n]
             /\ rows'[n] # NoRow => IsRow(rows'[n])
             /\ n \in stuck => rows[n].app # 0 /\ rows'[n].status = "failed"
  <2>1. rows'[n] = IF n \in stuck THEN [rows[n] EXCEPT !.verdict = "failed", !.status = "failed"] ELSE rows[n]
    BY <1>5
  <2>2. n \in stuck => rows[n] # NoRow
    BY <1>2 DEF Unended
  <2>3. rows[n] # NoRow => IsRow(rows[n])
    BY DEF Base, TypeOK
  <2>4. ASSUME n \in stuck
        PROVE  rows'[n] = [app |-> rows[n].app, status |-> "failed", verdict |-> "failed"] /\ rows[n].app \in Ids
    BY <2>1, <2>2, <2>3, <2>4 DEF IsRow
  <2>5. ASSUME n \in stuck PROVE IsRow(rows'[n])
    BY <2>4, <2>5 DEF IsRow
  <2> QED
    BY <2>1, <2>3, <2>4, <2>5 DEF Ids
<1>8. AppsEdited /\ SettingsKept
  <2>1. apps' = [s \in Slugs |-> apps'[s]]
    BY <1>5
  <2>2. ASSUME NEW s \in Slugs, Exists(s)
        PROVE  /\ apps'[s].id = apps[s].id /\ apps'[s].service = apps[s].service /\ IsApp(apps'[s])
               /\ apps'[s].mounts = apps[s].mounts /\ apps'[s].strategy = apps[s].strategy
               /\ apps'[s].env = apps[s].env
    <3>1. IsApp(apps[s])
      BY <2>2 DEF Base, TypeOK
    <3>2. apps'[s] = [apps[s] EXCEPT !.status = "running"] \/ apps'[s] = [apps[s] EXCEPT !.status = "error"]
          \/ apps'[s] = apps[s]
      BY <1>5
    <3> QED
      BY <3>1, <3>2 DEF IsApp
  <2>3. ASSUME NEW s \in Slugs, ~Exists(s) PROVE apps'[s] = NoApp
    <3>1. apps[s] = NoApp /\ apps[s].id = 0
      BY <2>3 DEF Exists, NoApp
    <3>2. s \notin marked
      BY <1>2, <1>5, <1>7, <3>1
    <3> QED
      BY <1>5, <3>1, <3>2
  <2> QED
    BY <2>1, <2>2, <2>3 DEF AppsEdited, SettingsKept
<1>9. /\ req' = [a \in Applies |-> IF req[a].pc = "idle" THEN Idle ELSE Ended(req[a], FALSE)]
      /\ life = "down" /\ life' = "second" /\ UNCHANGED <<dirs, ops, conduct>>
  BY DEF Reboot
<1>10. /\ req' = [a \in Applies |-> req'[a]]
       /\ \A a \in Applies : req'[a] = IF req[a].pc = "idle" THEN Idle ELSE Ended(req[a], FALSE)
  BY <1>9
<1>11. \A n \in 1..MaxRows :
          \/ rows'[n] = rows[n]
          \/ n \in Unended /\ rows'[n] = [app |-> rows[n].app, status |-> "failed", verdict |-> "failed"]
  BY <1>2, <1>7
<1>12. ~conduct.faults => \A n \in Unended : Stuck(n, cont') => rows'[n].status = "failed"
  BY <1>2, <1>4, <1>7
<1> QED
  BY <1>3, <1>6, <1>7, <1>8, <1>9, <1>10, <1>11, <1>12

LEMMA RebootKeepsBase == ASSUME Base, Reboot PROVE Base'
<1>1. \A b \in Applies : RequestOK(req'[b])
  <2> TAKE b \in Applies
  <2>1. CASE req[b].pc = "idle"
    <3>1. RequestOK(req[b]) /\ req[b] = Idle
      BY <2>1 DEF Base, RequestOK
    <3>2. req'[b] = req[b]
      BY <2>1, <3>1, Reboots
    <3> QED
      BY <3>1, <3>2
  <2>2. CASE req[b].pc # "idle"
    BY <2>2, Reboots, EndRequest DEF Base
  <2> QED
    BY <2>1, <2>2
<1>2. \A s \in Slugs : \A c \in cont'[s] : c = [row |-> c.row, mounts |-> c.mounts] /\ c.row \in 1..MaxRows
  BY Reboots DEF Base, TypeOK
<1>3. ops' \in 0..MaxOps /\ life' \in {"first", "down", "second"}
  BY Reboots DEF Base, TypeOK
<1> QED
  BY <1>1, <1>2, <1>3, Reboots, EditedApps, TablesKeepBase

LEMMA CrashKeepsBase == ASSUME Base, Crash \/ UNCHANGED vars PROVE Base'
<1>1. req' = req /\ apps' = apps /\ rows' = rows /\ cont' = cont /\ dirs' = dirs /\ conduct' = conduct
  BY DEF Crash, vars
<1>2. ops' \in 0..MaxOps /\ life' \in {"first", "down", "second"}
  BY OpsCounted DEF Base, TypeOK, Crash, Allowed, vars
<1>3. apps' = [s \in Slugs |-> apps'[s]] /\ AppsOK' /\ \A s \in Slugs : Exists(s)' => IsApp(apps'[s])
  BY <1>1 DEF Base, TypeOK, AppsOK, Exists
<1> QED
  BY <1>1, <1>2, <1>3, RequestsKept, TablesKept, TablesKeepBase

LEMMA BaseStep == ASSUME Base, [Next]_vars PROVE Base'
<1>1. ASSUME NEW a \in Applies, Begin(a) \/ Handler(a) \/ StoreFails(a) \/ Deploys(a) PROVE Base'
  BY <1>1, PlansKeepBase, UpsertKeepsBase, WriterKeepsBase, CreateRowKeepsBase, DeployKeepsBase DEF Handler
<1>2. ASSUME NEW s \in Slugs, DeleteApp(s) \/ PutEnv(s) PROVE Base'
  BY <1>2, DeleteKeepsBase, PutKeepsBase
<1> QED
  BY <1>1, <1>2, CrashKeepsBase, RebootKeepsBase DEF Next

LEMMA BaseAlways == Spec => []Base
<1>1. Init => Base
  BY BaseStart
<1>2. Base /\ [Next]_vars => Base'
  BY BaseStep
<1> QED
  BY <1>1, <1>2, PTL DEF Spec

\* The types of Stack hold in every state, whatever the requests carry and the
\* store refuses.
THEOREM StackTyping == Spec => []TypeOK
<1>1. Base => TypeOK
  BY DEF Base
<1> QED
  BY <1>1, BaseAlways, PTL

----------------------------------------------------------------------------
(* What a step of an apply makes of its request.                           *)

Acts(a) == Begin(a) \/ Handler(a) \/ StoreFails(a) \/ Deploys(a)

LEMMA ActsInLife == ASSUME NEW a \in Applies, Acts(a) PROVE Up /\ UNCHANGED <<life, ops, conduct>>
<1>1. CASE Begin(a) \/ StoreFails(a)
  BY <1>1 DEF Begin, StoreFails
<1>2. CASE Handler(a)
  BY <1>2 DEF Handler, ReadExisting, ReadTaken, Upsert, Declare, Recommend, ListEnv, WriteEnv, CreateRow, Give500
<1>3. CASE Deploys(a)
  BY <1>3 DEF Deploys, Reject, Start, CreateContainer, Succeed, Fail, Abort, Return, Moves, IsNext
<1> QED
  BY <1>1, <1>2, <1>3 DEF Acts

\* How the stack is dealt with is settled at the start.
LEMMA ConductKept == ASSUME [Next]_vars PROVE conduct' = conduct
<1>1. ASSUME NEW a \in Applies, Acts(a) PROVE conduct' = conduct
  BY <1>1, ActsInLife
<1>2. CASE Crash \/ Reboot \/ UNCHANGED vars \/ \E s \in Slugs : DeleteApp(s) \/ PutEnv(s)
  BY <1>2 DEF Crash, Reboot, vars, DeleteApp, PutEnv, Allowed
<1> QED
  BY <1>1, <1>2 DEF Next, Acts

LEMMA OthersStay == ASSUME Base, NEW a \in Applies, Acts(a)
                    PROVE  /\ \E q : Goes(a, q)
                           /\ \A b \in Applies : b # a => req'[b] = req[b]
                           /\ Up /\ UNCHANGED <<life, ops, conduct>>
<1>1. \E q : Goes(a, q)
  BY DEF Acts, Begin, Handler, ReadExisting, ReadTaken, Upsert, Declare, Recommend, ListEnv, WriteEnv, CreateRow, StoreFails,
         Deploys, Reject, Start, CreateContainer, Succeed, Fail, Abort, Return, Give500, Moves
<1>2. Up /\ UNCHANGED <<life, ops, conduct>>
  BY ActsInLife
<1> QED
  BY <1>1, <1>2, GoesTo DEF Base

\* Until it writes, a request holds no deployments.
LEMMA Plans ==
    ASSUME Base, NEW a \in Applies, Begin(a) \/ ReadExisting(a) \/ ReadTaken(a)
    PROVE  /\ UNCHANGED <<apps, rows, cont, life, ops, conduct>>
           /\ Held(a) = <<>> /\ Held(a)' = <<>>
           /\ req[a].pc \in {"idle", "existing", "taken"}
           /\ \/ req'[a].pc \in Planning
              \/ req'[a] = [pc |-> "done", items |-> <<>>, errored |-> FALSE]
              \/ req'[a] = [pc |-> "chain", items |-> <<>>, at |-> 1, by |-> 0]
              \/ ReadTaken(a) /\ req'[a].pc = "upsert"
<1>1. UNCHANGED <<apps, rows, cont, life, ops, conduct>> /\ req[a].pc \in {"idle", "existing", "taken"}
  BY DEF Begin, ReadExisting, ReadTaken
<1>2. Held(a) = <<>>
  BY <1>1 DEF Base, RequestOK, Held, Planning
<1>3. /\ Held(a)' = <<>>
      /\ \/ req'[a].pc \in Planning
         \/ req'[a] = [pc |-> "done", items |-> <<>>, errored |-> FALSE]
         \/ req'[a] = [pc |-> "chain", items |-> <<>>, at |-> 1, by |-> 0]
         \/ ReadTaken(a) /\ req'[a].pc = "upsert"
  <2>1. CASE Begin(a)
    <3>1. PICK u \in Uploads[conduct.uploads][a] :
             LET file == Parse(u.doc)
                 project == IF u.query # "" THEN u.query ELSE u.doc.name
             IN  \/ Goes(a, Ended([items |-> <<>>], FALSE))
                 \/ Goes(a, [pc |-> "existing", items |-> <<>>, doc |-> u.doc, file |-> file,
                             project |-> project, dry |-> u.dry, existing |-> <<>>])
      BY <2>1 DEF Begin
    <3>2. CASE Goes(a, Ended([items |-> <<>>], FALSE))
      BY <3>2, GoesTo DEF Base, Ended, Held
    <3>3. ASSUME NEW file, NEW project,
                 Goes(a, [pc |-> "existing", items |-> <<>>, doc |-> u.doc, file |-> file,
                          project |-> project, dry |-> u.dry, existing |-> <<>>])
          PROVE  req'[a].pc = "existing" /\ req'[a].items = <<>>
      BY <3>3, GoesTo DEF Base
    <3> QED
      BY <3>1, <3>2, <3>3 DEF Held, Planning
  <2>2. CASE ReadExisting(a)
    <3>1. RequestOK(req'[a])
      BY <2>2, ReadExistingRequest
    <3>2. req[a].pc = "existing" /\ \E x : req'[a] = [req[a] EXCEPT !.pc = "taken", !.existing = x]
      BY <2>2, GoesTo DEF ReadExisting, Base
    <3>3. req'[a].pc = "taken"
      BY <3>2 DEF Base, RequestOK, Planning
    <3> QED
      BY <3>1, <3>3 DEF RequestOK, Held, Planning
  <2>3. CASE ReadTaken(a)
    <3>1. /\ req[a].items = <<>>
          /\ \/ Goes(a, Ended(req[a], FALSE)) \/ Goes(a, Orchestrate(<<>>))
             \/ \E plan, project : Goes(a, Write(<<>>, plan, project, 1))
      BY <2>3 DEF ReadTaken, Base, RequestOK, Planning
    <3>2. CASE Goes(a, Ended(req[a], FALSE))
      BY <3>1, <3>2, GoesTo DEF Base, Ended, Held
    <3>3. CASE Goes(a, Orchestrate(<<>>))
      BY <3>3, GoesTo DEF Base, Orchestrate, Held
    <3>4. ASSUME NEW plan, NEW project, Goes(a, Write(<<>>, plan, project, 1))
          PROVE  req'[a].pc = "upsert" /\ req'[a].items = <<>>
      <4>1. req'[a] = [pc |-> "upsert", items |-> <<>>, plan |-> plan, project |-> project, at |-> 1,
                       app |-> NoApp, left |-> {}, secret |-> {}]
        BY <3>4, GoesTo DEF Base, Write
      <4> QED
        BY <4>1
    <3> QED
      BY <2>3, <3>1, <3>2, <3>3, <3>4 DEF Held
  <2> QED
    BY <2>1, <2>2, <2>3
<1> QED
  BY <1>1, <1>2, <1>3

\* A rollout is begun, and goes on.
LEMMA RollsOn ==
    ASSUME Base, NEW a \in Applies, Start(a) \/ CreateContainer(a)
    PROVE  /\ req[a].pc \in Deploying /\ req[a].at <= Len(req[a].items) /\ req[a].by = 0
           /\ \/ /\ Start(a) /\ req[a].pc = "chain"
                 /\ req'[a] = [pc |-> "pull", items |-> req[a].items, at |-> req[a].at, by |-> 0]
              \/ /\ CreateContainer(a) /\ req[a].pc = "pull"
                 /\ req'[a] = [pc |-> "probe", items |-> req[a].items, at |-> req[a].at, by |-> 0]
<1> DEFINE r == req[a]
<1>1. r.pc \in Deploying /\ r.at <= Len(r.items) /\ r.by = 0
  BY RollingIs DEF Start, IsNext, CreateContainer, Rolling, Deploying
<1>2. r = [pc |-> r.pc, items |-> r.items, at |-> r.at, by |-> r.by]
  BY <1>1, AtItem
<1>3. CASE Start(a)
  <2>1. req'[a] = [r EXCEPT !.pc = "pull"]
    BY <1>3, GoesTo DEF Start, Base
  <2>2. req'[a] = [pc |-> "pull", items |-> r.items, at |-> r.at, by |-> r.by]
    BY ONLY <1>2, <2>1
  <2> QED
    BY <1>1, <1>3, <2>2 DEF Start, IsNext
<1>4. CASE CreateContainer(a)
  <2>1. req'[a] = [r EXCEPT !.pc = "probe"]
    BY <1>4, GoesTo DEF CreateContainer, Base
  <2>2. req'[a] = [pc |-> "probe", items |-> r.items, at |-> r.at, by |-> r.by]
    BY ONLY <1>2, <2>1
  <2> QED
    BY <1>1, <1>4, <2>2 DEF CreateContainer
<1> QED
  BY <1>3, <1>4

\* A request that ends, of itself or by an error of the store.
LEMMA Stops ==
    ASSUME Base, NEW a \in Applies, Give500(a) \/ StoreFails(a) \/ Return(a), req[a].pc # "idle"
    PROVE  /\ \/ req'[a] = [pc |-> "done", items |-> req[a].items, errored |-> TRUE]
              \/ req'[a] = [pc |-> "done", items |-> req[a].items, errored |-> FALSE] /\ Return(a)
           /\ req'[a].pc = "done" /\ Held(a)' = Held(a) /\ dirs' = dirs \ {a}
<1>1. \/ req'[a] = [pc |-> "done", items |-> req[a].items, errored |-> TRUE]
      \/ req'[a] = [pc |-> "done", items |-> req[a].items, errored |-> FALSE] /\ Return(a)
  BY GivesUp DEF Give500, StoreFails, Return
<1>2. dirs' = dirs \ {a}
  BY DEF Give500, StoreFails, Return
<1>3. req'[a].pc = "done" /\ Held(a)' = Held(a)
  BY <1>1 DEF Held
<1> QED
  BY <1>1, <1>2, <1>3

\* Where a step of the handler leaves the request, unless it ends it.
SamePlace(a) == req'[a].items = req[a].items /\ req'[a].plan = req[a].plan /\ req'[a].at = req[a].at

LEMMA Handled ==
    ASSUME Base, NEW a \in Applies, ~Give500(a),
           Upsert(a) \/ Declare(a) \/ Recommend(a) \/ ListEnv(a) \/ WriteEnv(a) \/ CreateRow(a)
    PROVE  /\ req[a].pc \in Writing /\ req'[a].pc # "idle"
           /\ Upsert(a) => req'[a].pc = "declare" /\ SamePlace(a) /\ req'[a].app = apps'[Now(a).slug]
           /\ Declare(a) => req'[a].pc = "declare" /\ SamePlace(a) /\ req'[a].app = req[a].app
           /\ Recommend(a) => /\ req'[a].pc \in {"row", "listenv"} /\ SamePlace(a)
                              /\ req'[a].app.id = req[a].app.id
                              /\ req'[a].app.strategy = Strategy(Now(a), req[a].app)
           /\ ListEnv(a) => req'[a].pc = "writeenv" /\ SamePlace(a) /\ req'[a].app = req[a].app
           /\ WriteEnv(a) => req'[a].pc = "row" /\ SamePlace(a) /\ req'[a].app = req[a].app
           /\ CreateRow(a) => \/ req'[a].pc = "upsert" /\ req'[a].plan = req[a].plan /\ req'[a].at = req[a].at + 1
                              \/ req'[a].pc = "chain" /\ req'[a].at = 1 /\ req'[a].by = 0
<1> DEFINE r == req[a]
           q == req'[a]
<1>1. ASSUME Upsert(a) PROVE q.pc = "declare" /\ SamePlace(a) /\ q.app = apps'[Now(a).slug]
  <2> DEFINE app == apps'[Now(a).slug]
  <2>1. q = [pc |-> "declare", items |-> r.items, plan |-> r.plan, project |-> r.project,
             at |-> r.at, app |-> app, left |-> Now(a).mounts, secret |-> r.secret]
    BY <1>1, Upserts
  <2> HIDE DEF app, q
  <2>2. q.pc = "declare" /\ q.items = r.items /\ q.plan = r.plan /\ q.at = r.at /\ q.app = app
    BY ONLY <2>1
  <2> QED
    BY <2>2 DEF SamePlace, q, app
<1>2. ASSUME Recommend(a)
      PROVE  /\ q.pc \in {"row", "listenv"} /\ SamePlace(a)
             /\ q.app.id = r.app.id /\ q.app.strategy = Strategy(Now(a), r.app)
  <2>1. PICK pc \in {"row", "listenv"} : \E app :
           /\ q = [pc |-> pc, items |-> r.items, plan |-> r.plan, project |-> r.project,
                   at |-> r.at, app |-> app, left |-> r.left, secret |-> r.secret]
           /\ IsApp(app) /\ app.id = r.app.id /\ app.strategy = Strategy(Now(a), r.app)
    BY <1>2, Recommends
  <2> HIDE DEF q
  <2>2. PICK app :
           /\ q = [pc |-> pc, items |-> r.items, plan |-> r.plan, project |-> r.project,
                   at |-> r.at, app |-> app, left |-> r.left, secret |-> r.secret]
           /\ app.id = r.app.id /\ app.strategy = Strategy(Now(a), r.app)
    BY <2>1
  <2>3. q.pc = pc /\ q.items = r.items /\ q.plan = r.plan /\ q.at = r.at /\ q.app = app
    BY ONLY <2>2
  <2> QED
    BY <2>2, <2>3 DEF SamePlace, q
<1>3. ASSUME NEW pc, NEW left, NEW secret,
             q = [pc |-> pc, items |-> r.items, plan |-> r.plan, project |-> r.project, at |-> r.at, app |-> r.app,
                  left |-> left, secret |-> secret]
      PROVE  q.pc = pc /\ SamePlace(a) /\ q.app = r.app
  <2> HIDE DEF q
  <2>1. q.pc = pc /\ q.items = r.items /\ q.plan = r.plan /\ q.at = r.at /\ q.app = r.app
    BY ONLY <1>3
  <2> QED
    BY <2>1 DEF SamePlace, q
<1>9. ASSUME Declare(a) PROVE q.pc = "declare" /\ SamePlace(a) /\ q.app = r.app
  <2>1. \E left : q = [pc |-> "declare", items |-> r.items, plan |-> r.plan, project |-> r.project,
                       at |-> r.at, app |-> r.app, left |-> left, secret |-> r.secret]
    BY <1>9, Declares
  <2> HIDE DEF q
  <2> QED
    BY <1>3, <2>1
<1>4. ASSUME ListEnv(a) PROVE q.pc = "writeenv" /\ SamePlace(a) /\ q.app = r.app
  <2>1. \E secret : q = [pc |-> "writeenv", items |-> r.items, plan |-> r.plan, project |-> r.project,
                         at |-> r.at, app |-> r.app, left |-> r.left, secret |-> secret]
    BY <1>4, Lists
  <2> HIDE DEF q
  <2> QED
    BY <1>3, <2>1
<1>5. ASSUME WriteEnv(a) PROVE q.pc = "row" /\ SamePlace(a) /\ q.app = r.app
  <2>1. q = [pc |-> "row", items |-> r.items, plan |-> r.plan, project |-> r.project,
             at |-> r.at, app |-> r.app, left |-> r.left, secret |-> r.secret]
    BY <1>5, Writes
  <2> HIDE DEF q
  <2> QED
    BY <1>3, <2>1
<1>6. ASSUME CreateRow(a)
      PROVE  \/ q.pc = "upsert" /\ q.plan = r.plan /\ q.at = r.at + 1
             \/ q.pc = "chain" /\ q.at = 1 /\ q.by = 0
  <2>1. \E items : \/ q = [pc |-> "upsert", items |-> items, plan |-> r.plan,
                           project |-> r.project, at |-> r.at + 1, app |-> NoApp, left |-> {}, secret |-> {}]
                   \/ q = [pc |-> "chain", items |-> items, at |-> 1, by |-> 0]
    BY <1>6, RowCreated
  <2> HIDE DEF q
  <2> QED
    BY ONLY <2>1
<1>7. req[a].pc \in Writing
  BY DEF Upsert, Declare, Recommend, ListEnv, WriteEnv, CreateRow, Writing, Applied
<1>8. q.pc # "idle"
  BY <1>1, <1>2, <1>4, <1>5, <1>6, <1>9
<1> QED
  BY <1>1, <1>2, <1>4, <1>5, <1>6, <1>7, <1>8, <1>9

\* The end of a rollout.
LEMMA Moved ==
    ASSUME Base, NEW a \in Applies, Reject(a) \/ Succeed(a) \/ Fail(a) \/ Abort(a)
    PROVE  /\ req[a].pc \in Deploying /\ req[a].at <= Len(req[a].items)
           /\ \E by \in 0..req[a].at :
                 /\ req'[a] = [pc |-> "chain", items |-> req[a].items, at |-> req[a].at + 1, by |-> by]
                 /\ \/ Succeed(a) /\ req[a].pc = "probe" /\ by = 0
                    \/ Abort(a) /\ by = req[a].by /\ by # 0
                    \/ (Reject(a) \/ Fail(a)) /\ by = req[a].at
<1>1. req[a].pc \in Deploying /\ req[a].at <= Len(req[a].items)
  BY RollingIs DEF Reject, Succeed, Fail, Abort, IsNext, Rolling, Deploying
<1>2. 0 \in 0..req[a].at /\ req[a].at \in 0..req[a].at /\ req[a].by \in 0..req[a].at
  <2>1. req[a].at \in Nat /\ req[a].by \in 0..(req[a].at - 1)
    BY <1>1, AtItem
  <2> QED
    BY <2>1
<1>3. PICK by \in {0, req[a].at, req[a].by} :
         /\ Moves(a, by)
         /\ \/ Succeed(a) /\ req[a].pc = "probe" /\ by = 0
            \/ Abort(a) /\ by = req[a].by /\ by # 0
            \/ (Reject(a) \/ Fail(a)) /\ by = req[a].at
  BY DEF Reject, Succeed, Fail, Abort, FailsAt
<1>4. req'[a] = [pc |-> "chain", items |-> req[a].items, at |-> req[a].at + 1, by |-> by]
  BY <1>1, <1>2, <1>3, MovesOn
<1> QED
  BY <1>1, <1>2, <1>3, <1>4

\* The steps that change which apps there are, or their settings.
LEMMA AppsStep ==
    ASSUME Base, [Next]_vars
    PROVE  \/ apps' = apps
           \/ AppsEdited /\ SettingsKept
           \/ \E a \in Applies : /\ Upsert(a) \/ Declare(a) \/ Recommend(a) \/ WriteEnv(a)
                                 /\ ~Give500(a)
           \/ \E s \in Slugs : DeleteApp(s) \/ PutEnv(s)
<1>1. ASSUME NEW a \in Applies, Deploys(a)
      PROVE  AppsEdited /\ SettingsKept
  BY <1>1, DeployEdits
<1>2. ASSUME NEW a \in Applies, Upsert(a) \/ Declare(a) \/ Recommend(a) \/ WriteEnv(a), Give500(a)
      PROVE  apps' = apps
  <2>1. req'[a].pc = "done"
    <3>1. req[a].pc # "idle"
      BY <1>2 DEF Upsert, Declare, Recommend, WriteEnv
    <3> QED
      BY <1>2, <3>1, Stops
  <2>2. CASE Upsert(a)
    <3> SUFFICES ASSUME apps' # apps PROVE FALSE
      OBVIOUS
    <3>1. req'[a] = [pc |-> "declare", items |-> req[a].items, plan |-> req[a].plan, project |-> req[a].project,
                     at |-> req[a].at, app |-> apps'[Now(a).slug], left |-> Now(a).mounts, secret |-> req[a].secret]
      BY <2>2, Upserts
    <3> QED
      BY ONLY <2>1, <3>1
  <2>3. CASE Declare(a)
    <3> SUFFICES ASSUME apps' # apps PROVE FALSE
      OBVIOUS
    <3> DEFINE r == req[a]
    <3>1. PICK left \in SUBSET Now(a).mounts :
             req'[a] = [pc |-> "declare", items |-> r.items, plan |-> r.plan, project |-> r.project,
                        at |-> r.at, app |-> r.app, left |-> left, secret |-> r.secret]
      BY <2>3, Declares
    <3> QED
      BY ONLY <2>1, <3>1
  <2>5. CASE Recommend(a)
    <3> DEFINE r == req[a]
    <3>1. PICK pc \in {"row", "listenv"} : \E app :
             /\ req'[a] = [pc |-> pc, items |-> r.items, plan |-> r.plan, project |-> r.project,
                           at |-> r.at, app |-> app, left |-> r.left, secret |-> r.secret]
             /\ IsApp(app)
      BY <2>5, Recommends
    <3> QED
      BY ONLY <2>1, <3>1
  <2>4. CASE WriteEnv(a)
    <3> SUFFICES ASSUME apps' # apps PROVE FALSE
      OBVIOUS
    <3>1. req'[a] = [pc |-> "row", items |-> req[a].items, plan |-> req[a].plan, project |-> req[a].project,
                     at |-> req[a].at, app |-> req[a].app, left |-> req[a].left, secret |-> req[a].secret]
      BY <2>4, Writes
    <3> QED
      BY ONLY <2>1, <3>1
  <2> QED
    BY <1>2, <2>2, <2>3, <2>4, <2>5
<1>3. ASSUME NEW a \in Applies, Begin(a) \/ StoreFails(a) \/ ReadExisting(a) \/ ReadTaken(a) \/ ListEnv(a) \/ CreateRow(a)
      PROVE  apps' = apps
  BY <1>3 DEF Begin, StoreFails, ReadExisting, ReadTaken, ListEnv, CreateRow
<1>4. Reboot => AppsEdited /\ SettingsKept
  BY Reboots
<1>5. Crash \/ UNCHANGED vars => apps' = apps
  BY DEF Crash, vars
<1> QED
  BY <1>1, <1>2, <1>3, <1>4, <1>5 DEF Next, Handler

\* No step but an operator's makes a variable secret.
LEMMA SecretsStep ==
    ASSUME Base, [Next]_vars, \A s \in Slugs : ~PutEnv(s), NEW s \in Slugs, NEW k \in Keys,
           Exists(s)', apps'[s].env[k] = "secret"
    PROVE  Exists(s) /\ apps[s].id = apps'[s].id /\ apps[s].env[k] = "secret"
<1>1. CASE apps' = apps
  BY <1>1 DEF Exists
<1>2. CASE AppsEdited /\ SettingsKept
  BY <1>2 DEF AppsEdited, SettingsKept, Exists
<1>3. ASSUME NEW a \in Applies, Upsert(a), ~Give500(a)
      PROVE  Exists(s) /\ apps[s].id = apps'[s].id /\ apps[s].env[k] = "secret"
  <2> DEFINE sp == Now(a)
  <2>1. /\ \A t \in Slugs \ {sp.slug} : apps'[t] = apps[t]
        /\ IF sp.update THEN AppsEdited /\ SettingsKept
           ELSE apps'[sp.slug].env = [x \in Keys |-> "none"]
    BY <1>3, Upserts
  <2>2. CASE sp.update
    BY <2>1, <2>2 DEF AppsEdited, SettingsKept, Exists
  <2>3. CASE ~sp.update
    <3>1. s # sp.slug
      BY <2>1, <2>3
    <3> QED
      BY <2>1, <3>1 DEF Exists
  <2> QED
    BY <2>2, <2>3
<1>4. ASSUME NEW a \in Applies, Declare(a) \/ Recommend(a) \/ WriteEnv(a), ~Give500(a)
      PROVE  Exists(s) /\ apps[s].id = apps'[s].id /\ apps[s].env[k] = "secret"
  <2>1. AppsEdited
    BY <1>4, Declares, Recommends, Writes
  <2>2. Exists(s) /\ apps[s].id = apps'[s].id
    BY <2>1 DEF AppsEdited, Exists
  <2>3. apps[s].env[k] = "secret"
    <3>1. CASE Declare(a) \/ Recommend(a)
      <4>1. apps'[s].env = apps[s].env
        BY <1>4, <2>2, <3>1, Declares, Recommends
      <4> QED
        BY <4>1
    <3>2. CASE WriteEnv(a)
      <4>1. \E secret \in BOOLEAN : apps'[s].env[k] = IF secret THEN "plain" ELSE apps[s].env[k]
        <5> DEFINE secret == apps[s].id = req[a].app.id /\ k \in Written(a)
        <5>1. secret \in BOOLEAN
          OBVIOUS
        <5>2. apps'[s].env[k] = IF secret THEN "plain" ELSE apps[s].env[k]
          BY <1>4, <2>2, <3>2, Writes
        <5> QED
          BY <5>1, <5>2
      <4> QED
        BY <4>1
    <3> QED
      BY <1>4, <3>1, <3>2
  <2> QED
    BY <2>2, <2>3
<1>5. ASSUME NEW t \in Slugs, DeleteApp(t)
      PROVE  Exists(s) /\ apps[s].id = apps'[s].id /\ apps[s].env[k] = "secret"
  <2>1. apps' = [apps EXCEPT ![t] = NoApp]
    BY <1>5 DEF DeleteApp
  <2>2. s # t /\ apps'[s] = apps[s]
    BY <2>1 DEF Base, TypeOK, Exists
  <2> QED
    BY <2>2 DEF Exists
<1> QED
  BY <1>1, <1>2, <1>3, <1>4, <1>5, AppsStep

\* A request comes to its writes of the environment by the list of what is secret.
LEMMA ToWriteEnv == ASSUME Base, [Next]_vars, NEW a \in Applies, req'[a].pc = "writeenv"
                    PROVE  ListEnv(a) \/ req'[a] = req[a]
<1>1. ASSUME Acts(a) PROVE ListEnv(a)
  <2>1. CASE Begin(a) \/ ReadExisting(a) \/ ReadTaken(a)
    BY <2>1, Plans DEF Planning
  <2>2. CASE StoreFails(a) \/ Return(a) \/ (Give500(a) /\ Handler(a))
    <3>1. CASE req[a].pc = "idle"
      BY <2>2, <3>1 DEF StoreFails, Return, Handler, ReadExisting, ReadTaken, Upsert, Declare, Recommend, ListEnv, WriteEnv, CreateRow
    <3>2. CASE req[a].pc # "idle"
      BY <2>2, <3>2, Stops
    <3> QED
      BY <3>1, <3>2
  <2>3. CASE /\ Upsert(a) \/ Declare(a) \/ Recommend(a) \/ ListEnv(a) \/ WriteEnv(a) \/ CreateRow(a)
             /\ ~Give500(a)
    BY <2>3, Handled
  <2>4. CASE Start(a) \/ CreateContainer(a)
    <3>1. \/ req'[a] = [pc |-> "pull", items |-> req[a].items, at |-> req[a].at, by |-> 0]
          \/ req'[a] = [pc |-> "probe", items |-> req[a].items, at |-> req[a].at, by |-> 0]
      BY <2>4, RollsOn
    <3>2. req'[a].pc \in {"pull", "probe"}
      BY ONLY <3>1
    <3> QED
      BY <3>2
  <2>5. CASE Reject(a) \/ Succeed(a) \/ Fail(a) \/ Abort(a)
    <3>1. \E by : req'[a] = [pc |-> "chain", items |-> req[a].items, at |-> req[a].at + 1, by |-> by]
      BY <2>5, Moved
    <3>2. req'[a].pc = "chain"
      BY ONLY <3>1
    <3> QED
      BY <3>2
  <2> QED
    BY <1>1, <2>1, <2>2, <2>3, <2>4, <2>5 DEF Acts, Handler, Deploys
<1>2. ASSUME NEW b \in Applies, b # a, Acts(b) PROVE req'[a] = req[a]
  BY <1>2, OthersStay
<1>3. CASE Reboot
  BY <1>3, Reboots DEF Idle, Ended
<1>4. CASE Crash \/ UNCHANGED vars \/ \E s \in Slugs : DeleteApp(s) \/ PutEnv(s)
  BY <1>4 DEF Crash, vars, DeleteApp, PutEnv
<1> QED
  BY <1>1, <1>2, <1>3, <1>4 DEF Next, Acts

LEMMA SecretsSeenStep == ASSUME Base, SecretsSeen, [Next]_vars PROVE SecretsSeen'
<1> SUFFICES ASSUME ~conduct'.meddle, NEW a \in Applies, req'[a].pc = "writeenv",
                    NEW s \in Slugs, apps'[s].id = req'[a].app.id, NEW k \in Keys, apps'[s].env[k] = "secret"
             PROVE  k \in req'[a].secret
  BY DEF SecretsSeen, SlugsOf
<1>1. Base'
  BY BaseStep
<1>2. Exists(s)'
  <2>1. RequestOK(req[a])'
    BY <1>1 DEF Base
  <2>2. req'[a].app.id # 0
    BY <2>1 DEF RequestOK, Applied, IsApp, Ids
  <2> QED
    BY <2>2 DEF Exists, NoApp
<1>3. conduct' = conduct
  BY ConductKept
<1>4. CASE ListEnv(a)
  <2>1. /\ apps' = apps /\ req'[a].app = req[a].app
        /\ req'[a].secret = {x \in Keys : \E t \in SlugsOf(req[a].app.id) : apps[t].env[x] = "secret"}
    <3>1. apps' = apps
      BY <1>4 DEF ListEnv
    <3> DEFINE secret == {x \in Keys : \E t \in SlugsOf(req[a].app.id) : apps[t].env[x] = "secret"}
    <3>2. req'[a] = [pc |-> "writeenv", items |-> req[a].items, plan |-> req[a].plan, project |-> req[a].project,
                     at |-> req[a].at, app |-> req[a].app, left |-> req[a].left, secret |-> secret]
      BY <1>4, Lists
    <3> HIDE DEF secret
    <3>3. req'[a].app = req[a].app /\ req'[a].secret = secret
      BY ONLY <3>2
    <3> QED
      BY <3>1, <3>3 DEF secret
  <2> QED
    BY <2>1 DEF SlugsOf
<1>5. CASE req'[a] = req[a]
  <2>1. Active(a)
    BY <1>5 DEF Active
  <2>2. \A t \in Slugs : ~PutEnv(t)
    BY <1>3, <2>1 DEF PutEnv, Allowed
  <2>3. apps[s].id = req[a].app.id /\ apps[s].env[k] = "secret"
    BY <1>2, <1>5, <2>2, SecretsStep
  <2> QED
    BY <1>3, <1>5, <2>3 DEF SecretsSeen, SlugsOf
<1> QED
  BY <1>4, <1>5, ToWriteEnv

LEMMA SecretsAlways == Spec => [](Base /\ SecretsSeen)
<1>1. Init => Base /\ SecretsSeen
  <2>1. Init => SecretsSeen
    BY DEF Init, Idle, SecretsSeen
  <2> QED
    BY <2>1, BaseStart
<1>2. Base /\ SecretsSeen /\ [Next]_vars => (Base /\ SecretsSeen)'
  BY BaseStep, SecretsSeenStep
<1> QED
  BY <1>1, <1>2, PTL DEF Spec

\* The step of SecretsKept.
LEMMA SecretStays ==
    ASSUME Base, SecretsSeen, [Next]_vars, ~conduct.meddle, ops' = ops, NEW s \in Slugs, NEW k \in Keys,
           Exists(s), apps[s].env[k] = "secret"
    PROVE  apps'[s].env[k] = "secret"
<1>1. CASE apps' = apps
  BY <1>1
<1>2. CASE AppsEdited /\ SettingsKept
  BY <1>2 DEF SettingsKept
<1>3. ASSUME NEW a \in Applies, Upsert(a), ~Give500(a) PROVE apps'[s].env[k] = "secret"
  <2> DEFINE sp == Now(a)
  <2>1. /\ \A t \in Slugs \ {sp.slug} : apps'[t] = apps[t]
        /\ sp.update = Exists(sp.slug) /\ (sp.update => SettingsKept)
    BY <1>3, Upserts
  <2>2. CASE s = sp.slug
    BY <2>1, <2>2 DEF SettingsKept
  <2>3. CASE s # sp.slug
    BY <2>1, <2>3
  <2> QED
    BY <2>2, <2>3
<1>4. ASSUME NEW a \in Applies, Declare(a) \/ Recommend(a), ~Give500(a) PROVE apps'[s].env[k] = "secret"
  <2>1. apps'[s].env = apps[s].env
    BY <1>4, Declares, Recommends
  <2> QED
    BY <2>1
<1>5. ASSUME NEW a \in Applies, WriteEnv(a), ~Give500(a) PROVE apps'[s].env[k] = "secret"
  <2>1. apps'[s].env[k] = IF apps[s].id = req[a].app.id /\ k \in Written(a) THEN "plain" ELSE apps[s].env[k]
    <3>1. CASE Give500(a) /\ apps' = apps
      BY <1>5, <3>1
    <3>2. CASE \A t \in Slugs : Exists(t) =>
                 \A x \in Keys : apps'[t].env[x] = IF apps[t].id = req[a].app.id /\ x \in Written(a) THEN "plain"
                                                  ELSE apps[t].env[x]
      BY <3>2
    <3> QED
      BY <1>5, <3>1, <3>2, Writes
  <2>2. req[a].pc = "writeenv"
    BY <1>5 DEF WriteEnv
  <2>3. ~(apps[s].id = req[a].app.id /\ k \in Written(a))
    BY <2>2 DEF SecretsSeen, Written, SlugsOf
  <2> QED
    BY <2>1, <2>3
<1>6. ASSUME NEW t \in Slugs, DeleteApp(t) \/ PutEnv(t) PROVE FALSE
  <2>1. ops' = ops + 1 /\ ops \in Nat
    <3> MaxOps \in Nat
      BY StackAssumption
    <3> QED
      BY <1>6 DEF DeleteApp, PutEnv, Allowed, Base, TypeOK
  <2> QED
    BY <2>1
<1> QED
  BY <1>1, <1>2, <1>3, <1>4, <1>5, <1>6, AppsStep

\* No apply overwrites a secret variable, unless an operator writes the
\* environment while it is under way: the keys it skips are those that were
\* secret when it asked, of the app that it writes to.
THEOREM SecretsAreKept == Spec => SecretsKept
<1>1. Base /\ SecretsSeen /\ [Next]_vars =>
         [\A s \in Slugs : \A k \in Keys :
             /\ ~conduct.meddle /\ ops' = ops /\ Exists(s) /\ apps'[s].id = apps[s].id
             /\ apps[s].env[k] = "secret"
             => apps'[s].env[k] = "secret"]_<<apps, ops>>
  BY SecretStays
<1> QED
  BY <1>1, SecretsAlways, PTL DEF Spec, SecretsKept

----------------------------------------------------------------------------
(* One apply at a time, and the names of its services.                     *)

\* A request is begun by Begin, and ended by a boot.
LEMMA Begun == ASSUME Base, [Next]_vars, NEW a \in Applies
               PROVE  /\ Active(a)' => Active(a) \/ Begin(a)
                      /\ Begin(a) => ~Active(a) /\ (conduct.overlap \/ \A b \in Applies : ~Active(b))
<1>1. Begin(a) => ~Active(a) /\ (conduct.overlap \/ \A b \in Applies : ~Active(b))
  BY DEF Begin, Active
<1>2. ASSUME Acts(a), ~Begin(a) PROVE Active(a)
  BY <1>2 DEF Acts, Active, Handler, ReadExisting, ReadTaken, Upsert, Declare, Recommend, ListEnv, WriteEnv, CreateRow, StoreFails,
       Deploys, Reject, Start, IsNext, CreateContainer, Succeed, Fail, Abort, Return
<1>3. ASSUME NEW b \in Applies, b # a, Acts(b), Active(a)' PROVE Active(a)
  <2>1. req'[a] = req[a]
    BY <1>3, OthersStay
  <2> QED
    BY <1>3, <2>1 DEF Active
<1>4. CASE Reboot
  <2>1. req'[a] = Idle \/ req'[a] = Ended(req[a], FALSE)
    BY <1>4, Reboots
  <2>2. ~Active(a)'
    BY <2>1 DEF Active, Idle, Ended
  <2> QED
    BY <1>1, <2>2
<1>5. CASE Crash \/ UNCHANGED vars \/ \E s \in Slugs : DeleteApp(s) \/ PutEnv(s)
  BY <1>1, <1>5 DEF Crash, vars, DeleteApp, PutEnv, Active
<1> QED
  BY <1>1, <1>2, <1>3, <1>4, <1>5 DEF Next, Acts

LEMMA OneActiveStep == ASSUME Base, OneActive, [Next]_vars PROVE OneActive'
<1> SUFFICES ASSUME ~conduct.overlap, NEW a \in Applies, NEW b \in Applies, Active(a)', Active(b)', a # b
             PROVE  FALSE
  BY ConductKept DEF OneActive
<1>1. \A c \in Applies : Begin(c) => ~Active(a) /\ ~Active(b)
  BY Begun
<1>2. (Active(a) /\ Active(b)) \/ (Begin(a) /\ Begin(b))
  BY <1>1, Begun
<1>3. ASSUME Begin(a), Begin(b) PROVE FALSE
  <2>1. req'[b] = req[b] /\ ~Active(b)
    BY <1>3, OthersStay, Begun DEF Acts
  <2> QED
    BY <2>1 DEF Active
<1> QED
  BY <1>2, <1>3 DEF OneActive

\* A step of an apply that is under way finds no other under way.
LEMMA Alone == ASSUME Base, OneActive, ~conduct.overlap, NEW a \in Applies, NEW b \in Applies, Active(a), Acts(b)
               PROVE  a = b
<1>1. CASE Begin(b)
  BY <1>1 DEF Begin
<1>2. CASE ~Begin(b)
  <2>1. Active(b)
    BY <1>2 DEF Acts, Active, Handler, ReadExisting, ReadTaken, Upsert, Declare, Recommend, ListEnv, WriteEnv, CreateRow, StoreFails,
         Deploys, Reject, Start, IsNext, CreateContainer, Succeed, Fail, Abort, Return
  <2> QED
    BY <2>1 DEF OneActive
<1> QED
  BY <1>1, <1>2

\* What becomes of the names: a step creates at most one app, of the service
\* that an apply has come to.
LEMMA NamesStep ==
    ASSUME Base, [Next]_vars
    PROVE  \/ \A s \in Slugs : Exists(s)' => Exists(s) /\ apps'[s].service = apps[s].service
           \/ \E a \in Applies :
                 /\ Upsert(a) /\ ~Give500(a) /\ ~Now(a).update /\ Now(a).slug \in Slugs
                 /\ apps'[Now(a).slug].service = Now(a).name
                 /\ \A s \in Slugs \ {Now(a).slug} : apps'[s] = apps[s]
<1>1. CASE apps' = apps
  BY <1>1 DEF Exists
<1>2. CASE AppsEdited
  BY <1>2 DEF AppsEdited, Exists
<1>3. ASSUME NEW a \in Applies, Upsert(a), ~Give500(a), ~AppsEdited
      PROVE  /\ ~Now(a).update /\ Now(a).slug \in Slugs /\ apps'[Now(a).slug].service = Now(a).name
             /\ \A s \in Slugs \ {Now(a).slug} : apps'[s] = apps[s]
  BY <1>3, Upserts DEF IsPlanned
<1>4. ASSUME NEW a \in Applies, Declare(a) \/ Recommend(a) \/ WriteEnv(a), ~Give500(a) PROVE AppsEdited
  BY <1>4, Declares, Recommends, Writes
<1>5. ASSUME NEW s \in Slugs, PutEnv(s) PROVE AppsEdited
  BY <1>5, Puts
<1>6. ASSUME NEW s \in Slugs, DeleteApp(s), NEW t \in Slugs, Exists(t)'
      PROVE  Exists(t) /\ apps'[t].service = apps[t].service
  <2>1. apps' = [apps EXCEPT ![s] = NoApp]
    BY <1>6 DEF DeleteApp
  <2> QED
    BY <1>6, <2>1 DEF Base, TypeOK, Exists
<1> QED
  BY <1>1, <1>2, <1>3, <1>4, <1>5, <1>6, AppsStep

\* A plan that is to be written.
LEMMA StartsWriting ==
    ASSUME Base, NEW a \in Applies, ReadTaken(a), req'[a].pc = "upsert"
    PROVE  /\ req'[a].at = 1 /\ req'[a].items = <<>>
           /\ \A i \in DOMAIN req'[a].plan : req'[a].plan[i].update \/ req'[a].plan[i].name \notin Taken(a)
<1> DEFINE r == req[a]
           plan == BuildPlan(r.file, r.project, r.existing, Taken(a))
           services == plan.services
<1>1. r.pc = "taken" /\ RequestOK(r)
  BY DEF ReadTaken, Base
<1>2. \/ Goes(a, Ended(r, FALSE)) \/ Goes(a, Orchestrate(<<>>))
      \/ plan.ok /\ Goes(a, Write(<<>>, services, r.project, 1))
  BY DEF ReadTaken
<1>3. ~Goes(a, Ended(r, FALSE)) /\ ~Goes(a, Orchestrate(<<>>))
  BY GoesTo DEF Base, Ended, Orchestrate
<1>4. Sequenced(r.file) /\ plan.ok
  BY <1>1, <1>2, <1>3 DEF RequestOK, IsUpload, Planning
<1>5. PICK t \in [Positions(r.file) -> Positions(r.file)] :
         \A i \in Positions(r.file) :
            /\ services[i] = PlanService(r.project, r.file.services[t[i]], r.existing)
            /\ ~Rejected(r.project, r.file.services[t[i]].name, r.existing, Taken(a))
  BY <1>4, PlanOf
<1>6. DOMAIN services = Positions(r.file)
  <2>1. IsSeq(services) /\ Len(services) = Len(r.file.services)
    BY <1>4, PlanOf
  <2> HIDE DEF services
  <2> QED
    BY <1>4, <2>1, SeqIs DEF Sequenced
<1>7. req'[a] = [pc |-> "upsert", items |-> <<>>, plan |-> services, project |-> r.project,
                 at |-> 1, app |-> NoApp, left |-> {}, secret |-> {}]
  <2> HIDE DEF services
  <2> QED
    BY <1>2, <1>3, GoesTo DEF Base, Write
<1> HIDE DEF services
<1>8. req'[a].plan = services /\ req'[a].at = 1 /\ req'[a].items = <<>>
  BY ONLY <1>7
<1>9. ASSUME NEW i \in DOMAIN services PROVE services[i].update \/ services[i].name \notin Taken(a)
  <2> DEFINE svc == r.file.services[t[i]]
           sp == PlanService(r.project, svc, r.existing)
  <2>1. services[i].name = svc.name /\ services[i].update = (svc.name \in DOMAIN r.existing)
    <3>1. services[i] = sp
      BY <1>5, <1>6
    <3>2. sp.name = svc.name /\ sp.update = (svc.name \in DOMAIN r.existing)
      BY DEF PlanService
    <3> HIDE DEF sp
    <3> QED
      BY <3>1, <3>2
  <2>2. svc.name \notin Taken(a) \/ svc.name \in DOMAIN r.existing
    BY <1>5, <1>6 DEF Rejected
  <2> HIDE DEF svc, sp
  <2> QED
    BY <2>1, <2>2
<1> QED
  BY <1>8, <1>9

\* How a request comes to write, and goes on writing.
LEMMA ToWriting ==
    ASSUME Base, [Next]_vars, NEW a \in Applies, req'[a].pc \in Writing
    PROVE  \/ req'[a] = req[a] /\ ~Acts(a)
           \/ ReadTaken(a) /\ req'[a].pc = "upsert"
           \/ /\ ~Give500(a) /\ (Upsert(a) \/ Declare(a) \/ Recommend(a) \/ ListEnv(a) \/ WriteEnv(a))
              /\ req[a].pc \in Writing /\ SamePlace(a) /\ req'[a].pc \in Applied
           \/ /\ ~Give500(a) /\ CreateRow(a)
              /\ req[a].pc \in Writing /\ req'[a].plan = req[a].plan /\ req'[a].at = req[a].at + 1
              /\ req'[a].pc = "upsert"
<1>1. CASE Begin(a) \/ ReadExisting(a) \/ ReadTaken(a)
  <2>1. \/ req'[a].pc \in Planning
        \/ req'[a] = [pc |-> "done", items |-> <<>>, errored |-> FALSE]
        \/ req'[a] = [pc |-> "chain", items |-> <<>>, at |-> 1, by |-> 0]
        \/ ReadTaken(a) /\ req'[a].pc = "upsert"
    BY <1>1, Plans
  <2>2. req'[a].pc \in Planning \cup {"done", "chain"} \/ (ReadTaken(a) /\ req'[a].pc = "upsert")
    BY ONLY <2>1
  <2> QED
    BY <2>2 DEF Planning, Writing, Applied
<1>2. CASE StoreFails(a) \/ Return(a) \/ (Give500(a) /\ Handler(a))
  <2>1. req[a].pc # "idle"
    BY <1>2 DEF StoreFails, Return, Handler, ReadExisting, ReadTaken, Upsert, Declare, Recommend, ListEnv, WriteEnv, CreateRow
  <2>2. req'[a].pc = "done"
    BY <1>2, <2>1, Stops
  <2> QED
    BY <2>2 DEF Writing, Applied
<1>3. CASE /\ Upsert(a) \/ Declare(a) \/ Recommend(a) \/ ListEnv(a) \/ WriteEnv(a) \/ CreateRow(a)
           /\ ~Give500(a)
  BY <1>3, Handled DEF Writing, Applied
<1>4. CASE Start(a) \/ CreateContainer(a)
  <2>1. \/ req'[a] = [pc |-> "pull", items |-> req[a].items, at |-> req[a].at, by |-> 0]
        \/ req'[a] = [pc |-> "probe", items |-> req[a].items, at |-> req[a].at, by |-> 0]
    BY <1>4, RollsOn
  <2>2. req'[a].pc \in {"pull", "probe"}
    BY ONLY <2>1
  <2> QED
    BY <2>2 DEF Writing, Applied
<1>5. CASE Reject(a) \/ Succeed(a) \/ Fail(a) \/ Abort(a)
  <2>1. \E by : req'[a] = [pc |-> "chain", items |-> req[a].items, at |-> req[a].at + 1, by |-> by]
    BY <1>5, Moved
  <2>2. req'[a].pc = "chain"
    BY ONLY <2>1
  <2> QED
    BY <2>2 DEF Writing, Applied
<1>6. ASSUME ~Acts(a) PROVE req'[a] = req[a]
  <2>1. ASSUME NEW b \in Applies, b # a, Acts(b) PROVE req'[a] = req[a]
    BY <2>1, OthersStay
  <2>2. CASE Reboot
    <3>1. req'[a] = Idle \/ req'[a] = Ended(req[a], FALSE)
      BY <2>2, Reboots
    <3> QED
      BY <3>1 DEF Idle, Ended, Writing, Applied
  <2>3. CASE Crash \/ UNCHANGED vars \/ \E s \in Slugs : DeleteApp(s) \/ PutEnv(s)
    BY <2>3 DEF Crash, vars, DeleteApp, PutEnv
  <2> QED
    BY <1>6, <2>1, <2>2, <2>3 DEF Next, Acts
<1> QED
  BY <1>1, <1>2, <1>3, <1>4, <1>5, <1>6 DEF Acts, Handler, Deploys

\* What a step of the handler leaves to be created.
LEMMA ToCreateLess ==
    ASSUME Base, NEW a \in Applies, req[a].pc \in Writing, req'[a].pc \in Writing, req'[a].plan = req[a].plan,
           \/ SamePlace(a) /\ req'[a].pc # "upsert"
           \/ req'[a].at = req[a].at + 1 /\ req[a].pc # "upsert"
    PROVE  /\ ToCreate(a)' \subseteq ToCreate(a)
           /\ req[a].pc = "upsert" => req[a].at \notin ToCreate(a)'
<1>1. DOMAIN req[a].plan \subseteq Nat /\ req[a].at \in Nat
  <2>1. RequestOK(req[a])
    BY DEF Base
  <2>2. DOMAIN req[a].plan = 1..Len(req[a].plan) /\ Len(req[a].plan) \in Nat /\ req[a].at \in DOMAIN req[a].plan
    BY <2>1, WritingIs
  <2> QED
    BY <2>2
<1> QED
  BY <1>1 DEF ToCreate, SamePlace

LEMMA NamesUnclaimedStep == ASSUME Base, OneActive, NamesUnclaimed, [Next]_vars PROVE NamesUnclaimed'
<1> SUFFICES ASSUME ~conduct.overlap, NEW a \in Applies, req'[a].pc \in Writing, NEW i \in ToCreate(a)',
                    NEW s \in Slugs, Exists(s)', apps'[s].service # "", apps'[s].service = req'[a].plan[i].name
             PROVE  FALSE
  BY ConductKept DEF NamesUnclaimed
<1>1. ASSUME req[a].pc \in Writing, req'[a].plan = req[a].plan, i \in ToCreate(a),
             Exists(s), apps'[s].service = apps[s].service
      PROVE  FALSE
  BY <1>1 DEF NamesUnclaimed
<1>2. CASE ReadTaken(a) /\ req'[a].pc = "upsert"
  <2>1. i \in DOMAIN req'[a].plan /\ ~req'[a].plan[i].update
    BY DEF ToCreate
  <2>2. req'[a].plan[i].name \notin Taken(a)
    BY <1>2, <2>1, StartsWriting
  <2>3. apps' = apps
    BY <1>2 DEF ReadTaken
  <2> QED
    BY <2>2, <2>3 DEF Taken, Exists
<1>3. CASE req'[a] = req[a] /\ ~Acts(a)
  <2>1. Active(a) /\ req[a].pc \in Writing /\ i \in ToCreate(a)
    BY <1>3 DEF Active, Writing, Applied, ToCreate
  <2>2. \A b \in Applies : ~Upsert(b)
    BY <1>3, <2>1, Alone DEF Acts, Handler
  <2>3. Exists(s) /\ apps'[s].service = apps[s].service
    BY <2>2, NamesStep
  <2> QED
    BY <1>1, <1>3, <2>1, <2>3
<1>4. CASE /\ ~Give500(a) /\ (Upsert(a) \/ Declare(a) \/ Recommend(a) \/ ListEnv(a) \/ WriteEnv(a) \/ CreateRow(a))
           /\ req[a].pc \in Writing /\ req'[a].plan = req[a].plan
           /\ \/ SamePlace(a) /\ req'[a].pc # "upsert"
              \/ req'[a].at = req[a].at + 1 /\ req[a].pc # "upsert"
  <2>1. i \in ToCreate(a) /\ (req[a].pc = "upsert" => i # req[a].at)
    BY <1>4, ToCreateLess
  <2>2. Active(a)
    BY <1>4 DEF Active, Writing, Applied
  <2>3. CASE Exists(s) /\ apps'[s].service = apps[s].service
    BY <1>1, <1>4, <2>1, <2>3
  <2>4. CASE ~(Exists(s) /\ apps'[s].service = apps[s].service)
    <3>1. PICK b \in Applies :
             /\ Upsert(b) /\ apps'[Now(b).slug].service = Now(b).name
             /\ \A t \in Slugs \ {Now(b).slug} : apps'[t] = apps[t]
      BY <2>4, NamesStep
    <3>2. b = a
      BY <2>2, <3>1, Alone DEF Acts, Handler
    <3>3. s = Now(a).slug
      BY <2>4, <3>1, <3>2 DEF Exists
    <3>4. req[a].plan[i].name = req[a].plan[req[a].at].name /\ i # req[a].at
      BY <1>4, <2>1, <3>1, <3>2, <3>3 DEF Now, Upsert
    <3>5. IsPlan(req[a].plan) /\ req[a].at \in DOMAIN req[a].plan /\ i \in DOMAIN req[a].plan
      BY <1>4, <2>1, WritingIs DEF Base, ToCreate
    <3> QED
      BY <3>4, <3>5 DEF IsPlan
  <2> QED
    BY <2>3, <2>4
<1>5. CASE /\ ~Give500(a) /\ (Upsert(a) \/ Declare(a) \/ Recommend(a) \/ ListEnv(a) \/ WriteEnv(a))
           /\ req[a].pc \in Writing /\ SamePlace(a) /\ req'[a].pc \in Applied
  BY <1>4, <1>5 DEF SamePlace, Applied
<1>6. CASE /\ ~Give500(a) /\ CreateRow(a)
           /\ req[a].pc \in Writing /\ req'[a].plan = req[a].plan /\ req'[a].at = req[a].at + 1
           /\ req'[a].pc = "upsert"
  BY <1>4, <1>6 DEF CreateRow
<1> QED
  BY <1>2, <1>3, <1>5, <1>6, ToWriting

\* At first there is no request, and no app but one that an operator made.
LEMMA AtFirst == ASSUME Init
                 PROVE  /\ \A a \in Applies : req[a].pc = "idle" /\ Held(a) = <<>> /\ ~Active(a)
                        /\ \A s \in Slugs : Exists(s) => apps[s].service = "" /\ apps[s].mounts = {}
<1>1. \A a \in Applies : req[a] = Idle
  BY DEF Init
<1>2. Idle.pc = "idle"
  BY DEF Idle
<1>3. HandMadeApp.service = "" /\ HandMadeApp.mounts = {}
  BY DEF HandMadeApp
<1>4. ASSUME NEW s \in Slugs, Exists(s) PROVE apps[s].service = "" /\ apps[s].mounts = {}
  <2>1. apps[s] = HandMadeApp
    BY <1>4 DEF Init, Exists
  <2>2. apps[s].service = HandMadeApp.service /\ apps[s].mounts = HandMadeApp.mounts
    BY <2>1
  <2> QED
    BY <1>3, <2>2
<1>5. \A a \in Applies : req[a].pc = "idle"
  BY <1>1, <1>2
<1> QED
  BY <1>4, <1>5 DEF Held, Active

LEMMA NamesAlways == Spec => [](Base /\ OneActive /\ NamesUnclaimed)
<1>1. Init => Base /\ OneActive /\ NamesUnclaimed
  <2>1. Init => OneActive /\ NamesUnclaimed
    BY AtFirst DEF OneActive, NamesUnclaimed, Writing, Applied
  <2> QED
    BY <2>1, BaseStart
<1>2. Base /\ OneActive /\ NamesUnclaimed /\ [Next]_vars => (Base /\ OneActive /\ NamesUnclaimed)'
  BY BaseStep, OneActiveStep, NamesUnclaimedStep
<1> QED
  BY <1>1, <1>2, PTL DEF Spec

LEMMA AliasesUniqueStep ==
    ASSUME Base, NamesUnclaimed, AliasesUnique, [Next]_vars PROVE AliasesUnique'
<1> SUFFICES ASSUME ~conduct.overlap, NEW s \in Slugs, NEW t \in Slugs, Exists(s)', Exists(t)',
                    apps'[s].service # "", apps'[s].service = apps'[t].service
             PROVE  s = t
  BY ConductKept DEF AliasesUnique
<1>1. CASE \A u \in Slugs : Exists(u)' => Exists(u) /\ apps'[u].service = apps[u].service
  BY <1>1 DEF AliasesUnique
<1>2. ASSUME NEW a \in Applies, Upsert(a), ~Now(a).update, Now(a).slug \in Slugs,
             apps'[Now(a).slug].service = Now(a).name, \A u \in Slugs \ {Now(a).slug} : apps'[u] = apps[u]
      PROVE  s = t
  <2>1. req[a].pc = "upsert" /\ req[a].at \in DOMAIN req[a].plan
    BY <1>2, WritingIs DEF Upsert, Writing, Base
  <2>2. req[a].at \in ToCreate(a)
    BY <1>2, <2>1 DEF ToCreate, Now
  <2>3. \A u \in Slugs : Exists(u) /\ apps[u].service # "" => apps[u].service # Now(a).name
    BY <2>1, <2>2 DEF NamesUnclaimed, Now, Writing
  <2>4. CASE s # Now(a).slug /\ t # Now(a).slug
    BY <1>2, <2>4 DEF AliasesUnique, Exists
  <2>5. CASE s = Now(a).slug /\ t # s
    BY <1>2, <2>3, <2>5 DEF Exists
  <2>6. CASE t = Now(a).slug /\ t # s
    BY <1>2, <2>3, <2>6 DEF Exists
  <2> QED
    BY <2>4, <2>5, <2>6
<1> QED
  BY <1>1, <1>2, NamesStep

\* A service name is the alias of one app, as long as one apply at a time is
\* under way: the names that an apply is to give were nobody's when it was
\* planned, and nobody but it gives any.
THEOREM AliasesAreUnique == Spec => []AliasesUnique
<1>1. Init => AliasesUnique
  BY AtFirst DEF AliasesUnique
<1>2. Base /\ NamesUnclaimed /\ AliasesUnique /\ [Next]_vars => AliasesUnique'
  BY AliasesUniqueStep
<1> QED
  BY <1>1, <1>2, NamesAlways, PTL DEF Spec

----------------------------------------------------------------------------
(* The apps of an apply, and their volumes.                                *)

\* A deployment is created, as the last of its request's.
LEMMA Created ==
    ASSUME Base, NEW a \in Applies, CreateRow(a), ~Give500(a)
    PROVE  \E n \in 1..MaxRows :
              /\ rows[n] = NoRow /\ \A m \in 1..MaxRows : rows[m] # NoRow => m < n
              /\ rows' = [m \in 1..MaxRows |-> IF m = n THEN [app |-> req[a].app.id, status |-> "deploying", verdict |-> "none"]
                                               ELSE rows[m]]
              /\ req[a].at \in Nat \ {0} /\ DOMAIN Held(a) = 1..(req[a].at - 1) /\ DOMAIN Held(a)' = 1..req[a].at
              /\ Held(a)'[req[a].at] = [sp |-> Now(a), app |-> req[a].app, row |-> n]
              /\ \A i \in DOMAIN Held(a) : Held(a)'[i] = Held(a)[i]
<1> DEFINE r == req[a]
           q == req'[a]
<1>1. RequestOK(r) /\ r.pc \in Writing /\ r.pc # "idle"
  BY DEF Base, CreateRow, Writing, Applied
<1>2. r.at \in Nat \ {0} /\ DOMAIN r.items = 1..(r.at - 1)
  <2>1. r.at \in DOMAIN r.plan /\ DOMAIN r.plan = 1..Len(r.plan) /\ Len(r.plan) \in Nat
        /\ Len(r.items) = r.at - 1 /\ DOMAIN r.items = 1..Len(r.items)
    BY <1>1, WritingIs
  <2> QED
    BY <2>1
<1>3. PICK n \in 1..MaxRows :
         LET it == [sp |-> Now(a), app |-> r.app, row |-> n]
             items == Append(r.items, it)
         IN  /\ rows[n] = NoRow /\ \A m \in 1..MaxRows : rows[m] # NoRow => m < n
             /\ rows' = [m \in 1..MaxRows |-> IF m = n THEN [app |-> r.app.id, status |-> "deploying", verdict |-> "none"]
                                              ELSE rows[m]]
             /\ \/ q = [pc |-> "upsert", items |-> items, plan |-> r.plan,
                        project |-> r.project, at |-> r.at + 1, app |-> NoApp, left |-> {}, secret |-> {}]
                \/ q = [pc |-> "chain", items |-> items, at |-> 1, by |-> 0]
             /\ DOMAIN items = 1..r.at
             /\ items[r.at] = it /\ \A i \in DOMAIN r.items : items[i] = r.items[i]
  BY Creates
<1> DEFINE items == Append(r.items, [sp |-> Now(a), app |-> r.app, row |-> n])
<1>4. q.items = items /\ q.pc # "idle"
  <2>1. \/ q = [pc |-> "upsert", items |-> items, plan |-> r.plan,
                project |-> r.project, at |-> r.at + 1, app |-> NoApp, left |-> {}, secret |-> {}]
        \/ q = [pc |-> "chain", items |-> items, at |-> 1, by |-> 0]
    BY <1>3
  <2> HIDE DEF items, q
  <2> QED
    BY ONLY <2>1
<1>5. Held(a) = r.items /\ Held(a)' = items
  <2> HIDE DEF items
  <2> QED
    BY <1>1, <1>4 DEF Held
<1> QED
  BY <1>2, <1>3, <1>5

\* A request holds what it has created, until it is gone and after.
LEMMA HeldStep ==
    ASSUME Base, [Next]_vars, NEW a \in Applies
    PROVE  Held(a)' = Held(a) \/ (CreateRow(a) /\ ~Give500(a))
<1>1. CASE Begin(a) \/ ReadExisting(a) \/ ReadTaken(a)
  BY <1>1, Plans
<1>2. CASE StoreFails(a) \/ Return(a) \/ (Give500(a) /\ Handler(a))
  <2>1. req[a].pc # "idle"
    BY <1>2 DEF StoreFails, Return, Handler, ReadExisting, ReadTaken, Upsert, Declare, Recommend, ListEnv, WriteEnv, CreateRow
  <2> QED
    BY <1>2, <2>1, Stops
<1>3. CASE /\ Upsert(a) \/ Declare(a) \/ Recommend(a) \/ ListEnv(a) \/ WriteEnv(a)
           /\ ~Give500(a)
  <2>1. req[a].pc # "idle" /\ req'[a].pc # "idle" /\ SamePlace(a)
    BY <1>3, Handled DEF Writing, Applied
  <2> QED
    BY <2>1 DEF Held, SamePlace
<1>4. CASE Start(a) \/ CreateContainer(a)
  <2>1. /\ req[a].pc \in Deploying
        /\ \/ req'[a] = [pc |-> "pull", items |-> req[a].items, at |-> req[a].at, by |-> 0]
           \/ req'[a] = [pc |-> "probe", items |-> req[a].items, at |-> req[a].at, by |-> 0]
    BY <1>4, RollsOn
  <2>2. req'[a].pc # "idle" /\ req'[a].items = req[a].items
    BY ONLY <2>1
  <2> QED
    BY <2>1, <2>2 DEF Held, Deploying, Rolling
<1>5. CASE Reject(a) \/ Succeed(a) \/ Fail(a) \/ Abort(a)
  <2>1. /\ req[a].pc \in Deploying
        /\ \E by : req'[a] = [pc |-> "chain", items |-> req[a].items, at |-> req[a].at + 1, by |-> by]
    BY <1>5, Moved
  <2>2. req'[a].pc # "idle" /\ req'[a].items = req[a].items
    BY ONLY <2>1
  <2> QED
    BY <2>1, <2>2 DEF Held, Deploying, Rolling
<1>6. ASSUME NEW b \in Applies, b # a, Acts(b) PROVE Held(a)' = Held(a)
  BY <1>6, OthersStay DEF Held
<1>7. CASE Reboot
  <2>1. req'[a] = IF req[a].pc = "idle" THEN Idle ELSE [pc |-> "done", items |-> req[a].items, errored |-> FALSE]
    BY <1>7, Reboots DEF Ended
  <2> QED
    BY <2>1 DEF Held, Idle
<1>8. CASE Crash \/ UNCHANGED vars \/ \E s \in Slugs : DeleteApp(s) \/ PutEnv(s)
  BY <1>8 DEF Crash, vars, DeleteApp, PutEnv, Held
<1> QED
  BY <1>1, <1>2, <1>3, <1>4, <1>5, <1>6, <1>7, <1>8 DEF Next, Acts, Handler, Deploys

\* An app that is not deleted keeps its id.
LEMMA IdsStay ==
    ASSUME Base, [Next]_vars, ~conduct.careless, NEW s \in Slugs, Exists(s)
    PROVE  apps'[s].id = apps[s].id /\ Exists(s)'
<1>0. IsApp(apps[s])
  BY DEF Base, TypeOK
<1>1. CASE apps' = apps
  BY <1>1 DEF Exists
<1>2. CASE AppsEdited
  BY <1>2, EditedApps
<1>3. ASSUME NEW a \in Applies, Upsert(a), ~Give500(a) PROVE AppsEdited \/ apps'[s] = apps[s]
  BY <1>3, Upserts
<1>4. ASSUME NEW a \in Applies, Declare(a) \/ Recommend(a) \/ WriteEnv(a), ~Give500(a) PROVE AppsEdited
  BY <1>4, Declares, Recommends, Writes
<1>5. ASSUME NEW t \in Slugs, PutEnv(t) PROVE AppsEdited
  BY <1>5, Puts
<1>6. \A t \in Slugs : ~DeleteApp(t)
  BY DEF DeleteApp
<1>7. apps'[s] = apps[s] => apps'[s].id = apps[s].id /\ Exists(s)'
  BY DEF Exists
<1> QED
  BY <1>1, <1>2, <1>3, <1>4, <1>5, <1>6, <1>7, AppsStep

LEMMA StillThereStep == ASSUME Base, StillThere, [Next]_vars PROVE StillThere'
<1> SUFFICES ASSUME ~conduct.careless, NEW a \in Applies
             PROVE  /\ req'[a].pc \in Applied => apps'[Now(a)'.slug].id = req'[a].app.id
                    /\ \A i \in DOMAIN Held(a)' : apps'[Held(a)'[i].sp.slug].id = Held(a)'[i].app.id
  BY ConductKept DEF StillThere
<1>0. RequestOK(req[a])
  BY DEF Base
<1>1. ASSUME NEW i \in DOMAIN Held(a)
      PROVE  apps'[Held(a)[i].sp.slug].id = Held(a)[i].app.id
  <2>1. req[a].pc # "idle" /\ Held(a) = req[a].items
    BY <1>1, EmptyIs DEF Held
  <2>2. IsItem(Held(a)[i])
    BY <1>0, <1>1, <2>1 DEF RequestOK, AreItems
  <2>3. Held(a)[i].sp.slug \in Slugs /\ Held(a)[i].app.id # 0
    BY <2>2 DEF IsItem, IsPlanned, IsApp, Ids
  <2>4. apps[Held(a)[i].sp.slug].id = Held(a)[i].app.id
    BY <1>1 DEF StillThere
  <2>5. Exists(Held(a)[i].sp.slug)
    BY <2>3, <2>4 DEF Exists, NoApp
  <2> QED
    BY <2>3, <2>4, <2>5, IdsStay
<1>2. ASSUME req[a].pc \in Applied PROVE apps'[Now(a).slug].id = req[a].app.id
  <2>1. IsPlanned(Now(a)) /\ IsApp(req[a].app)
    BY <1>0, <1>2, WritingIs DEF Writing, Now
  <2>2. Now(a).slug \in Slugs /\ req[a].app.id # 0
    BY <2>1 DEF IsPlanned, IsApp, Ids
  <2>3. apps[Now(a).slug].id = req[a].app.id
    BY <1>2 DEF StillThere
  <2>4. Exists(Now(a).slug)
    BY <2>2, <2>3 DEF Exists, NoApp
  <2> QED
    BY <2>2, <2>3, <2>4, IdsStay
<1>3. ASSUME req'[a].pc \in Applied PROVE apps'[Now(a)'.slug].id = req'[a].app.id
  <2>1. CASE req'[a] = req[a]
    BY <1>2, <1>3, <2>1 DEF Now
  <2>2. CASE ~Give500(a) /\ Upsert(a)
    <3>1. SamePlace(a) /\ req'[a].app = apps'[Now(a).slug]
      BY <2>2, Handled
    <3> QED
      BY <3>1 DEF SamePlace, Now
  <2>3. CASE ~Give500(a) /\ (Declare(a) \/ Recommend(a) \/ ListEnv(a) \/ WriteEnv(a))
    <3>1. SamePlace(a) /\ req'[a].app.id = req[a].app.id
      BY <2>3, Handled
    <3>2. req[a].pc \in Applied
      BY <2>3 DEF Declare, Recommend, ListEnv, WriteEnv, Applied
    <3> QED
      BY <1>2, <3>1, <3>2 DEF SamePlace, Now
  <2> QED
    BY <1>3, <2>1, <2>2, <2>3, ToWriting DEF Writing, Applied
<1>4. \A i \in DOMAIN Held(a)' : apps'[Held(a)'[i].sp.slug].id = Held(a)'[i].app.id
  <2>1. CASE Held(a)' = Held(a)
    BY <1>1, <2>1
  <2>2. CASE CreateRow(a) /\ ~Give500(a)
    <3>1. PICK n \in 1..MaxRows :
              /\ req[a].at \in Nat \ {0} /\ DOMAIN Held(a) = 1..(req[a].at - 1) /\ DOMAIN Held(a)' = 1..req[a].at
              /\ Held(a)'[req[a].at] = [sp |-> Now(a), app |-> req[a].app, row |-> n]
              /\ \A i \in DOMAIN Held(a) : Held(a)'[i] = Held(a)[i]
      BY <2>2, Created
    <3>2. req[a].pc \in Applied
      BY <2>2 DEF CreateRow, Applied
    <3>3. \A i \in DOMAIN Held(a)' : i = req[a].at \/ i \in DOMAIN Held(a)
      BY <3>1
    <3> QED
      BY <1>1, <1>2, <3>1, <3>2, <3>3
  <2> QED
    BY <2>1, <2>2, HeldStep
<1> QED
  BY <1>3, <1>4

\* The settings of an app change in two steps of an apply, but for its environment.
LEMMA SettingsStep ==
    ASSUME Base, [Next]_vars, NEW s \in Slugs, Exists(s)'
    PROVE  \/ Exists(s) /\ apps'[s].mounts = apps[s].mounts /\ apps'[s].strategy = apps[s].strategy
           \/ ~Exists(s) /\ apps'[s].mounts = {}
           \/ \E a \in Applies : ~Give500(a) /\ (Declare(a) \/ Recommend(a))
<1>1. CASE apps' = apps
  BY <1>1 DEF Exists
<1>2. CASE AppsEdited /\ SettingsKept
  BY <1>2 DEF AppsEdited, SettingsKept, Exists
<1>3. ASSUME NEW a \in Applies, Upsert(a), ~Give500(a)
      PROVE  \/ Exists(s) /\ apps'[s].mounts = apps[s].mounts /\ apps'[s].strategy = apps[s].strategy
             \/ ~Exists(s) /\ apps'[s].mounts = {}
  <2> DEFINE sp == Now(a)
  <2>1. /\ \A t \in Slugs \ {sp.slug} : apps'[t] = apps[t]
        /\ sp.update = Exists(sp.slug)
        /\ IF sp.update THEN AppsEdited /\ SettingsKept ELSE apps'[sp.slug].mounts = {}
    BY <1>3, Upserts
  <2> HIDE DEF sp
  <2>2. CASE sp.update
    BY <2>1, <2>2 DEF AppsEdited, SettingsKept, Exists
  <2>3. CASE ~sp.update /\ s = sp.slug
    BY <2>1, <2>3
  <2>4. CASE s # sp.slug
    BY <2>1, <2>4 DEF Exists
  <2> QED
    BY <2>2, <2>3, <2>4
<1>4. ASSUME NEW a \in Applies, WriteEnv(a), ~Give500(a)
      PROVE  Exists(s) /\ apps'[s].mounts = apps[s].mounts /\ apps'[s].strategy = apps[s].strategy
  <2>1. /\ AppsEdited
        /\ \A t \in Slugs : Exists(t) => apps'[t].mounts = apps[t].mounts /\ apps'[t].strategy = apps[t].strategy
    BY <1>4, Writes
  <2> QED
    BY <2>1 DEF AppsEdited, Exists
<1>5. ASSUME NEW t \in Slugs, PutEnv(t)
      PROVE  Exists(s) /\ apps'[s].mounts = apps[s].mounts /\ apps'[s].strategy = apps[s].strategy
  BY <1>5, Puts DEF AppsEdited, Exists
<1>6. ASSUME NEW t \in Slugs, DeleteApp(t) PROVE Exists(s) /\ apps'[s] = apps[s]
  <2>1. apps' = [apps EXCEPT ![t] = NoApp]
    BY <1>6 DEF DeleteApp
  <2> QED
    BY <2>1 DEF Base, TypeOK, Exists
<1> QED
  BY <1>1, <1>2, <1>3, <1>4, <1>5, <1>6, AppsStep

\* The services that an apply has written are not the one it writes.
LEMMA Elsewhere ==
    ASSUME Base, NEW a \in Applies, req[a].pc \in Writing, NEW i \in DOMAIN Held(a)
    PROVE  /\ Held(a)[i].sp.slug # Now(a).slug
           /\ Held(a)[i].sp.slug \in Slugs /\ Now(a).slug \in Slugs
<1> DEFINE r == req[a]
<1>1. /\ IsPlan(r.plan) /\ r.at \in DOMAIN r.plan /\ IsPlanned(r.plan[r.at])
      /\ Len(r.plan) \in Nat /\ DOMAIN r.plan = 1..Len(r.plan)
      /\ AreItems(r.items) /\ Len(r.items) = r.at - 1 /\ DOMAIN r.items = 1..Len(r.items)
      /\ \A j \in DOMAIN r.items : r.items[j].sp = r.plan[j]
  BY WritingIs DEF Base
<1>2. Held(a) = r.items
  BY DEF Held, Writing, Applied
<1>3. i \in DOMAIN r.plan /\ i # r.at /\ Held(a)[i].sp = r.plan[i]
  <2>1. i \in 1..Len(r.items) /\ Held(a)[i].sp = r.plan[i]
    BY <1>1, <1>2
  <2>2. Len(r.items) = r.at - 1 /\ r.at \in 1..Len(r.plan) /\ Len(r.plan) \in Nat /\ DOMAIN r.plan = 1..Len(r.plan)
    BY ONLY <1>1
  <2> HIDE DEF r
  <2> QED
    BY ONLY <2>1, <2>2
<1>4. IsPlanned(r.plan[i]) /\ r.plan[i].name # r.plan[r.at].name
  BY <1>1, <1>3 DEF IsPlan
<1> QED
  BY <1>1, <1>3, <1>4 DEF IsPlanned, Now

\* The apps that an apply holds are there.
LEMMA HeldThere ==
    ASSUME Base, StillThere, ~conduct.careless, NEW a \in Applies
    PROVE  /\ req[a].pc \in Applied => /\ Now(a).slug \in Slugs /\ Exists(Now(a).slug)
                                       /\ IsPlanned(Now(a)) /\ IsApp(req[a].app)
                                       /\ SlugsOf(req[a].app.id) = {Now(a).slug}
           /\ \A i \in DOMAIN Held(a) : /\ IsItem(Held(a)[i]) /\ Held(a)[i].sp.slug \in Slugs
                                        /\ Exists(Held(a)[i].sp.slug)
                                        /\ SlugsOf(Held(a)[i].app.id) = {Held(a)[i].sp.slug}
<1>1. RequestOK(req[a])
  BY DEF Base
<1>2. ASSUME NEW slug \in Slugs, NEW app, IsApp(app), apps[slug].id = app.id
      PROVE  Exists(slug) /\ SlugsOf(app.id) = {slug}
  <2>1. app.id # 0
    BY <1>2 DEF IsApp, Ids
  <2>2. Exists(slug)
    BY <1>2, <2>1 DEF Exists, NoApp
  <2> QED
    BY <1>2, <2>2 DEF SlugsOf, Base, AppsOK
<1>3. ASSUME req[a].pc \in Applied
      PROVE  /\ Now(a).slug \in Slugs /\ IsPlanned(Now(a)) /\ IsApp(req[a].app)
             /\ apps[Now(a).slug].id = req[a].app.id
  BY <1>1, <1>3, WritingIs DEF Writing, Now, IsPlanned, StillThere
<1>4. ASSUME NEW i \in DOMAIN Held(a)
      PROVE  /\ IsItem(Held(a)[i]) /\ Held(a)[i].sp.slug \in Slugs /\ IsApp(Held(a)[i].app)
             /\ apps[Held(a)[i].sp.slug].id = Held(a)[i].app.id
  <2>1. req[a].pc # "idle" /\ Held(a) = req[a].items
    BY <1>4, EmptyIs DEF Held
  <2>2. IsItem(Held(a)[i])
    BY <1>1, <1>4, <2>1 DEF RequestOK, AreItems
  <2> QED
    BY <1>4, <2>2 DEF IsItem, IsPlanned, StillThere
<1>5. ASSUME req[a].pc \in Applied PROVE Exists(Now(a).slug) /\ SlugsOf(req[a].app.id) = {Now(a).slug}
  BY <1>2, <1>3, <1>5
<1>6. ASSUME NEW i \in DOMAIN Held(a)
      PROVE  Exists(Held(a)[i].sp.slug) /\ SlugsOf(Held(a)[i].app.id) = {Held(a)[i].sp.slug}
  BY <1>2, <1>4
<1> QED
  BY <1>3, <1>4, <1>5, <1>6

\* UpsertVolume writes to the app of the service ...
LEMMA Declared ==
    ASSUME Base, StillThere, ~conduct.careless, NEW a \in Applies, Declare(a)
    PROVE  /\ ~Give500(a) /\ (\A s : s = Now(a).slug => Declaring(a, s)') /\ Now(a).slug \in Slugs /\ Exists(Now(a).slug)
           /\ \A s \in Slugs : Exists(s) => apps'[s].strategy = apps[s].strategy
           /\ \A s \in Slugs \ {Now(a).slug} : Exists(s) => apps'[s].mounts = apps[s].mounts
           /\ \A s \in Slugs : Exists(s) => apps[s].mounts \subseteq apps'[s].mounts
           /\ AppsEdited
<1> DEFINE sp == Now(a)
           app == req[a].app
<1>1. req[a].pc \in Applied /\ req[a].pc = "declare"
  BY DEF Declare, Applied
<1>2. sp.slug \in Slugs /\ Exists(sp.slug) /\ IsPlanned(sp) /\ SlugsOf(app.id) = {sp.slug}
  BY <1>1, HeldThere
<1>3. req'[a].pc # "done"
  <2>1. req'[a] = [req[a] EXCEPT !.left = req'[a].left]
    <3>1. PICK m \in req[a].left : Goes(a, [req[a] EXCEPT !.left = @ \ {m}])
      BY <1>2 DEF Declare, HasApp
    <3>2. req'[a] = [req[a] EXCEPT !.left = @ \ {m}]
      BY <3>1, GoesTo DEF Base
    <3>3. /\ req[a] = [pc |-> req[a].pc, items |-> req[a].items, plan |-> req[a].plan, project |-> req[a].project,
                       at |-> req[a].at, app |-> req[a].app, left |-> req[a].left, secret |-> req[a].secret]
      BY <1>1, WritingIs DEF Base, Writing
    <3> QED
      BY ONLY <3>2, <3>3
  <2>2. /\ req[a] = [pc |-> req[a].pc, items |-> req[a].items, plan |-> req[a].plan, project |-> req[a].project,
                     at |-> req[a].at, app |-> req[a].app, left |-> req[a].left, secret |-> req[a].secret]
    BY <1>1, WritingIs DEF Base, Writing
  <2>3. req'[a].pc = req[a].pc
    BY ONLY <2>1, <2>2
  <2> QED
    BY <1>1, <2>3
<1>4. ~Give500(a)
  BY <1>1, <1>3, Stops
<1>5. /\ AppsEdited
      /\ \E m \in sp.mounts : \A s \in Slugs : Exists(s) =>
            /\ apps'[s].mounts = IF apps[s].id = app.id THEN apps[s].mounts \cup {m} ELSE apps[s].mounts
            /\ apps'[s].strategy = apps[s].strategy
  BY <1>4, Declares
<1>6. \A s \in Slugs \ {sp.slug} : apps[s].id # app.id
  BY <1>2 DEF SlugsOf
<1>7. \A s : s = sp.slug => Declaring(a, s)'
  <2>1. req'[a].pc = "declare" /\ SamePlace(a)
    BY <1>4, Handled
  <2> QED
    BY <1>5, <2>1 DEF Declaring, SamePlace, Now
<1> HIDE DEF app
<1> QED
  BY <1>2, <1>4, <1>5, <1>6, <1>7

\* ... and UpdateAppDeployStrategy to the same.
LEMMA Recommended ==
    ASSUME Base, StillThere, StrategiesKnown, ~conduct.careless, ~conduct.overlap, NEW a \in Applies, Recommend(a)
    PROVE  /\ Now(a).slug \in Slugs /\ Exists(Now(a).slug) /\ ~Give500(a)
           /\ apps'[Now(a).slug].strategy = Strategy(Now(a), req[a].app)
           /\ apps'[Now(a).slug].strategy = IF Now(a).mounts # {} THEN "replace" ELSE apps[Now(a).slug].strategy
           /\ \A s \in Slugs \ {Now(a).slug} : Exists(s) => apps'[s].strategy = apps[s].strategy
           /\ \A s \in Slugs : Exists(s) => apps'[s].mounts = apps[s].mounts
           /\ AppsEdited
<1> DEFINE sp == Now(a)
           app == req[a].app
           strategy == Strategy(sp, app)
<1>1. req[a].pc \in Applied
  BY DEF Recommend, Applied
<1>2. sp.slug \in Slugs /\ Exists(sp.slug) /\ IsPlanned(sp) /\ SlugsOf(app.id) = {sp.slug}
  BY <1>1, HeldThere
<1>3. /\ AppsEdited
      /\ \A s \in Slugs : Exists(s) =>
            /\ apps'[s].mounts = apps[s].mounts
            /\ apps'[s].strategy = IF apps[s].id = app.id /\ strategy # app.strategy THEN strategy
                                   ELSE apps[s].strategy
  BY Recommends
<1>4. apps[sp.slug].strategy = app.strategy
  BY <1>1 DEF StrategiesKnown
<1>5. apps[sp.slug].id = app.id /\ \A s \in Slugs \ {sp.slug} : apps[s].id # app.id
  BY <1>2 DEF SlugsOf
<1>6. strategy = IF sp.mounts # {} THEN "replace" ELSE app.strategy
  BY <1>2 DEF IsPlanned, Strategy
<1>7. ~Give500(a)
  <2>1. req'[a].pc # "done"
    <3>1. PICK pc \in {"row", "listenv"} : \E x :
             req'[a] = [pc |-> pc, items |-> req[a].items, plan |-> req[a].plan, project |-> req[a].project,
                        at |-> req[a].at, app |-> x, left |-> req[a].left, secret |-> req[a].secret]
      BY Recommends
    <3>2. req'[a].pc = pc
      BY ONLY <3>1
    <3> QED
      BY <3>2
  <2> QED
    BY <1>1, <2>1, Stops DEF Applied
<1> HIDE DEF sp, app, strategy
<1>8. apps'[sp.slug].strategy = strategy /\ strategy = IF sp.mounts # {} THEN "replace" ELSE apps[sp.slug].strategy
  BY <1>2, <1>3, <1>4, <1>5, <1>6
<1>9. \A s \in Slugs \ {sp.slug} : Exists(s) => apps'[s].strategy = apps[s].strategy
  BY <1>3, <1>5
<1> QED
  BY <1>2, <1>3, <1>7, <1>8, <1>9 DEF sp, app, strategy

LEMMA StrategiesKnownStep ==
    ASSUME Base, OneActive, StillThere, StrategiesKnown, [Next]_vars PROVE StrategiesKnown'
<1> SUFFICES ASSUME ~conduct.overlap, ~conduct.careless, NEW a \in Applies
             PROVE  /\ req'[a].pc \in Applied => apps'[Now(a)'.slug].strategy = req'[a].app.strategy
                    /\ Active(a)' => \A i \in DOMAIN Held(a)' :
                          apps'[Held(a)'[i].sp.slug].strategy = Held(a)'[i].app.strategy
  BY ConductKept DEF StrategiesKnown
<1>1. ASSUME NEW s \in Slugs, Exists(s), \A b \in Applies : Recommend(b) => s # Now(b).slug
      PROVE  apps'[s].strategy = apps[s].strategy
  BY <1>1, IdsStay, SettingsStep, Declared, Recommended
<1>2. Active(a) => \A b \in Applies : Acts(b) => b = a
  BY Alone
<1>3. ASSUME req'[a].pc \in Applied PROVE apps'[Now(a)'.slug].strategy = req'[a].app.strategy
  <2>1. ASSUME req[a].pc \in Applied, \A b \in Applies : ~Recommend(b)
        PROVE  apps'[Now(a).slug].strategy = req[a].app.strategy
    <3>1. Now(a).slug \in Slugs /\ Exists(Now(a).slug)
      BY <2>1, HeldThere
    <3> QED
      BY <1>1, <2>1, <3>1 DEF StrategiesKnown
  <2>2. CASE req'[a] = req[a] /\ ~Acts(a)
    <3>1. Active(a) /\ Now(a)' = Now(a)
      BY <1>3, <2>2 DEF Active, Applied, Now
    <3>2. \A b \in Applies : ~Recommend(b)
      BY <1>2, <2>2, <3>1 DEF Acts, Handler
    <3> QED
      BY <1>3, <2>1, <2>2, <3>1, <3>2
  <2>3. CASE ~Give500(a) /\ Upsert(a)
    <3>1. SamePlace(a) /\ req'[a].app = apps'[Now(a).slug]
      BY <2>3, Handled
    <3> QED
      BY <3>1 DEF SamePlace, Now
  <2>4. CASE ~Give500(a) /\ Recommend(a)
    <3>1. SamePlace(a) /\ req'[a].app.strategy = Strategy(Now(a), req[a].app)
      BY <2>4, Handled
    <3> QED
      BY <2>4, <3>1, Recommended DEF SamePlace, Now
  <2>5. CASE ~Give500(a) /\ (Declare(a) \/ ListEnv(a) \/ WriteEnv(a)) /\ ~Recommend(a)
    <3>1. SamePlace(a) /\ req'[a].app = req[a].app
      BY <2>5, Handled
    <3>2. Active(a) /\ req[a].pc \in Applied
      BY <2>5 DEF ListEnv, WriteEnv, Declare, Active, Applied
    <3>3. \A b \in Applies : ~Recommend(b)
      BY <1>2, <2>5, <3>2 DEF Acts, Handler
    <3> QED
      BY <2>1, <3>1, <3>2, <3>3 DEF SamePlace, Now
  <2> QED
    BY <1>3, <2>2, <2>3, <2>4, <2>5, ToWriting DEF Writing, Applied
<1>4. ASSUME Active(a)', NEW i \in DOMAIN Held(a)'
      PROVE  apps'[Held(a)'[i].sp.slug].strategy = Held(a)'[i].app.strategy
  <2>1. CASE Begin(a)
    BY <1>4, <2>1, Plans, EmptyIs
  <2>2. CASE CreateRow(a) /\ ~Give500(a)
    <3>1. PICK n \in 1..MaxRows :
              /\ req[a].at \in Nat \ {0} /\ DOMAIN Held(a) = 1..(req[a].at - 1) /\ DOMAIN Held(a)' = 1..req[a].at
              /\ Held(a)'[req[a].at] = [sp |-> Now(a), app |-> req[a].app, row |-> n]
              /\ \A j \in DOMAIN Held(a) : Held(a)'[j] = Held(a)[j]
      BY <2>2, Created
    <3>2. apps' = apps /\ req[a].pc \in Applied /\ Active(a)
      BY <2>2 DEF CreateRow, Applied, Active
    <3>3. CASE i = req[a].at
      <4>1. Held(a)'[i].sp = Now(a) /\ Held(a)'[i].app = req[a].app
        BY <3>1, <3>3
      <4> QED
        BY <3>2, <4>1 DEF StrategiesKnown
    <3>4. CASE i \in DOMAIN Held(a)
      <4>1. Held(a)'[i] = Held(a)[i]
        BY <3>1, <3>4
      <4> QED
        BY <3>2, <3>4, <4>1 DEF StrategiesKnown
    <3> QED
      BY <1>4, <3>1, <3>3, <3>4
  <2>3. CASE Held(a)' = Held(a) /\ ~Begin(a)
    <3> DEFINE slug == Held(a)[i].sp.slug
    <3>1. Active(a) /\ i \in DOMAIN Held(a)
      BY <1>4, <2>3, Begun
    <3>2. slug \in Slugs /\ Exists(slug)
      BY <3>1, HeldThere
    <3>3. ASSUME NEW b \in Applies, Recommend(b) PROVE slug # Now(b).slug
      <4>1. b = a
        BY <1>2, <3>1, <3>3 DEF Acts, Handler
      <4> QED
        BY <3>1, <3>3, <4>1, Elsewhere DEF Recommend, Writing, Applied
    <3>4. apps'[slug].strategy = apps[slug].strategy
      BY <1>1, <3>2, <3>3
    <3> QED
      BY <2>3, <3>1, <3>4 DEF StrategiesKnown
  <2> QED
    BY <2>1, <2>2, <2>3, HeldStep
<1> QED
  BY <1>3, <1>4

\* Without a failure, what an apply is about to say of a volume it says.
LEMMA DeclaringStep ==
    ASSUME Base, StillThere, StrategiesKnown, DirsHeld, [Next]_vars,
           ~conduct.overlap, ~conduct.careless, ~conduct.faults, ~conduct.crash,
           NEW a \in Applies, NEW s \in Slugs, Declaring(a, s)
    PROVE  Declaring(a, s)' \/ apps'[s].strategy = "replace"
<1>1. req[a].pc = "declare" /\ s = Now(a).slug /\ Now(a).mounts # {}
  BY DEF Declaring
<1>2. CASE req'[a] = req[a]
  BY <1>1, <1>2 DEF Declaring, Now
<1>3. CASE Acts(a)
  <2>1. Declare(a) \/ Recommend(a)
    BY <1>1, <1>3 DEF Acts, Begin, StoreFails, Handler, ReadExisting, ReadTaken, Upsert, ListEnv, WriteEnv, CreateRow,
         Deploys, Reject, Start, IsNext, CreateContainer, Succeed, Fail, Abort, Return
  <2> QED
    BY <1>1, <2>1, Declared, Recommended
<1>4. ASSUME NEW b \in Applies, b # a, Acts(b) PROVE req'[a] = req[a]
  BY <1>4, OthersStay
<1>5. ~Reboot
  BY DEF Reboot, DirsHeld
<1>6. CASE Crash \/ UNCHANGED vars \/ \E t \in Slugs : DeleteApp(t) \/ PutEnv(t)
  <2>1. req' = req
    BY <1>6 DEF Crash, vars, DeleteApp, PutEnv
  <2> QED
    BY <1>2, <2>1
<1> QED
  BY <1>2, <1>3, <1>4, <1>5, <1>6 DEF Next, Acts

LEMMA VolumesReplacedStep ==
    ASSUME Base, OneActive, StillThere, StrategiesKnown, DirsHeld, VolumesReplaced, [Next]_vars
    PROVE  VolumesReplaced'
<1> SUFFICES ASSUME ~conduct.overlap, ~conduct.careless, ~conduct.faults, ~conduct.crash,
                    NEW s \in Slugs, Volumed(s)'
             PROVE  apps'[s].strategy = "replace" \/ \E a \in Applies : Declaring(a, s)'
  BY ConductKept DEF VolumesReplaced
<1>1. Exists(s)' /\ apps'[s].mounts # {}
  BY DEF Volumed
<1>2. CASE Exists(s) /\ apps'[s].mounts = apps[s].mounts /\ apps'[s].strategy = apps[s].strategy
  <2>1. Volumed(s)
    BY <1>1, <1>2 DEF Volumed
  <2> QED
    BY <1>2, <2>1, DeclaringStep DEF VolumesReplaced
<1>3. ASSUME NEW a \in Applies, Declare(a)
      PROVE  apps'[s].strategy = "replace" \/ \E b \in Applies : Declaring(b, s)'
  <2>1. Exists(s)
    BY <1>1, <1>3, Declared DEF AppsEdited, Exists
  <2>2. CASE s = Now(a).slug
    BY <1>3, <2>2, Declared
  <2>3. CASE s # Now(a).slug
    BY <1>2, <1>3, <2>1, <2>3, Declared
  <2> QED
    BY <2>2, <2>3
<1>4. ASSUME NEW a \in Applies, Recommend(a)
      PROVE  apps'[s].strategy = "replace" \/ \E b \in Applies : Declaring(b, s)'
  <2>1. Exists(s)
    BY <1>1, <1>4, Recommended DEF AppsEdited, Exists
  <2>2. CASE s = Now(a).slug
    BY <1>2, <1>4, <2>1, <2>2, Recommended
  <2>3. CASE s # Now(a).slug
    BY <1>2, <1>4, <2>1, <2>3, Recommended
  <2> QED
    BY <2>2, <2>3
<1> QED
  BY <1>1, <1>2, <1>3, <1>4, SettingsStep

\* Containers are created by one action, the others only remove some.
LEMMA ContStep ==
    ASSUME Base, [Next]_vars, NEW s \in Slugs
    PROVE  cont'[s] \subseteq cont[s] \/ \E a \in Applies : CreateContainer(a)
<1>0. cont = [t \in Slugs |-> cont[t]]
  BY DEF Base, TypeOK
<1>1. ASSUME NEW a \in Applies, Acts(a), ~CreateContainer(a) PROVE cont'[s] \subseteq cont[s]
  <2>1. CASE Succeed(a)
    BY <1>0, <2>1 DEF Succeed
  <2>2. CASE Fail(a)
    <3>1. PICK left \in SUBSET cont[Item(a).sp.slug] : cont' = [cont EXCEPT ![Item(a).sp.slug] = left]
      BY <2>2, Fails DEF Others
    <3> QED
      BY <1>0, <3>1
  <2>3. CASE ~Succeed(a) /\ ~Fail(a)
    BY <1>1, <2>3 DEF Acts, Begin, Handler, ReadExisting, ReadTaken, Upsert, Declare, Recommend, ListEnv, WriteEnv, CreateRow,
                      StoreFails, Deploys, Reject, Start, IsNext, Abort, Return
  <2> QED
    BY <2>1, <2>2, <2>3
<1>2. ASSUME NEW t \in Slugs, DeleteApp(t) \/ PutEnv(t) PROVE cont'[s] \subseteq cont[s]
  BY <1>0, <1>2 DEF DeleteApp, PutEnv
<1>3. CASE Reboot
  BY <1>3, Reboots
<1>4. CASE Crash \/ UNCHANGED vars
  BY <1>4 DEF Crash, vars
<1> QED
  BY <1>1, <1>2, <1>3, <1>4 DEF Next, Acts

\* The new container of a service, and what it is beside.
LEMMA Contained ==
    ASSUME Base, NEW a \in Applies, CreateContainer(a)
    PROVE  LET it == Item(a)
               new == [row |-> it.row, mounts |-> UNION {apps[s].mounts : s \in SlugsOf(it.app.id)}]
           IN  /\ it.sp.slug \in Slugs /\ IsItem(it) /\ req[a].at \in DOMAIN Held(a) /\ it = Held(a)[req[a].at]
               /\ Active(a) /\ req[a].pc = "pull" /\ req'[a].pc = "probe" /\ req'[a].at = req[a].at
               /\ \A s \in Slugs : s # it.sp.slug => cont'[s] = cont[s]
               /\ cont'[it.sp.slug] = (IF it.app.strategy = "replace" THEN {} ELSE cont[it.sp.slug]) \cup {new}
<1> DEFINE it == Item(a)
           new == [row |-> it.row, mounts |-> UNION {apps[s].mounts : s \in SlugsOf(it.app.id)}]
<1>1. req[a].pc = "pull" /\ req[a].pc \in Rolling /\ Active(a)
  BY DEF CreateContainer, Rolling, Active
<1>2. IsItem(it) /\ req[a].at \in DOMAIN Held(a) /\ it = Held(a)[req[a].at]
  BY <1>1, RollingIs, AtItem
<1>3. it.sp.slug \in Slugs
  BY <1>2 DEF IsItem, IsPlanned
<1>4. cont' = [cont EXCEPT ![it.sp.slug] =
                  (IF it.app.strategy = "replace" THEN {} ELSE cont[it.sp.slug]) \cup {new}]
  BY DEF CreateContainer
<1>5. req'[a].pc = "probe" /\ req'[a].at = req[a].at
  <2>1. req'[a] = [pc |-> "probe", items |-> req[a].items, at |-> req[a].at, by |-> 0]
    BY <1>1, RollsOn DEF Start
  <2> QED
    BY ONLY <2>1
<1> HIDE DEF it, new
<1>6. /\ \A s \in Slugs : s # it.sp.slug => cont'[s] = cont[s]
      /\ cont'[it.sp.slug] = (IF it.app.strategy = "replace" THEN {} ELSE cont[it.sp.slug]) \cup {new}
  BY <1>3, <1>4 DEF Base, TypeOK
<1> QED
  BY <1>1, <1>2, <1>3, <1>5, <1>6 DEF it, new

----------------------------------------------------------------------------
(* The deployments of an apply. A step of an apply creates one, ends one,  *)
(* creates the container of one, or leaves the tables as they are.         *)

\* The step is one of a, and changes no other request.
Alone1(a) == life' = life /\ \A b \in Applies : b # a => req'[b] = req[b]

Creating(a) ==
    /\ Alone1(a) /\ cont' = cont /\ apps' = apps /\ req[a].pc = "row"
    /\ \/ req'[a].pc = "upsert"
       \/ req'[a].pc = "chain" /\ req'[a].at = 1 /\ req'[a].by = 0
    /\ \E n \in 1..MaxRows :
          /\ rows[n] = NoRow /\ \A m \in 1..MaxRows : rows[m] # NoRow => m < n
          /\ rows' = [m \in 1..MaxRows |-> IF m = n THEN [app |-> req[a].app.id, status |-> "deploying", verdict |-> "none"]
                                           ELSE rows[m]]
          /\ req[a].at \in Nat \ {0} /\ DOMAIN Held(a) = 1..(req[a].at - 1) /\ DOMAIN Held(a)' = 1..req[a].at
          /\ Held(a)'[req[a].at] = [sp |-> Now(a), app |-> req[a].app, row |-> n]
          /\ \A i \in DOMAIN Held(a) : Held(a)'[i] = Held(a)[i]

\* A row is asked to say how its rollout ended, and does unless the write fails.
Asked(n, verdict) ==
    \A m \in 1..MaxRows :
        IF rows[m] = NoRow THEN rows'[m] = NoRow
        ELSE /\ rows'[m] # NoRow /\ rows'[m].app = rows[m].app
             /\ IF m = n
                THEN /\ rows'[m].verdict = verdict
                     /\ rows'[m].status = verdict \/ (conduct.faults /\ rows'[m].status = "deploying")
                ELSE rows'[m] = rows[m]

Ending(a) ==
    LET at == req[a].at
        by == req[a].by
        slug == Held(a)[at].sp.slug
    IN  /\ Alone1(a) /\ Held(a)' = Held(a) /\ at \in DOMAIN Held(a)
        /\ req'[a].pc = "chain" /\ req'[a].at = at + 1
        /\ \A s \in Slugs : cont'[s] \subseteq cont[s] /\ (s # slug => cont'[s] = cont[s])
        /\ \E verdict \in {"healthy", "failed"} :
              /\ Asked(Row(a, at), verdict)
              /\ \/ /\ req[a].pc = "probe" /\ by = 0 /\ req'[a].by = 0 /\ verdict = "healthy"
                    /\ \A c \in cont'[slug] : c.row = Row(a, at)
                 \/ /\ req[a].pc \in Rolling /\ by = 0 /\ req'[a].by = at /\ verdict = "failed"
                    /\ \A c \in cont'[slug] : c.row # Row(a, at)
                 \/ req[a].pc = "chain" /\ by = 0 /\ req'[a].by = at /\ verdict = "failed"
                 \/ req[a].pc = "chain" /\ by # 0 /\ req'[a].by = by /\ verdict = "failed"

Containing(a) ==
    LET at == req[a].at
        it == Held(a)[at]
    IN  /\ Alone1(a) /\ Held(a)' = Held(a) /\ rows' = rows /\ apps' = apps
        /\ at \in DOMAIN Held(a) /\ req[a].by = 0 /\ req'[a].by = 0
        /\ req[a].pc = "pull" /\ req'[a].pc = "probe" /\ req'[a].at = at
        /\ \A s \in Slugs : s # it.sp.slug => cont'[s] = cont[s]
        /\ \E new : /\ new.row = Row(a, at) /\ cont'[it.sp.slug] \subseteq cont[it.sp.slug] \cup {new}
                    /\ it.app.strategy = "replace" => cont'[it.sp.slug] = {new}

Quiet(a) ==
    /\ Alone1(a) /\ Held(a)' = Held(a) /\ rows' = rows /\ cont' = cont
    /\ \/ /\ Held(a) = <<>> /\ req'[a].pc \notin Rolling
          /\ req'[a].pc = "chain" => req'[a].at = 1 /\ req'[a].by = 0
       \/ /\ req[a].pc \in Writing
          /\ req'[a].pc \in Writing \/ (req'[a].pc = "done" /\ req'[a].errored)
       \/ /\ req[a].pc = "chain" /\ \A i \in DOMAIN Held(a) : i < req[a].at
          /\ req'[a].pc = "done" /\ ~req'[a].errored
       \/ /\ req[a].pc = "chain" /\ req[a].at \in DOMAIN Held(a) /\ req[a].by = 0
          /\ req'[a].pc = "pull" /\ req'[a].at = req[a].at /\ req'[a].by = 0

\* The steps of the operator, and the crash.
Aside == /\ req' = req /\ rows' = rows /\ cont' = cont
         /\ life' = life \/ (life = "first" /\ life' = "down")

LEMMA IsAlone == ASSUME Base, NEW a \in Applies, Acts(a) PROVE Alone1(a)
BY OthersStay DEF Alone1

LEMMA IsCreating == ASSUME Base, NEW a \in Applies, CreateRow(a), ~Give500(a) PROVE Creating(a)
<1>1. Alone1(a)
  BY IsAlone DEF Acts, Handler
<1>2. cont' = cont /\ apps' = apps /\ req[a].pc = "row"
  BY DEF CreateRow
<1>3. \/ req'[a].pc = "upsert"
      \/ req'[a].pc = "chain" /\ req'[a].at = 1 /\ req'[a].by = 0
  BY Handled
<1> QED
  BY <1>1, <1>2, <1>3, Created DEF Creating

LEMMA IsEnding ==
    ASSUME Base, NEW a \in Applies, Reject(a) \/ Succeed(a) \/ Fail(a) \/ Abort(a) PROVE Ending(a)
<1> DEFINE r == req[a]
           it == Item(a)
<1>1. Alone1(a)
  BY IsAlone DEF Acts, Deploys
<1>2. r.pc \in Deploying /\ r.at <= Len(r.items)
  BY Moved
<1>3. IsItem(it) /\ r.at \in DOMAIN Held(a) /\ it = Held(a)[r.at]
  BY <1>2, AtItem
<1>4. it.row \in 1..MaxRows /\ it.sp.slug \in Slugs
  BY <1>3 DEF IsItem, IsPlanned
<1>5. ASSUME NEW by, Moves(a, by), by \in 0..r.at
      PROVE  Held(a)' = Held(a) /\ req'[a].pc = "chain" /\ req'[a].at = r.at + 1 /\ req'[a].by = by
  <2>1. req'[a] = [pc |-> "chain", items |-> r.items, at |-> r.at + 1, by |-> by]
    BY <1>2, <1>5, MovesOn
  <2>2. req'[a].pc = "chain" /\ req'[a].at = r.at + 1 /\ req'[a].by = by /\ req'[a].items = r.items
    BY ONLY <2>1
  <2> QED
    BY <1>2, <2>2 DEF Held, Deploying, Rolling
<1>6. r.by \in 0..r.at /\ 0 \in 0..r.at /\ r.at \in 0..r.at
  <2>1. r.at \in Nat /\ r.by \in 0..(r.at - 1)
    BY <1>2, AtItem
  <2> QED
    BY <2>1
<1>7. \A s \in Slugs : cont'[s] \subseteq cont[s] /\ (s # it.sp.slug => cont'[s] = cont[s])
  <2>1. CASE Reject(a) \/ Abort(a)
    BY <2>1 DEF Reject, Abort
  <2>2. CASE Succeed(a)
    <3>1. cont' = [cont EXCEPT ![it.sp.slug] = @ \ Others(it.sp.slug, it.row)]
      BY <2>2 DEF Succeed
    <3> HIDE DEF it
    <3> QED
      BY <1>4, <3>1 DEF Base, TypeOK
  <2>3. CASE Fail(a)
    <3>1. PICK left \in SUBSET Others(it.sp.slug, it.row) : cont' = [cont EXCEPT ![it.sp.slug] = left]
      BY <2>3, Fails
    <3> HIDE DEF it
    <3> QED
      BY <1>4, <3>1 DEF Base, TypeOK, Others
  <2> QED
    BY <2>1, <2>2, <2>3
<1>8. /\ Succeed(a) => \A c \in cont'[it.sp.slug] : c.row = it.row
      /\ Fail(a) => \A c \in cont'[it.sp.slug] : c.row # it.row
  <2>1. ASSUME Succeed(a) PROVE \A c \in cont'[it.sp.slug] : c.row = it.row
    <3>1. cont' = [cont EXCEPT ![it.sp.slug] = @ \ Others(it.sp.slug, it.row)]
      BY <2>1 DEF Succeed
    <3> HIDE DEF it
    <3> QED
      BY <1>4, <3>1 DEF Base, TypeOK, Others
  <2>2. ASSUME Fail(a) PROVE \A c \in cont'[it.sp.slug] : c.row # it.row
    <3>1. PICK left \in SUBSET Others(it.sp.slug, it.row) : cont' = [cont EXCEPT ![it.sp.slug] = left]
      BY <2>2, Fails
    <3> HIDE DEF it
    <3> QED
      BY <1>4, <3>1 DEF Base, TypeOK, Others
  <2> QED
    BY <2>1, <2>2
<1>9. ASSUME NEW verdict \in {"healthy", "failed"}, Finish(it.row, verdict) PROVE Asked(it.row, verdict)
  BY <1>4, <1>9, Finishes DEF Base, Asked
<1>10. /\ Succeed(a) => Finish(it.row, "healthy") /\ r.pc = "probe" /\ r.by = 0 /\ Moves(a, 0)
       /\ Fail(a) => Finish(it.row, "failed") /\ (r.pc \in Rolling \/ r.pc = "chain") /\ r.by = 0 /\ Moves(a, r.at)
       /\ Reject(a) => Finish(it.row, "failed") /\ r.pc = "chain" /\ r.by = 0 /\ Moves(a, r.at)
       /\ Abort(a) => Finish(it.row, "failed") /\ r.pc = "chain" /\ r.by # 0 /\ Moves(a, r.by)
  BY RollingIs DEF Succeed, Fail, Reject, IsNext, Abort, FailsAt, Rolling
<1>11. Row(a, r.at) = it.row
  BY <1>3 DEF Row
<1>12. ASSUME NEW by, NEW verdict \in {"healthy", "failed"}, Finish(it.row, verdict), Moves(a, by), by \in 0..r.at,
              \/ /\ r.pc = "probe" /\ r.by = 0 /\ by = 0 /\ verdict = "healthy"
                 /\ \A c \in cont'[it.sp.slug] : c.row = it.row
              \/ /\ r.pc \in Rolling /\ r.by = 0 /\ by = r.at /\ verdict = "failed"
                 /\ \A c \in cont'[it.sp.slug] : c.row # it.row
              \/ r.pc = "chain" /\ r.by = 0 /\ by = r.at /\ verdict = "failed"
              \/ r.pc = "chain" /\ r.by # 0 /\ by = r.by /\ verdict = "failed"
       PROVE  Ending(a)
  <2>1. Held(a)' = Held(a) /\ req'[a].pc = "chain" /\ req'[a].at = r.at + 1 /\ req'[a].by = by
    BY <1>5, <1>12
  <2>2. Asked(Row(a, req[a].at), verdict)
    BY <1>9, <1>11, <1>12
  <2> HIDE DEF it, r
  <2>3. it = Held(a)[req[a].at] /\ it.row = Row(a, req[a].at)
    BY <1>3, <1>11 DEF r
  <2>4. \/ /\ req[a].pc = "probe" /\ req[a].by = 0 /\ req'[a].by = 0 /\ verdict = "healthy"
           /\ \A c \in cont'[it.sp.slug] : c.row = Row(a, req[a].at)
        \/ /\ req[a].pc \in Rolling /\ req[a].by = 0 /\ req'[a].by = req[a].at /\ verdict = "failed"
           /\ \A c \in cont'[it.sp.slug] : c.row # Row(a, req[a].at)
        \/ req[a].pc = "chain" /\ req[a].by = 0 /\ req'[a].by = req[a].at /\ verdict = "failed"
        \/ req[a].pc = "chain" /\ req[a].by # 0 /\ req'[a].by = req[a].by /\ verdict = "failed"
    BY <1>12, <2>1, <2>3 DEF r
  <2> QED
    BY <1>1, <1>3, <1>7, <2>1, <2>2, <2>3, <2>4 DEF Ending, r
<1>13. ASSUME Succeed(a) PROVE Ending(a)
  BY <1>6, <1>8, <1>10, <1>12, <1>13
<1>14. ASSUME Fail(a) PROVE Ending(a)
  BY <1>6, <1>8, <1>10, <1>12, <1>14
<1>15. ASSUME Reject(a) \/ Abort(a) PROVE Ending(a)
  BY <1>6, <1>10, <1>12, <1>15
<1> QED
  BY <1>13, <1>14, <1>15

LEMMA IsContaining == ASSUME Base, NEW a \in Applies, CreateContainer(a) PROVE Containing(a)
<1> DEFINE it == Item(a)
           new == [row |-> it.row, mounts |-> UNION {apps[s].mounts : s \in SlugsOf(it.app.id)}]
<1>1. Alone1(a) /\ rows' = rows /\ apps' = apps
  BY IsAlone DEF Acts, Deploys, CreateContainer
<1>2. /\ it.sp.slug \in Slugs /\ req[a].at \in DOMAIN Held(a) /\ it = Held(a)[req[a].at]
      /\ req[a].pc = "pull" /\ req'[a].pc = "probe" /\ req'[a].at = req[a].at
      /\ \A s \in Slugs : s # it.sp.slug => cont'[s] = cont[s]
      /\ cont'[it.sp.slug] = (IF it.app.strategy = "replace" THEN {} ELSE cont[it.sp.slug]) \cup {new}
  BY Contained
<1>3. new.row = it.row /\ Row(a, req[a].at) = it.row
  BY <1>2 DEF Row
<1>4. /\ req[a].by = 0
      /\ req'[a] = [pc |-> "probe", items |-> req[a].items, at |-> req[a].at, by |-> 0]
  BY <1>2, RollsOn
<1>5. req'[a].by = 0 /\ req'[a].items = req[a].items
  BY ONLY <1>4
<1>6. Held(a)' = Held(a)
  BY <1>2, <1>5 DEF Held
<1>7. /\ cont'[it.sp.slug] \subseteq cont[it.sp.slug] \cup {new}
      /\ it.app.strategy = "replace" => cont'[it.sp.slug] = {new}
  <2> HIDE DEF new, it
  <2> QED
    BY <1>2
<1>8. it = Held(a)[req[a].at] /\ new.row = Row(a, req[a].at)
  BY <1>2, <1>3
<1>9. /\ req[a].at \in DOMAIN Held(a) /\ req[a].by = 0 /\ req'[a].by = 0
      /\ req[a].pc = "pull" /\ req'[a].pc = "probe" /\ req'[a].at = req[a].at
      /\ \A s \in Slugs : s # it.sp.slug => cont'[s] = cont[s]
  BY <1>2, <1>4, <1>5
<1> HIDE DEF new, it
<1> QED
  BY <1>1, <1>6, <1>7, <1>8, <1>9 DEF Containing

LEMMA IsQuiet ==
    ASSUME Base, NEW a \in Applies, Acts(a),
           ~(CreateRow(a) /\ ~Give500(a)), ~CreateContainer(a), ~(Reject(a) \/ Succeed(a) \/ Fail(a) \/ Abort(a))
    PROVE  Quiet(a)
<1>1. Alone1(a)
  BY IsAlone
<1>2. rows' = rows /\ cont' = cont
  <2>1. CASE CreateRow(a) /\ Give500(a)
    <3>1. req'[a].pc = "done"
      BY <2>1, Stops DEF CreateRow
    <3>2. cont' = cont
      BY <2>1 DEF CreateRow
    <3>3. rows' = rows
      <4> SUFFICES ASSUME rows' # rows PROVE FALSE
        OBVIOUS
      <4>1. \E items : \/ req'[a] = [pc |-> "upsert", items |-> items, plan |-> req[a].plan,
                                     project |-> req[a].project, at |-> req[a].at + 1, app |-> NoApp, left |-> {}, secret |-> {}]
                       \/ req'[a] = [pc |-> "chain", items |-> items, at |-> 1, by |-> 0]
        BY <2>1, RowCreated
      <4> QED
        BY ONLY <3>1, <4>1
    <3> QED
      BY <3>2, <3>3
  <2>2. CASE ~CreateRow(a)
    BY <2>2 DEF Acts, Begin, Handler, ReadExisting, ReadTaken, Upsert, Declare, Recommend, ListEnv, WriteEnv,
                StoreFails, Deploys, Start, Return
  <2> QED
    BY <2>1, <2>2
<1>3. CASE Begin(a) \/ ReadExisting(a) \/ ReadTaken(a)
  <2>1. /\ Held(a) = <<>> /\ Held(a)' = <<>>
        /\ \/ req'[a].pc \in Planning
           \/ req'[a] = [pc |-> "done", items |-> <<>>, errored |-> FALSE]
           \/ req'[a] = [pc |-> "chain", items |-> <<>>, at |-> 1, by |-> 0]
           \/ req'[a].pc = "upsert"
    BY <1>3, Plans
  <2>2. /\ req'[a].pc \in Planning \cup {"done", "chain", "upsert"}
        /\ req'[a].pc = "chain" => req'[a].at = 1 /\ req'[a].by = 0
    <3>1. req'[a].pc \in Planning => req'[a].pc # "chain"
      BY DEF Planning
    <3> QED
      BY ONLY <2>1, <3>1
  <2> QED
    BY <1>1, <1>2, <2>1, <2>2 DEF Quiet, Planning, Rolling
<1>4. CASE StoreFails(a) \/ (Give500(a) /\ Handler(a) /\ ~ReadExisting(a) /\ ~ReadTaken(a))
  <2>1. req[a].pc \in {"existing", "taken"} \cup Writing
    BY <1>4 DEF StoreFails, Handler, Upsert, Declare, Recommend, ListEnv, WriteEnv, CreateRow, Writing, Applied
  <2>2. req'[a].pc = "done" /\ Held(a)' = Held(a)
    BY <1>4, <2>1, Stops DEF Writing, Applied
  <2>3. req'[a].errored
    <3>1. req'[a] = [pc |-> "done", items |-> req[a].items, errored |-> TRUE]
      BY <1>4, <2>1, GivesUp DEF StoreFails, Give500, Writing, Applied
    <3> QED
      BY <3>1
  <2>4. req[a].pc \in {"existing", "taken"} => Held(a) = <<>>
    BY DEF Base, RequestOK, Held, Planning
  <2> QED
    BY <1>1, <1>2, <2>1, <2>2, <2>3, <2>4 DEF Quiet, Rolling
<1>5. CASE /\ Upsert(a) \/ Declare(a) \/ Recommend(a) \/ ListEnv(a) \/ WriteEnv(a)
           /\ ~Give500(a)
  <2>1. req[a].pc \in Writing /\ req'[a].pc \in Writing /\ SamePlace(a)
    BY <1>5, Handled DEF Writing, Applied
  <2>2. Held(a)' = Held(a)
    BY <2>1 DEF Held, SamePlace, Writing, Applied
  <2> QED
    BY <1>1, <1>2, <2>1, <2>2 DEF Quiet
<1>6. CASE Return(a)
  <2>1. req[a].pc = "chain" /\ req[a].at > Len(req[a].items) /\ RequestOK(req[a]) /\ req[a].pc # "idle"
    BY <1>6 DEF Return, Base
  <2>2. req'[a] = [pc |-> "done", items |-> req[a].items, errored |-> FALSE]
    BY <1>6, <2>1, GivesUp DEF Return
  <2>3. Held(a)' = Held(a) /\ req'[a].pc = "done" /\ ~req'[a].errored
    BY <2>1, <2>2 DEF Held
  <2>4. DOMAIN Held(a) = 1..Len(req[a].items) /\ Len(req[a].items) \in Nat /\ req[a].at \in 1..(Len(req[a].items) + 1)
    BY <2>1, DeployingIs DEF Held, Deploying
  <2>5. \A i \in DOMAIN Held(a) : i < req[a].at
    BY <2>1, <2>4
  <2> QED
    BY <1>1, <1>2, <2>1, <2>3, <2>5 DEF Quiet
<1>7. CASE Start(a)
  <2>1. /\ req[a].pc = "chain" /\ req[a].at <= Len(req[a].items) /\ req[a].by = 0
    BY <1>7 DEF Start, IsNext
  <2>2. req'[a] = [pc |-> "pull", items |-> req[a].items, at |-> req[a].at, by |-> 0]
    BY <1>7, <2>1, RollsOn DEF CreateContainer
  <2>3. req'[a].pc = "pull" /\ req'[a].items = req[a].items /\ req'[a].at = req[a].at /\ req'[a].by = 0
    BY ONLY <2>2
  <2>4. req[a].at \in DOMAIN Held(a)
    BY <2>1, AtItem DEF Deploying
  <2>5. Held(a)' = Held(a)
    BY <2>1, <2>3 DEF Held
  <2> QED
    BY <1>1, <1>2, <2>1, <2>3, <2>4, <2>5 DEF Quiet
<1> QED
  BY <1>3, <1>4, <1>5, <1>6, <1>7 DEF Acts, Handler, Deploys

LEMMA StepCases ==
    ASSUME Base, [Next]_vars, ~conduct.careless
    PROVE  \/ \E a \in Applies : Creating(a) \/ Ending(a) \/ Containing(a) \/ Quiet(a)
           \/ Reboot
           \/ Aside
<1>1. ASSUME NEW a \in Applies, Acts(a) PROVE Creating(a) \/ Ending(a) \/ Containing(a) \/ Quiet(a)
  BY <1>1, IsCreating, IsEnding, IsContaining, IsQuiet
<1>2. ASSUME NEW s \in Slugs, PutEnv(s) PROVE Aside
  BY <1>2 DEF PutEnv, Aside
<1>3. \A s \in Slugs : ~DeleteApp(s)
  BY DEF DeleteApp
<1>4. Crash \/ UNCHANGED vars => Aside
  BY DEF Crash, Aside, vars
<1> QED
  BY <1>1, <1>2, <1>3, <1>4 DEF Next, Acts

LEMMA HeldItem == ASSUME Base, NEW a \in Applies, NEW i \in DOMAIN Held(a)
                  PROVE  /\ IsItem(Held(a)[i]) /\ Row(a, i) \in 1..MaxRows /\ Held(a)[i].sp.slug \in Slugs
                         /\ Held(a)[i].app.id # 0 /\ req[a].pc # "idle" /\ Held(a) = req[a].items
<1>1. req[a].pc # "idle" /\ Held(a) = req[a].items
  BY EmptyIs DEF Held
<1>2. IsItem(Held(a)[i])
  BY <1>1 DEF Base, RequestOK, AreItems
<1> QED
  BY <1>1, <1>2 DEF IsItem, IsPlanned, IsApp, Ids, Row

\* What a step does to one request.
LEMMA CasesOf ==
    ASSUME Base, [Next]_vars, ~conduct.careless, NEW a \in Applies
    PROVE  \/ Creating(a) \/ Ending(a) \/ Containing(a) \/ Quiet(a)
           \/ Reboot
           \/ req'[a] = req[a] /\ (life' = life \/ (life = "first" /\ life' = "down"))
<1>1. ASSUME NEW b \in Applies, b # a, Alone1(b) PROVE req'[a] = req[a] /\ life' = life
  BY <1>1 DEF Alone1
<1>2. \A b \in Applies : Creating(b) \/ Ending(b) \/ Containing(b) \/ Quiet(b) => Alone1(b)
  BY DEF Creating, Ending, Containing, Quiet
<1> QED
  BY <1>1, <1>2, StepCases DEF Aside

LEMMA HeldCases ==
    ASSUME Base, [Next]_vars, NEW a \in Applies
    PROVE  Held(a)' = Held(a) \/ Creating(a)
BY HeldStep, IsCreating

\* A deployment stays, and stays that of its app.
LEMMA RowsStay ==
    ASSUME Base, [Next]_vars, ~conduct.careless, NEW m \in 1..MaxRows, rows[m] # NoRow
    PROVE  rows'[m] # NoRow /\ rows'[m].app = rows[m].app
<1>1. CASE rows' = rows
  BY <1>1
<1>2. ASSUME NEW a \in Applies, Creating(a) PROVE rows'[m] = rows[m]
  BY <1>2 DEF Creating
<1>3. ASSUME NEW a \in Applies, Ending(a) PROVE rows'[m] # NoRow /\ rows'[m].app = rows[m].app
  BY <1>3 DEF Ending, Asked
<1>4. CASE Reboot
  <2>1. IsRow(rows[m]) /\ rows[m].app # 0
    BY DEF Base, TypeOK, IsRow, Ids
  <2>2. rows'[m] = [app |-> rows[m].app, status |-> "failed", verdict |-> "failed"] \/ rows'[m] = rows[m]
    BY <1>4, Reboots
  <2>3. rows'[m].app = rows[m].app
    BY <2>2
  <2> QED
    BY <2>1, <2>3 DEF NoRow
<1> QED
  BY <1>1, <1>2, <1>3, <1>4, StepCases DEF Containing, Quiet, Aside

\* What a container that was not there belongs to.
LEMMA OnlyNew ==
    ASSUME Base, NEW a \in Applies, Containing(a), NEW s \in Slugs, NEW c \in cont'[s], c \notin cont[s]
    PROVE  c.row = Row(a, req[a].at) /\ req[a].at \in DOMAIN Held(a) /\ s = Held(a)[req[a].at].sp.slug
BY DEF Containing

LEMMA RowsHeldStep == ASSUME Base, RowsHeld, [Next]_vars PROVE RowsHeld'
<1> SUFFICES ASSUME ~conduct.careless PROVE RowsHeld'
  BY ConductKept DEF RowsHeld
<1>1. ASSUME NEW a \in Applies, NEW i \in DOMAIN Held(a)
      PROVE  /\ Row(a, i) \in 1..MaxRows /\ rows[Row(a, i)] # NoRow
             /\ rows'[Row(a, i)] # NoRow /\ rows'[Row(a, i)].app = Held(a)[i].app.id
  BY <1>1, HeldItem, RowsStay DEF RowsHeld
<1>2. ASSUME NEW a \in Applies, Creating(a)
      PROVE  \E n \in 1..MaxRows :
                /\ rows[n] = NoRow /\ rows'[n] # NoRow /\ rows'[n].app = req[a].app.id
                /\ req[a].at \in DOMAIN Held(a)' /\ Held(a)'[req[a].at].row = n
                /\ Held(a)'[req[a].at].app = req[a].app
                /\ \A i \in DOMAIN Held(a)' : i = req[a].at \/ (i \in DOMAIN Held(a) /\ Held(a)'[i] = Held(a)[i])
  <2>1. PICK n \in 1..MaxRows :
          /\ rows[n] = NoRow
          /\ rows' = [m \in 1..MaxRows |-> IF m = n THEN [app |-> req[a].app.id, status |-> "deploying", verdict |-> "none"]
                                           ELSE rows[m]]
          /\ req[a].at \in Nat \ {0} /\ DOMAIN Held(a) = 1..(req[a].at - 1) /\ DOMAIN Held(a)' = 1..req[a].at
          /\ Held(a)'[req[a].at] = [sp |-> Now(a), app |-> req[a].app, row |-> n]
          /\ \A i \in DOMAIN Held(a) : Held(a)'[i] = Held(a)[i]
    BY <1>2 DEF Creating
  <2>2. req[a].app.id # 0
    <3>1. req[a].pc \in Applied
      BY <1>2 DEF Creating, Applied
    <3> QED
      BY <3>1 DEF Base, RequestOK, IsApp, Ids
  <2>3. rows'[n] = [app |-> req[a].app.id, status |-> "deploying", verdict |-> "none"]
    BY <2>1
  <2>4. rows'[n].app = req[a].app.id
    BY <2>3
  <2>5. rows'[n] # NoRow
    BY <2>2, <2>4 DEF NoRow
  <2>6. Held(a)'[req[a].at].row = n /\ Held(a)'[req[a].at].app = req[a].app
    BY <2>1
  <2>7. \A i \in DOMAIN Held(a)' : i = req[a].at \/ i \in DOMAIN Held(a)
    BY <2>1
  <2> QED
    BY <2>1, <2>4, <2>5, <2>6, <2>7
<1>3. ASSUME NEW a \in Applies, NEW i \in DOMAIN Held(a)'
      PROVE  rows'[Held(a)'[i].row] # NoRow /\ rows'[Held(a)'[i].row].app = Held(a)'[i].app.id
  <2>1. CASE Held(a)' = Held(a)
    BY <1>1, <1>3, <2>1 DEF Row
  <2>2. CASE Creating(a)
    BY <1>1, <1>2, <1>3, <2>2 DEF Row
  <2> QED
    BY <2>1, <2>2, HeldCases
<1>4. ASSUME NEW a \in Applies, NEW b \in Applies, NEW i \in DOMAIN Held(a)', NEW j \in DOMAIN Held(b)',
             Held(a)'[i].row = Held(b)'[j].row
      PROVE  a = b /\ i = j
  <2>1. ASSUME NEW c \in Applies, NEW d \in Applies, NEW k \in DOMAIN Held(c), NEW l \in DOMAIN Held(d),
               Held(c)[k].row = Held(d)[l].row
        PROVE  c = d /\ k = l
    BY <2>1 DEF RowsHeld, Row
  <2>2. ASSUME NEW c \in Applies, NEW d \in Applies, Creating(c), d # c PROVE Held(d)' = Held(d)
    BY <2>2 DEF Creating, Alone1, Held
  <2>3. CASE Held(a)' = Held(a) /\ Held(b)' = Held(b)
    BY <1>4, <2>1, <2>3
  <2>4. ASSUME NEW c \in Applies, NEW d \in Applies, Creating(c), NEW k \in DOMAIN Held(c)', NEW l \in DOMAIN Held(d)',
               Held(c)'[k].row = Held(d)'[l].row
        PROVE  c = d /\ k = l
    <3>1. PICK n \in 1..MaxRows :
                /\ rows[n] = NoRow
                /\ req[c].at \in DOMAIN Held(c)' /\ Held(c)'[req[c].at].row = n
                /\ \A m \in DOMAIN Held(c)' : m = req[c].at \/ (m \in DOMAIN Held(c) /\ Held(c)'[m] = Held(c)[m])
      BY <1>2, <2>4
    <3>2. \A e \in Applies : \A m \in DOMAIN Held(e) : Held(e)[m].row # n
      BY <1>1, <3>1 DEF Row
    <3>3. CASE d = c
      BY <2>1, <2>4, <3>1, <3>2, <3>3
    <3>4. CASE d # c
      BY <2>1, <2>2, <2>4, <3>1, <3>2, <3>4
    <3> QED
      BY <3>3, <3>4
  <2> QED
    BY <1>4, <2>3, <2>4, HeldCases
<1>5. ASSUME NEW s \in Slugs, NEW c \in cont'[s] PROVE rows'[c.row] # NoRow
  <2>1. CASE c \in cont[s]
    <3>1. c.row \in 1..MaxRows /\ rows[c.row] # NoRow
      BY <2>1 DEF RowsHeld, Base, TypeOK
    <3> QED
      BY <3>1, RowsStay
  <2>2. ASSUME NEW a \in Applies, Containing(a), c \notin cont[s] PROVE rows'[c.row] # NoRow
    <3>1. c.row = Row(a, req[a].at) /\ req[a].at \in DOMAIN Held(a)
      BY <1>5, <2>2, OnlyNew
    <3> QED
      BY <1>1, <3>1
  <2>3. (\A a \in Applies : ~Containing(a)) => cont'[s] \subseteq cont[s]
    BY StepCases, Reboots DEF Creating, Ending, Quiet, Aside
  <2> QED
    BY <1>5, <2>1, <2>2, <2>3
<1> QED
  BY <1>3, <1>4, <1>5 DEF RowsHeld, Row

\* A deployment ends with its rollout, or at a boot.
LEMMA RowIsKept ==
    ASSUME Base, RowsHeld, [Next]_vars, ~conduct.careless, ~Reboot, NEW a \in Applies, NEW i \in DOMAIN Held(a)
    PROVE  /\ i \in DOMAIN Held(a)' /\ Held(a)'[i] = Held(a)[i] /\ Row(a, i) \in 1..MaxRows /\ rows[Row(a, i)] # NoRow
           /\ rows'[Row(a, i)] = rows[Row(a, i)] \/ (Ending(a) /\ i = req[a].at)
<1>1. i \in DOMAIN Held(a)' /\ Held(a)'[i] = Held(a)[i]
  <2>1. CASE Creating(a)
    <3>1. /\ req[a].at \in Nat \ {0} /\ DOMAIN Held(a) = 1..(req[a].at - 1) /\ DOMAIN Held(a)' = 1..req[a].at
          /\ \A j \in DOMAIN Held(a) : Held(a)'[j] = Held(a)[j]
      BY <2>1 DEF Creating
    <3> QED
      BY <3>1
  <2> QED
    BY <2>1, HeldCases
<1>2. Row(a, i) \in 1..MaxRows /\ rows[Row(a, i)] # NoRow
  BY HeldItem DEF RowsHeld
<1>3. ASSUME NEW b \in Applies, Creating(b) PROVE rows'[Row(a, i)] = rows[Row(a, i)]
  BY <1>2, <1>3 DEF Creating
<1>4. ASSUME NEW b \in Applies, Ending(b), rows'[Row(a, i)] # rows[Row(a, i)] PROVE Ending(a) /\ i = req[a].at
  <2>1. req[b].at \in DOMAIN Held(b) /\ Row(a, i) = Row(b, req[b].at)
    BY <1>2, <1>4 DEF Ending, Asked
  <2> QED
    BY <1>4, <2>1 DEF RowsHeld
<1> QED
  BY <1>1, <1>2, <1>3, <1>4, StepCases DEF Containing, Quiet, Aside

LEMMA RowsSayStep == ASSUME Base, RowsSay, [Next]_vars PROVE RowsSay'
<1> SUFFICES ASSUME ~conduct.careless, NEW n \in 1..MaxRows, rows'[n] # NoRow
             PROVE  \/ rows'[n].status = "deploying" /\ (rows'[n].verdict = "none" \/ conduct.faults)
                    \/ rows'[n].status = rows'[n].verdict
  BY ConductKept DEF RowsSay
<1>1. CASE rows'[n] = rows[n]
  BY <1>1 DEF RowsSay
<1>2. ASSUME NEW a \in Applies, Creating(a), rows'[n] # rows[n]
      PROVE  rows'[n].status = "deploying" /\ rows'[n].verdict = "none"
  <2>1. \E m \in 1..MaxRows : rows' = [k \in 1..MaxRows |->
           IF k = m THEN [app |-> req[a].app.id, status |-> "deploying", verdict |-> "none"] ELSE rows[k]]
    BY <1>2 DEF Creating
  <2>2. rows'[n] = [app |-> req[a].app.id, status |-> "deploying", verdict |-> "none"]
    BY <1>2, <2>1
  <2> QED
    BY <2>2
<1>3. ASSUME NEW a \in Applies, Ending(a), rows'[n] # rows[n]
      PROVE  rows'[n].status = rows'[n].verdict \/ (conduct.faults /\ rows'[n].status = "deploying")
  BY <1>3 DEF Ending, Asked
<1>4. CASE Reboot /\ rows'[n] # rows[n]
  <2>1. rows'[n] = [app |-> rows[n].app, status |-> "failed", verdict |-> "failed"]
    BY <1>4, Reboots
  <2> QED
    BY <2>1
<1> QED
  BY <1>1, <1>2, <1>3, <1>4, StepCases DEF Containing, Quiet, Aside

\* The place of a request that deploys.
LEMMA ByIs == ASSUME Base, NEW a \in Applies, req[a].pc \in Deploying
              PROVE  /\ req[a].at \in Nat \ {0} /\ req[a].by \in Nat /\ req[a].by < req[a].at
                     /\ req[a].by # 0 => req[a].by \in DOMAIN Held(a)
                     /\ \E n \in Nat : DOMAIN Held(a) = 1..n /\ req[a].at <= n + 1
<1>1. RequestOK(req[a]) /\ Held(a) = req[a].items
  BY DEF Base, Held, Deploying, Rolling
<1>2. /\ Len(req[a].items) \in Nat /\ DOMAIN req[a].items = 1..Len(req[a].items)
      /\ req[a].at \in 1..(Len(req[a].items) + 1) /\ req[a].by \in 0..(req[a].at - 1)
  BY <1>1, DeployingIs DEF RequestOK
<1>3. /\ req[a].at \in Nat \ {0} /\ req[a].by \in Nat /\ req[a].by < req[a].at /\ req[a].at <= Len(req[a].items) + 1
      /\ req[a].by # 0 => req[a].by \in 1..Len(req[a].items)
  <2> DEFINE len == Len(req[a].items)
             at == req[a].at
             by == req[a].by
  <2>1. len \in Nat /\ at \in 1..(len + 1) /\ by \in 0..(at - 1)
    BY <1>2
  <2> HIDE DEF len, at, by
  <2>2. at \in Nat \ {0} /\ at <= len + 1
    BY <2>1
  <2>3. by \in Nat /\ by < at
    BY <2>1, <2>2
  <2>4. by # 0 => by \in 1..len
    BY <2>1, <2>2, <2>3
  <2> QED
    BY <2>2, <2>3, <2>4 DEF len, at, by
<1> QED
  BY <1>1, <1>2, <1>3

InOrderOf(a) ==
    /\ req[a].pc \in Writing => \A i \in DOMAIN Held(a) : Verdict(a, i) = "none"
    /\ req[a].pc \in Deploying => \A i \in DOMAIN Held(a) :
          /\ i >= req[a].at => Verdict(a, i) = "none"
          /\ i < req[a].at => Verdict(a, i) \in {"healthy", "failed"}
          /\ i < req[a].at /\ req[a].by = 0 => Verdict(a, i) = "healthy"
    /\ req[a].pc \in Deploying /\ req[a].by # 0 => Verdict(a, req[a].by) = "failed"
    /\ req[a].pc = "done" /\ ~req[a].errored /\ life # "second" =>
          \A i \in DOMAIN Held(a) : Verdict(a, i) \in {"healthy", "failed"}

LEMMA InOrderStep == ASSUME Base, RowsHeld, InOrder, [Next]_vars PROVE InOrder'
<1> SUFFICES ASSUME ~conduct.careless, NEW a \in Applies PROVE InOrderOf(a)'
  BY ConductKept DEF InOrder, InOrderOf
<1>0. InOrderOf(a)
  BY DEF InOrder, InOrderOf
<1>1. CASE Reboot
  <2>1. req'[a] = Idle \/ req'[a] = [pc |-> "done", items |-> req[a].items, errored |-> FALSE]
    BY <1>1, Reboots DEF Ended
  <2>2. req'[a].pc \in {"idle", "done"} /\ life' = "second"
    BY <1>1, <2>1, Reboots DEF Idle
  <2> QED
    BY <2>2 DEF InOrderOf, Writing, Applied, Deploying, Rolling
<1>2. ASSUME ~Reboot, NEW i \in DOMAIN Held(a)
      PROVE  /\ i \in DOMAIN Held(a)' /\ Held(a)'[i] = Held(a)[i] /\ Row(a, i)' = Row(a, i)
             /\ Verdict(a, i)' = Verdict(a, i) \/ (Ending(a) /\ i = req[a].at)
  <2>1. /\ i \in DOMAIN Held(a)' /\ Held(a)'[i] = Held(a)[i]
        /\ rows'[Row(a, i)].verdict = Verdict(a, i) \/ (Ending(a) /\ i = req[a].at)
    BY <1>2, RowIsKept DEF Verdict
  <2> QED
    BY <2>1 DEF Row, Verdict
<1>3. CASE ~Reboot /\ Creating(a)
  <2>1. PICK n \in 1..MaxRows :
          /\ rows' = [m \in 1..MaxRows |-> IF m = n THEN [app |-> req[a].app.id, status |-> "deploying", verdict |-> "none"]
                                           ELSE rows[m]]
          /\ req[a].at \in Nat \ {0} /\ DOMAIN Held(a) = 1..(req[a].at - 1) /\ DOMAIN Held(a)' = 1..req[a].at
          /\ Held(a)'[req[a].at] = [sp |-> Now(a), app |-> req[a].app, row |-> n]
    BY <1>3 DEF Creating
  <2>2. rows'[n] = [app |-> req[a].app.id, status |-> "deploying", verdict |-> "none"] /\ Held(a)'[req[a].at].row = n
    BY <2>1
  <2>3. rows'[Held(a)'[req[a].at].row].verdict = "none"
    BY <2>2
  <2>4. ASSUME NEW i \in DOMAIN Held(a)' PROVE Verdict(a, i)' = "none" /\ i \in Nat \ {0}
    <3>1. i \in Nat \ {0} /\ (i = req[a].at \/ i \in DOMAIN Held(a))
      BY <2>1
    <3>2. CASE i = req[a].at
      BY <2>3, <3>1, <3>2 DEF Verdict, Row
    <3>3. CASE i \in DOMAIN Held(a)
      <4>1. Verdict(a, i) = "none"
        BY <1>0, <1>3, <3>3 DEF InOrderOf, Creating, Writing, Applied
      <4>2. i # req[a].at
        BY <2>1, <3>3
      <4> QED
        BY <1>2, <1>3, <3>1, <3>3, <4>1, <4>2
    <3> QED
      BY <3>1, <3>2, <3>3
  <2>5. req'[a].pc = "upsert" \/ (req'[a].pc = "chain" /\ req'[a].at = 1 /\ req'[a].by = 0)
    BY <1>3 DEF Creating
  <2> QED
    BY <2>4, <2>5 DEF InOrderOf, Writing, Applied, Deploying, Rolling
<1>4. CASE ~Reboot /\ Ending(a)
  <2> DEFINE at == req[a].at
             by == req[a].by
  <2>1. req[a].pc \in Deploying
    BY <1>4 DEF Ending, Deploying, Rolling
  <2>2. /\ Held(a)' = Held(a) /\ at \in DOMAIN Held(a) /\ req'[a].pc = "chain" /\ req'[a].at = at + 1
        /\ \E verdict \in {"healthy", "failed"} :
              /\ Asked(Row(a, at), verdict)
              /\ \/ by = 0 /\ req'[a].by = 0 /\ verdict = "healthy"
                 \/ req'[a].by = at /\ verdict = "failed"
                 \/ by # 0 /\ req'[a].by = by /\ verdict = "failed"
    BY <1>4 DEF Ending
  <2>3. PICK verdict \in {"healthy", "failed"} :
              /\ Asked(Row(a, at), verdict)
              /\ \/ by = 0 /\ req'[a].by = 0 /\ verdict = "healthy"
                 \/ req'[a].by = at /\ verdict = "failed"
                 \/ by # 0 /\ req'[a].by = by /\ verdict = "failed"
    BY <2>2
  <2>4. Row(a, at) \in 1..MaxRows /\ rows[Row(a, at)] # NoRow
    BY <2>2, HeldItem DEF RowsHeld
  <2>5. ASSUME NEW i \in DOMAIN Held(a), i = at PROVE Verdict(a, i)' = verdict
    <3>1. rows'[Row(a, i)].verdict = verdict
      BY <2>3, <2>4, <2>5 DEF Asked
    <3> QED
      BY <2>2, <3>1 DEF Verdict, Row
  <2>6. ASSUME NEW i \in DOMAIN Held(a), i # at PROVE Verdict(a, i)' = Verdict(a, i)
    BY <1>2, <1>4, <2>6
  <2>7. /\ at \in Nat \ {0} /\ by \in Nat /\ by < at /\ (by # 0 => by \in DOMAIN Held(a))
        /\ \A i \in DOMAIN Held(a) : i \in Nat
    BY <2>1, ByIs
  <2> HIDE DEF at, by
  <2>8. /\ \A i \in DOMAIN Held(a) : /\ i >= at => Verdict(a, i) = "none"
                                     /\ i < at => Verdict(a, i) \in {"healthy", "failed"}
                                     /\ i < at /\ by = 0 => Verdict(a, i) = "healthy"
        /\ by # 0 => Verdict(a, by) = "failed"
    BY <1>0, <2>1 DEF InOrderOf, at, by
  <2>9. \A i \in DOMAIN Held(a) : /\ i >= at + 1 => Verdict(a, i)' = "none"
                                  /\ i < at + 1 => Verdict(a, i)' \in {"healthy", "failed"}
    BY <2>5, <2>6, <2>7, <2>8
  <2>10. ASSUME req'[a].by = 0, NEW i \in DOMAIN Held(a), i < at + 1 PROVE Verdict(a, i)' = "healthy"
    <3>1. by = 0 /\ verdict = "healthy"
      BY <2>3, <2>7, <2>10
    <3> QED
      BY <2>5, <2>6, <2>7, <2>8, <2>10, <3>1
  <2>11. ASSUME NEW i, i = req'[a].by, i # 0 PROVE Verdict(a, i)' = "failed"
    <3>1. (i = at \/ (i = by /\ by # 0)) /\ verdict = "failed"
      BY <2>3, <2>11
    <3> QED
      BY <2>2, <2>5, <2>6, <2>7, <2>8, <3>1
  <2>12. req'[a].by # 0 => Verdict(a, req[a].by)' = "failed"
    BY <2>11 DEF Verdict, Row
  <2> QED
    BY <2>2, <2>9, <2>10, <2>12 DEF InOrderOf, Writing, Applied
<1>5. CASE ~Reboot /\ (Containing(a) \/ Quiet(a) \/ req'[a] = req[a])
  <2>1. Held(a)' = Held(a)
    BY <1>5 DEF Containing, Quiet, Held
  <2>2. ASSUME NEW i \in DOMAIN Held(a) PROVE Verdict(a, i)' = Verdict(a, i)
    <3>1. ~(Ending(a) /\ i = req[a].at)
      <4> SUFFICES ASSUME Ending(a) PROVE FALSE
        OBVIOUS
      <4>1. /\ req[a].at \in DOMAIN Held(a) /\ req'[a].pc = "chain" /\ req'[a].at = req[a].at + 1
            /\ req[a].pc \in Deploying
        BY DEF Ending, Deploying, Rolling
      <4>2. req[a].at \in Nat
        BY <4>1, ByIs
      <4>3. req'[a].at # req[a].at
        BY <4>1, <4>2
      <4>4. CASE Containing(a)
        BY <4>3, <4>4 DEF Containing
      <4>5. CASE Quiet(a)
        BY <4>1, <4>3, <4>5 DEF Quiet, Writing, Applied, Deploying, Rolling
      <4> QED
        BY <1>5, <4>3, <4>4, <4>5
    <3> QED
      BY <1>2, <1>5, <3>1
  <2>3. CASE req'[a] = req[a]
    <3>1. life' # "second" => life # "second"
      <4>1. life' = life \/ (life = "first" /\ life' = "down") \/ Alone1(a)
        BY <1>5, CasesOf DEF Creating, Ending, Containing, Quiet
      <4> QED
        BY <4>1 DEF Alone1
    <3>2. ASSUME req[a].pc \in Deploying, NEW i, i = req[a].by, i # 0 PROVE Verdict(a, i)' = "failed"
      BY <1>0, <2>2, <3>2, ByIs DEF InOrderOf
    <3>3. req'[a].pc \in Deploying /\ req'[a].by # 0 => Verdict(a, req[a].by)' = "failed"
      BY <2>3, <3>2 DEF Verdict, Row
    <3> QED
      BY <1>0, <2>1, <2>2, <2>3, <3>1, <3>3 DEF InOrderOf
  <2>4. CASE Containing(a)
    <3>1. req[a].pc = "pull" /\ req'[a].pc = "probe" /\ req'[a].at = req[a].at /\ req[a].by = 0 /\ req'[a].by = 0
      BY <2>4 DEF Containing
    <3> QED
      BY <1>0, <2>1, <2>2, <3>1 DEF InOrderOf, Writing, Applied, Deploying, Rolling
  <2>5. CASE Quiet(a)
    <3>1. CASE /\ Held(a) = <<>> /\ req'[a].pc \notin Rolling
               /\ req'[a].pc = "chain" => req'[a].at = 1 /\ req'[a].by = 0
      BY <2>1, <3>1, EmptyIs DEF InOrderOf, Deploying
    <3>2. CASE /\ req[a].pc \in Writing
               /\ req'[a].pc \in Writing \/ (req'[a].pc = "done" /\ req'[a].errored)
      BY <1>0, <2>1, <2>2, <3>2 DEF InOrderOf, Writing, Applied, Deploying, Rolling
    <3>3. CASE /\ req[a].pc = "chain" /\ \A i \in DOMAIN Held(a) : i < req[a].at
               /\ req'[a].pc = "done" /\ ~req'[a].errored
      BY <1>0, <2>1, <2>2, <3>3 DEF InOrderOf, Writing, Applied, Deploying, Rolling
    <3>4. CASE /\ req[a].pc = "chain" /\ req[a].at \in DOMAIN Held(a) /\ req[a].by = 0
               /\ req'[a].pc = "pull" /\ req'[a].at = req[a].at /\ req'[a].by = 0
      BY <1>0, <2>1, <2>2, <3>4 DEF InOrderOf, Writing, Applied, Deploying, Rolling
    <3> QED
      BY <2>5, <3>1, <3>2, <3>3, <3>4 DEF Quiet
  <2> QED
    BY <1>5, <2>3, <2>4, <2>5
<1> QED
  BY <1>1, <1>3, <1>4, <1>5, CasesOf

LEMMA WaitingUntouchedStep ==
    ASSUME Base, RowsHeld, InOrder, WaitingUntouched, [Next]_vars PROVE WaitingUntouched'
<1> SUFFICES ASSUME ~conduct.careless, NEW a \in Applies, NEW i \in DOMAIN Held(a)'
             PROVE  \/ rows'[Held(a)'[i].row].verdict # "none"
                    \/ req'[a].pc = "probe" /\ req'[a].at = i
                    \/ req'[a].pc = "done" /\ ~req'[a].errored
                    \/ \A s \in Slugs : \A c \in cont'[s] : c.row # Held(a)'[i].row
  BY ConductKept DEF WaitingUntouched, Verdict, Row
<1>1. CASE Reboot
  <2>1. req'[a] = Idle \/ req'[a] = [pc |-> "done", items |-> req[a].items, errored |-> FALSE]
    BY <1>1, Reboots DEF Ended
  <2>2. CASE req'[a] = Idle
    BY <2>2, EmptyIs DEF Held, Idle
  <2>3. CASE req'[a] = [pc |-> "done", items |-> req[a].items, errored |-> FALSE]
    BY <2>3
  <2> QED
    BY <2>1, <2>2, <2>3
<1>2. ASSUME ~Reboot, Creating(a), i \notin DOMAIN Held(a)
      PROVE  \A s \in Slugs : \A c \in cont'[s] : c.row # Held(a)'[i].row
  <2>1. PICK n \in 1..MaxRows :
          /\ rows[n] = NoRow
          /\ req[a].at \in Nat \ {0} /\ DOMAIN Held(a) = 1..(req[a].at - 1) /\ DOMAIN Held(a)' = 1..req[a].at
          /\ Held(a)'[req[a].at] = [sp |-> Now(a), app |-> req[a].app, row |-> n]
    BY <1>2 DEF Creating
  <2>2. i = req[a].at
    BY <1>2, <2>1
  <2>3. Held(a)'[i].row = n
    BY <2>1, <2>2
  <2> QED
    BY <1>2, <2>1, <2>3 DEF Creating, RowsHeld
<1>3. ASSUME ~Reboot, i \in DOMAIN Held(a)
      PROVE  \/ rows'[Held(a)'[i].row].verdict # "none"
             \/ req'[a].pc = "probe" /\ req'[a].at = i
             \/ req'[a].pc = "done" /\ ~req'[a].errored
             \/ \A s \in Slugs : \A c \in cont'[s] : c.row # Held(a)'[i].row
  <2>1. /\ Held(a)'[i] = Held(a)[i] /\ Row(a, i) \in 1..MaxRows /\ rows[Row(a, i)] # NoRow
        /\ rows'[Row(a, i)] = rows[Row(a, i)] \/ (Ending(a) /\ i = req[a].at)
    BY <1>3, RowIsKept
  <2> SUFFICES ASSUME rows'[Row(a, i)].verdict = "none", ~(req'[a].pc = "probe" /\ req'[a].at = i),
                      ~(req'[a].pc = "done" /\ ~req'[a].errored)
               PROVE  \A s \in Slugs : \A c \in cont'[s] : c.row # Row(a, i)
    BY <2>1 DEF Row
  <2>2. ~(Ending(a) /\ i = req[a].at)
    <3> SUFFICES ASSUME Ending(a), i = req[a].at PROVE FALSE
      OBVIOUS
    <3>1. PICK verdict \in {"healthy", "failed"} : Asked(Row(a, i), verdict)
      BY DEF Ending
    <3> QED
      BY <2>1, <3>1 DEF Asked
  <2>3. Verdict(a, i) = "none"
    BY <2>1, <2>2 DEF Verdict
  <2>4. \A s \in Slugs : \A c \in cont[s] : c.row # Row(a, i)
    <3> SUFFICES ASSUME (req[a].pc = "probe" /\ req[a].at = i) \/ (req[a].pc = "done" /\ ~req[a].errored)
                 PROVE  FALSE
      BY <1>3, <2>3 DEF WaitingUntouched
    <3>1. CASE req[a].pc = "done"
      <4>1. Held(a) # <<>>
        BY <1>3, EmptyIs
      <4>2. req'[a] = req[a]
        BY <1>3, <3>1, <4>1, CasesOf DEF Creating, Ending, Containing, Quiet, Rolling, Writing, Applied
      <4> QED
        BY <3>1, <4>2
    <3>2. CASE req[a].pc = "probe" /\ req[a].at = i
      <4>1. Held(a) # <<>>
        BY <1>3, EmptyIs
      <4>2. req'[a] = req[a]
        BY <1>3, <2>2, <3>2, <4>1, CasesOf DEF Creating, Containing, Quiet, Writing, Applied
      <4> QED
        BY <3>2, <4>2
    <3> QED
      BY <3>1, <3>2
  <2>5. ASSUME NEW s \in Slugs, NEW c \in cont'[s], c.row = Row(a, i) PROVE FALSE
    <3>1. c \notin cont[s]
      BY <2>4, <2>5
    <3>2. PICK b \in Applies : Containing(b)
      BY <1>3, <2>5, <3>1, StepCases DEF Creating, Ending, Quiet, Aside
    <3>3. c.row = Row(b, req[b].at) /\ req[b].at \in DOMAIN Held(b)
      BY <2>5, <3>1, <3>2, OnlyNew
    <3>4. a = b /\ i = req[b].at
      <4>1. Row(a, i) = Row(b, req[b].at)
        BY <2>5, <3>3
      <4> QED
        BY <1>3, <3>3, <4>1 DEF RowsHeld
    <3> QED
      BY <3>2, <3>4 DEF Containing
  <2> QED
    BY <2>5
<1> QED
  BY <1>1, <1>2, <1>3, HeldCases

\* The directory of an upload goes with its request, unless the process dies.
LEMMA DirsStep ==
    ASSUME Base, NEW a \in Applies, Acts(a)
    PROVE  dirs' \subseteq dirs \cup {a} /\ (a \in dirs' => Active(a)' \/ (a \in dirs /\ ~Active(a)))
<1>1. CASE Begin(a)
  <2>0. req[a].pc = "idle"
    BY <1>1 DEF Begin
  <2>1. ~Active(a)
    BY <2>0 DEF Active
  <2>2. PICK u \in Uploads[conduct.uploads][a] :
           LET file == Parse(u.doc)
               project == IF u.query # "" THEN u.query ELSE u.doc.name
           IN  \/ dirs' = dirs
               \/ /\ Goes(a, [pc |-> "existing", items |-> <<>>, doc |-> u.doc, file |-> file,
                              project |-> project, dry |-> u.dry, existing |-> <<>>])
                  /\ dirs' = dirs \cup {a}
    BY <1>1 DEF Begin
  <2>3. ASSUME NEW doc, NEW file, NEW project, NEW dry,
               Goes(a, [pc |-> "existing", items |-> <<>>, doc |-> doc, file |-> file,
                        project |-> project, dry |-> dry, existing |-> <<>>])
        PROVE  Active(a)'
    BY <2>3, GoesTo DEF Base, Active
  <2> QED
    BY <2>1, <2>2, <2>3
<1>2. CASE ReadTaken(a) /\ dirs' = dirs \ {a}
  BY <1>2
<1>3. CASE ReadExisting(a) \/ (ReadTaken(a) /\ dirs' # dirs \ {a})
  <2>1. dirs' = dirs
    BY <1>3 DEF ReadExisting, ReadTaken
  <2>2. CASE ReadExisting(a)
    <3>1. req[a].pc = "existing" /\ \E x : req'[a] = [req[a] EXCEPT !.pc = "taken", !.existing = x]
      BY <2>2, GoesTo DEF ReadExisting, Base
    <3>2. req'[a].pc = "taken"
      BY <3>1 DEF Base, RequestOK, Planning
    <3> QED
      BY <2>1, <3>2 DEF Active
  <2>3. CASE ReadTaken(a) /\ dirs' # dirs \ {a}
    <3>0. ReadTaken(a) /\ dirs' # dirs \ {a}
      BY <1>3, <2>3
    <3>1. Goes(a, Orchestrate(<<>>)) \/ \E plan, project : Goes(a, Write(<<>>, plan, project, 1))
      BY <3>0 DEF ReadTaken
    <3>2. CASE Goes(a, Orchestrate(<<>>))
      BY <2>1, <3>2, GoesTo DEF Base, Orchestrate, Active
    <3>3. ASSUME NEW plan, NEW project, Goes(a, Write(<<>>, plan, project, 1)) PROVE Active(a)'
      <4>1. req'[a] = [pc |-> "upsert", items |-> <<>>, plan |-> plan, project |-> project, at |-> 1,
                       app |-> NoApp, left |-> {}, secret |-> {}]
        BY <3>3, GoesTo DEF Base, Write
      <4> QED
        BY <4>1 DEF Active
    <3> QED
      BY <2>1, <3>1, <3>2, <3>3
  <2> QED
    BY <1>3, <2>2, <2>3
<1>4. CASE StoreFails(a) \/ Return(a) \/ (Give500(a) /\ Handler(a))
  <2>1. dirs' = dirs \ {a}
    BY <1>4 DEF StoreFails, Return, Give500
  <2> QED
    BY <2>1
<1>5. CASE /\ Upsert(a) \/ Declare(a) \/ Recommend(a) \/ ListEnv(a) \/ WriteEnv(a) \/ CreateRow(a)
           /\ ~Give500(a)
  <2>1. dirs' = dirs
    BY <1>5 DEF Upsert, Declare, Recommend, ListEnv, WriteEnv, CreateRow
  <2>2. req'[a].pc \notin {"idle", "done"}
    BY <1>5, Handled
  <2> QED
    BY <2>1, <2>2 DEF Active
<1>6. CASE Reject(a) \/ Succeed(a) \/ Fail(a) \/ Abort(a) \/ Start(a) \/ CreateContainer(a)
  <2>1. dirs' = dirs
    BY <1>6 DEF Reject, Succeed, Fail, Abort, Start, CreateContainer
  <2>2. \/ req'[a] = [pc |-> "pull", items |-> req[a].items, at |-> req[a].at, by |-> 0]
        \/ req'[a] = [pc |-> "probe", items |-> req[a].items, at |-> req[a].at, by |-> 0]
        \/ \E by : req'[a] = [pc |-> "chain", items |-> req[a].items, at |-> req[a].at + 1, by |-> by]
    BY <1>6, Moved, RollsOn
  <2> DEFINE q == req'[a]
  <2> HIDE DEF q
  <2>3. q.pc \in {"pull", "probe", "chain"}
    <3>1. \E pc \in {"pull", "probe", "chain"} : \E items, at, by :
             q = [pc |-> pc, items |-> items, at |-> at, by |-> by]
      BY <2>2 DEF q
    <3> QED
      BY ONLY <3>1
  <2> QED
    BY <2>1, <2>3 DEF Active, q
<1> QED
  BY <1>1, <1>2, <1>3, <1>4, <1>5, <1>6 DEF Acts, Handler, Deploys

LEMMA DirsHeldStep == ASSUME Base, DirsHeld, [Next]_vars PROVE DirsHeld'
<1>1. ASSUME NEW a \in Applies, Acts(a) PROVE DirsHeld'
  <2>1. life' = life /\ conduct' = conduct /\ Up /\ \A b \in Applies : b # a => req'[b] = req[b]
    BY <1>1, OthersStay
  <2>2. dirs' \subseteq dirs \cup {a} /\ (a \in dirs' => Active(a)' \/ (a \in dirs /\ ~Active(a)))
    BY <1>1, DirsStep
  <2>3. dirs' \subseteq Applies
    BY <2>2 DEF Base, TypeOK
  <2>4. ASSUME ~conduct.crash, NEW b \in dirs' PROVE Active(b)'
    <3>1. CASE b = a
      BY <2>1, <2>2, <2>4, <3>1 DEF DirsHeld
    <3>2. CASE b # a
      <4>1. req'[b] = req[b] /\ b \in dirs /\ Active(b)
        BY <2>1, <2>2, <2>3, <2>4, <3>2 DEF DirsHeld
      <4> QED
        BY <4>1 DEF Active
    <3> QED
      BY <3>1, <3>2
  <2> QED
    BY <2>1, <2>4 DEF DirsHeld
<1>2. CASE Reboot
  BY <1>2, ConductKept DEF Reboot, DirsHeld, Up
<1>3. CASE Crash
  BY <1>3 DEF Crash, DirsHeld, Up
<1>4. CASE UNCHANGED vars \/ \E s \in Slugs : DeleteApp(s) \/ PutEnv(s)
  BY <1>4 DEF vars, DeleteApp, PutEnv, DirsHeld, Up, Active
<1> QED
  BY <1>1, <1>2, <1>3, <1>4 DEF Next, Acts

LEMMA LeftAdoptedStep ==
    ASSUME Base, StillThere, RowsSay, RowsHeld, InOrder, LeftAdopted, [Next]_vars PROVE LeftAdopted'
<1> SUFFICES ASSUME ~conduct.careless, ~conduct.faults, NEW a \in Applies, NEW i \in DOMAIN Held(a)', NEW it, it = Held(a)'[i],
                    req'[a].pc = "done", ~req'[a].errored, rows'[it.row].status = "deploying"
             PROVE  /\ Adopted(it)'
                    /\ \A b \in Applies : Active(b)' => \A j \in DOMAIN Held(b)' : Held(b)'[j].row > it.row
  BY ConductKept DEF LeftAdopted, Left, Row, Status
<1>1. Held(a)' = Held(a) /\ i \in DOMAIN Held(a) /\ it = Held(a)[i]
  BY HeldCases DEF Creating
<1>2. /\ it.row \in 1..MaxRows /\ it.row = Row(a, i) /\ rows[it.row] # NoRow /\ rows[it.row].app = it.app.id
      /\ it.app.id # 0 /\ it.sp.slug \in Slugs
  BY <1>1, HeldItem DEF RowsHeld, Row
<1>3. SlugsOf(it.app.id) = {it.sp.slug}
  BY <1>1, HeldThere
<1>4. CASE Reboot
  <2>1. life' = "second" /\ \A b \in Applies : ~Active(b)'
    <3>1. \A b \in Applies : req'[b] = Idle \/ req'[b] = [pc |-> "done", items |-> req[b].items, errored |-> FALSE]
      BY <1>4, Reboots DEF Ended
    <3>2. ASSUME NEW q, NEW items, q = Idle \/ q = [pc |-> "done", items |-> items, errored |-> FALSE]
          PROVE  q.pc \in {"idle", "done"}
      BY ONLY <3>2 DEF Idle
    <3>3. \A b \in Applies : req'[b].pc \in {"idle", "done"}
      BY <3>1, <3>2
    <3> QED
      BY <1>4, <3>3, Reboots DEF Active
  <2>2. it.row \in Unended /\ ~Stuck(it.row, cont')
    <3>1. \/ rows'[it.row] = rows[it.row]
          \/ rows'[it.row] = [app |-> rows[it.row].app, status |-> "failed", verdict |-> "failed"]
      BY <1>2, <1>4, Reboots
    <3>2. rows'[it.row] = rows[it.row]
      BY <3>1
    <3>3. it.row \in Unended
      BY <1>2, <3>2 DEF Unended
    <3> QED
      BY <1>4, <3>3, Reboots
  <2>4. \E c \in cont'[it.sp.slug] : c.row = it.row
    BY <1>2, <1>3, <2>2 DEF Stuck
  <2> QED
    BY <2>1, <2>4 DEF Adopted
<1>5. CASE ~Reboot
  <2>1. req'[a] = req[a] /\ (life = "second" => life' = "second")
    <3>1. ~Quiet(a)
      <4> SUFFICES ASSUME Quiet(a) PROVE FALSE
        OBVIOUS
      <4>1. req[a].pc = "chain" /\ i < req[a].at
        BY <1>1, EmptyIs DEF Quiet, Writing, Applied
      <4>2. Verdict(a, i) \in {"healthy", "failed"}
        BY <1>1, <4>1 DEF InOrder, Deploying
      <4>3. rows' = rows /\ rows[it.row].status = "deploying"
        BY DEF Quiet
      <4> QED
        BY <1>2, <4>2, <4>3 DEF RowsSay, Verdict
    <3> QED
      BY <1>5, <3>1, CasesOf DEF Creating, Ending, Containing
  <2>2. Left(a, i)
    <3>1. rows'[Row(a, i)] = rows[Row(a, i)]
      <4>1. ~Ending(a)
        BY DEF Ending
      <4> QED
        BY <1>1, <1>5, <4>1, RowIsKept
    <3> QED
      BY <1>2, <2>1, <3>1 DEF Left, Status
  <2>3. /\ Adopted(it)
        /\ \A b \in Applies : Active(b) => \A j \in DOMAIN Held(b) : Row(b, j) > it.row
    BY <1>1, <1>2, <2>2 DEF LeftAdopted
  <2>4. life' = "second"
    BY <2>1, <2>3 DEF Adopted
  <2>5. ASSUME NEW c \in cont[it.sp.slug], c \notin cont'[it.sp.slug]
        PROVE  \E n \in 1..MaxRows : n > it.row /\ rows'[n].app = it.app.id
    <3>1. PICK b \in Applies : Containing(b) \/ Ending(b)
      BY <1>2, <1>5, <2>5, StepCases DEF Creating, Quiet, Aside
    <3>2. req[b].at \in DOMAIN Held(b) /\ it.sp.slug = Held(b)[req[b].at].sp.slug /\ Active(b)
      <4>1. req[b].at \in DOMAIN Held(b) /\ it.sp.slug = Held(b)[req[b].at].sp.slug
        BY <1>2, <2>5, <3>1 DEF Containing, Ending
      <4>2. req[b].pc \in {"pull", "probe", "chain"}
        BY <3>1 DEF Containing, Ending, Rolling
      <4> QED
        BY <4>1, <4>2 DEF Active
    <3>3. ASSUME NEW j \in DOMAIN Held(b), it.sp.slug = Held(b)[j].sp.slug
          PROVE  /\ Row(b, j) \in 1..MaxRows /\ Row(b, j) > it.row
                 /\ rows'[Row(b, j)].app = it.app.id
      <4>1. Row(b, j) \in 1..MaxRows /\ rows[Row(b, j)] # NoRow /\ rows[Row(b, j)].app = Held(b)[j].app.id
        BY HeldItem DEF RowsHeld
      <4>2. Held(b)[j].app.id = it.app.id
        BY <1>1, <3>3 DEF StillThere
      <4> QED
        BY <2>3, <3>2, <4>1, <4>2, RowsStay
    <3> QED
      BY <3>2, <3>3
  <2>6. ASSUME NEW n \in 1..MaxRows, rows[n].app = it.app.id PROVE rows'[n].app = it.app.id
    <3>1. rows[n] # NoRow
      BY <1>2, <2>6 DEF NoRow
    <3> QED
      BY <2>6, <3>1, RowsStay
  <2>7. Adopted(it)'
    BY <2>3, <2>4, <2>5, <2>6 DEF Adopted
  <2>8. ASSUME NEW b \in Applies, Active(b)', NEW j \in DOMAIN Held(b)' PROVE Held(b)'[j].row > it.row
    <3>1. CASE ~Active(b)
      <4>1. Begin(b)
        BY <2>8, <3>1, Begun
      <4> QED
        BY <2>8, <4>1, Plans, EmptyIs
    <3>2. CASE Active(b) /\ Held(b)' = Held(b)
      BY <2>3, <2>8, <3>2 DEF Row
    <3>3. CASE Active(b) /\ Creating(b)
      <4>1. PICK n \in 1..MaxRows :
              /\ \A m \in 1..MaxRows : rows[m] # NoRow => m < n
              /\ req[b].at \in Nat \ {0} /\ DOMAIN Held(b) = 1..(req[b].at - 1) /\ DOMAIN Held(b)' = 1..req[b].at
              /\ Held(b)'[req[b].at] = [sp |-> Now(b), app |-> req[b].app, row |-> n]
              /\ \A k \in DOMAIN Held(b) : Held(b)'[k] = Held(b)[k]
        BY <3>3 DEF Creating
      <4>2. j = req[b].at \/ j \in DOMAIN Held(b)
        BY <2>8, <4>1
      <4>3. CASE j \in DOMAIN Held(b)
        BY <2>3, <3>3, <4>1, <4>3 DEF Row
      <4>4. CASE j = req[b].at
        <5>1. Held(b)'[j].row = n
          BY <4>1, <4>4
        <5>2. it.row < n /\ it.row \in Nat /\ n \in Nat
          BY <1>2, <4>1
        <5> QED
          BY <5>1, <5>2
      <4> QED
        BY <4>2, <4>3, <4>4
    <3> QED
      BY <3>1, <3>2, <3>3, HeldCases
  <2> QED
    BY <2>7, <2>8
<1> QED
  BY <1>4, <1>5

Settled == Base /\ StillThere /\ RowsSay /\ RowsHeld /\ InOrder /\ WaitingUntouched /\ LeftAdopted /\ DirsHeld

LEMMA SettledAlways == Spec => []Settled
<1>1. ASSUME Init PROVE Settled
  <2>1. \A a \in Applies : DOMAIN Held(a) = {} /\ req[a].pc = "idle"
    BY <1>1, AtFirst, EmptyIs
  <2>2. life = "first" /\ dirs = {} /\ (\A s \in Slugs : cont[s] = {}) /\ \A n \in 1..MaxRows : rows[n] = NoRow
    BY <1>1 DEF Init
  <2>3. StillThere /\ RowsSay /\ RowsHeld /\ InOrder /\ WaitingUntouched /\ LeftAdopted /\ DirsHeld
    BY <2>1, <2>2 DEF StillThere, RowsSay, RowsHeld, InOrder, WaitingUntouched, LeftAdopted, DirsHeld, Writing, Applied,
                      Deploying, Rolling
  <2> QED
    BY <1>1, <2>3, BaseStart DEF Settled
<1>2. ASSUME Settled, [Next]_vars PROVE Settled'
  BY <1>2, BaseStep, StillThereStep, RowsSayStep, RowsHeldStep, InOrderStep, WaitingUntouchedStep, LeftAdoptedStep, DirsHeldStep
     DEF Settled
<1> QED
  BY <1>1, <1>2, PTL DEF Spec

\* When a request has ended its directory is gone and its deployments have
\* ended, but for what the death of the process or an error of the store left;
\* what a death left in the state of being deployed is in a container that
\* outlived it, or has been followed by a later deployment of its app, and what
\* an error left is one whose outcome was written in vain.
THEOREM ApplyLeavesNothing == Spec => []EndedIsSettled
<1>1. ASSUME Settled PROVE EndedIsSettled
  <2> SUFFICES ASSUME Up, NEW a \in Applies, req[a].pc = "done"
               PROVE  /\ a \notin dirs \/ conduct.crash
                      /\ \A i \in DOMAIN Held(a) : \/ conduct.careless \/ req[a].errored
                                                   \/ rows[Held(a)[i].row].status # "deploying"
                                                   \/ Adopted(Held(a)[i])
                                                   \/ Unwritten(Held(a)[i].row)
    BY DEF EndedIsSettled
  <2>1. a \notin dirs \/ conduct.crash
    BY <1>1 DEF Settled, DirsHeld, Active
  <2>2. ASSUME NEW i \in DOMAIN Held(a), ~conduct.careless, ~req[a].errored, rows[Held(a)[i].row].status = "deploying"
        PROVE  Adopted(Held(a)[i]) \/ Unwritten(Held(a)[i].row)
    <3>1. CASE ~conduct.faults
      BY <1>1, <2>2, <3>1 DEF Settled, LeftAdopted, Left, Status, Row
    <3>2. CASE conduct.faults /\ life # "second"
      BY <1>1, <2>2, <3>2 DEF Settled, InOrder, Verdict, Row, Unwritten
    <3>3. CASE conduct.faults /\ life = "second"
      BY <3>3 DEF Unwritten
    <3> QED
      BY <3>1, <3>2, <3>3
  <2> QED
    BY <2>1, <2>2
<1> QED
  BY <1>1, SettledAlways, PTL

----------------------------------------------------------------------------
(* The volumes of an app are written by one container.                     *)

\* A deployment that has no verdict is deployed, or waits.
LEMMA WaitsIs ==
    ASSUME Settled, ~conduct.careless, NEW a \in Applies, NEW i \in DOMAIN Held(a), Verdict(a, i) = "none"
    PROVE  rows[Row(a, i)].status = "deploying"
<1>1. Row(a, i) \in 1..MaxRows /\ rows[Row(a, i)] # NoRow
  BY HeldItem DEF Settled, RowsHeld
<1>2. IsRow(rows[Row(a, i)])
  BY <1>1 DEF Settled, Base, TypeOK
<1> QED
  BY <1>1, <1>2 DEF Settled, RowsSay, Verdict, IsRow

\* An app keeps its volumes.
LEMMA MountsStay ==
    ASSUME Base, StillThere, StrategiesKnown, [Next]_vars, ~conduct.overlap, ~conduct.careless, NEW s \in Slugs, Exists(s)
    PROVE  Exists(s)' /\ apps[s].mounts \subseteq apps'[s].mounts
<1>1. Exists(s)'
  BY IdsStay
<1> QED
  BY <1>1, SettingsStep, Declared, Recommended

LEMMA MountsDeclaredStep ==
    ASSUME Base, StillThere, StrategiesKnown, MountsDeclared, [Next]_vars PROVE MountsDeclared'
<1> SUFFICES ASSUME ~conduct.overlap, ~conduct.careless, NEW s \in Slugs, NEW c \in cont'[s]
             PROVE  Exists(s)' /\ c.mounts \subseteq apps'[s].mounts
  BY ConductKept DEF MountsDeclared
<1>1. CASE c \in cont[s]
  BY <1>1, MountsStay DEF MountsDeclared
<1>2. ASSUME NEW a \in Applies, CreateContainer(a), c \notin cont[s]
      PROVE  Exists(s)' /\ c.mounts \subseteq apps'[s].mounts
  <2> DEFINE it == Item(a)
             new == [row |-> it.row, mounts |-> UNION {apps[t].mounts : t \in SlugsOf(it.app.id)}]
  <2>1. /\ req[a].at \in DOMAIN Held(a) /\ it = Held(a)[req[a].at]
        /\ \A t \in Slugs : t # it.sp.slug => cont'[t] = cont[t]
        /\ cont'[it.sp.slug] = (IF it.app.strategy = "replace" THEN {} ELSE cont[it.sp.slug]) \cup {new}
    BY <1>2, Contained
  <2>2. Exists(it.sp.slug) /\ SlugsOf(it.app.id) = {it.sp.slug}
    BY <2>1, HeldThere
  <2>3. new.mounts = apps[it.sp.slug].mounts
    BY <2>2
  <2> HIDE DEF new, it
  <2>4. s = it.sp.slug /\ c = new
    BY <1>2, <2>1
  <2> QED
    BY <2>2, <2>3, <2>4, MountsStay
<1> QED
  BY <1>1, <1>2, ContStep

\* What becomes of a probe.
LEMMA ProbeStays ==
    ASSUME Base, NEW a \in Applies, NEW b \in Applies, NEW s, Probes(b, s), Creating(a) \/ Containing(a) \/ Quiet(a)
    PROVE  b # a /\ Probes(b, s)' /\ Held(b)' = Held(b) /\ req'[b] = req[b]
<1>1. req[b].at \in DOMAIN Held(b)
  BY RollingIs, AtItem DEF Probes, Rolling
<1>2. b # a
  BY <1>1, EmptyIs DEF Probes, Creating, Containing, Quiet, Writing, Applied
<1>3. req'[b] = req[b]
  BY <1>2 DEF Creating, Containing, Quiet, Alone1
<1> QED
  BY <1>2, <1>3 DEF Probes, Held

LEMMA ServedIsHealthyStep ==
    ASSUME Settled, Settled', ServedIsHealthy, [Next]_vars PROVE ServedIsHealthy'
<1> SUFFICES ASSUME ~conduct.careless, ~conduct.faults, life' # "second", NEW s \in Slugs, NEW c \in cont'[s]
             PROVE  ServesHealthy(s, c)' \/ \E a \in Applies : Probes(a, s)' /\ c.row = Row(a, req[a].at)'
  BY ConductKept DEF ServedIsHealthy
<1>0. ~Reboot
  BY Reboots DEF Settled
<1>1. ASSUME c \in cont[s] PROVE ServesHealthy(s, c) \/ \E a \in Applies : Probes(a, s) /\ c.row = Row(a, req[a].at)
  <2>1. life # "second"
    BY <1>0, StepCases DEF Settled, Creating, Ending, Containing, Quiet, Aside, Alone1
  <2> QED
    BY <1>1, <2>1 DEF ServedIsHealthy
<1>2. ASSUME c \in cont[s], ServesHealthy(s, c), rows'[c.row] = rows[c.row] PROVE ServesHealthy(s, c)'
  <2>1. apps[s].id # 0
    <3>1. rows[c.row] # NoRow /\ c.row \in 1..MaxRows
      BY <1>2 DEF Settled, RowsHeld, Base, TypeOK
    <3> QED
      BY <1>2, <3>1 DEF ServesHealthy, Settled, Base, TypeOK, IsRow, Ids
  <2>2. apps'[s].id = apps[s].id
    BY <2>1, IdsStay DEF Settled, Exists, NoApp
  <2> QED
    BY <1>2, <2>2 DEF ServesHealthy
<1>3. ASSUME NEW a \in Applies, Creating(a)
      PROVE  ServesHealthy(s, c)' \/ \E b \in Applies : Probes(b, s)' /\ c.row = Row(b, req[b].at)'
  <2>1. c \in cont[s] /\ c.row \in 1..MaxRows /\ rows[c.row] # NoRow
    BY <1>3 DEF Creating, Settled, RowsHeld, Base, TypeOK
  <2>2. rows'[c.row] = rows[c.row]
    BY <1>3, <2>1 DEF Creating
  <2>3. ASSUME NEW b \in Applies, Probes(b, s), c.row = Row(b, req[b].at)
        PROVE  Probes(b, s)' /\ c.row = Row(b, req[b].at)'
    BY <1>3, <2>3, ProbeStays DEF Settled, Row
  <2> QED
    BY <1>1, <1>2, <2>1, <2>2, <2>3
<1>4. ASSUME NEW a \in Applies, Containing(a)
      PROVE  ServesHealthy(s, c)' \/ \E b \in Applies : Probes(b, s)' /\ c.row = Row(b, req[b].at)'
  <2>1. CASE c \in cont[s]
    <3>1. ASSUME NEW b \in Applies, Probes(b, s), c.row = Row(b, req[b].at)
          PROVE  Probes(b, s)' /\ c.row = Row(b, req[b].at)'
      BY <1>4, <3>1, ProbeStays DEF Settled, Row
    <3> QED
      BY <1>1, <1>2, <1>4, <2>1, <3>1 DEF Containing
  <2>2. CASE c \notin cont[s]
    <3>1. c.row = Row(a, req[a].at) /\ s = Held(a)[req[a].at].sp.slug
      BY <1>4, <2>2, OnlyNew DEF Settled
    <3>2. req'[a].pc = "probe" /\ req'[a].at = req[a].at /\ Held(a)' = Held(a)
      BY <1>4 DEF Containing
    <3> QED
      BY <3>1, <3>2 DEF Probes, Row
  <2> QED
    BY <2>1, <2>2
<1>5. ASSUME NEW a \in Applies, Ending(a)
      PROVE  ServesHealthy(s, c)' \/ \E b \in Applies : Probes(b, s)' /\ c.row = Row(b, req[b].at)'
  <2> DEFINE at == req[a].at
             it == Held(a)[at]
  <2>1. at \in DOMAIN Held(a) /\ Row(a, at) \in 1..MaxRows /\ rows[Row(a, at)] # NoRow /\ it.sp.slug \in Slugs
    BY <1>5, HeldItem DEF Ending, Settled, RowsHeld
  <2>2. c \in cont[s] /\ c.row \in 1..MaxRows /\ rows[c.row] # NoRow
    <3>1. c \in cont[s]
      BY <1>5 DEF Ending
    <3> QED
      BY <3>1 DEF Settled, RowsHeld, Base, TypeOK
  <2>3. PICK verdict \in {"healthy", "failed"} :
          /\ Asked(Row(a, at), verdict)
          /\ \/ /\ req[a].pc = "probe" /\ verdict = "healthy"
                /\ \A d \in cont'[it.sp.slug] : d.row = Row(a, at)
             \/ /\ req[a].pc \in Rolling /\ \A d \in cont'[it.sp.slug] : d.row # Row(a, at)
             \/ req[a].pc = "chain"
    BY <1>5 DEF Ending
  <2>4. ASSUME c.row # Row(a, at)
        PROVE  ServesHealthy(s, c)' \/ \E b \in Applies : Probes(b, s)' /\ c.row = Row(b, req[b].at)'
    <3>1. rows'[c.row] = rows[c.row]
      BY <2>2, <2>3, <2>4 DEF Asked
    <3>2. ASSUME NEW b \in Applies, Probes(b, s), c.row = Row(b, req[b].at)
          PROVE  Probes(b, s)' /\ c.row = Row(b, req[b].at)'
      <4>1. b # a
        BY <2>4, <3>2
      <4>2. req'[b] = req[b]
        BY <1>5, <4>1 DEF Ending, Alone1
      <4> QED
        BY <3>2, <4>2 DEF Probes, Row, Held
    <3> QED
      BY <1>1, <1>2, <2>2, <3>1, <3>2
  <2>5. ASSUME c.row = Row(a, at), s = it.sp.slug, req[a].pc = "probe", verdict = "healthy" PROVE ServesHealthy(s, c)'
    <3>1. rows'[c.row].status = "healthy"
      BY <2>1, <2>3, <2>5 DEF Asked
    <3>2. Held(a)' = Held(a)
      BY <1>5 DEF Ending
    <3>3. rows'[c.row].app = it.app.id /\ apps'[s].id = it.app.id
      <4>2. RowsHeld' /\ StillThere'
        BY DEF Settled
      <4>3. rows'[Held(a)'[at].row].app = Held(a)'[at].app.id /\ apps'[Held(a)'[at].sp.slug].id = Held(a)'[at].app.id
        BY <2>1, <3>2, <4>2, ConductKept DEF RowsHeld, StillThere, Row
      <4> QED
        BY <2>5, <3>2, <4>3 DEF Row
    <3> QED
      BY <3>1, <3>3 DEF ServesHealthy
  <2>6. ASSUME c.row = Row(a, at)
        PROVE  s = it.sp.slug /\ req[a].pc = "probe"
    <3>1. Verdict(a, at) = "none"
      <4>1. req[a].pc \in Deploying
        BY <1>5 DEF Ending, Deploying, Rolling
      <4>2. at \in Nat
        BY <4>1, ByIs DEF Settled
      <4> QED
        BY <2>1, <4>1, <4>2 DEF Settled, InOrder
    <3>2. rows[c.row].status # "healthy"
      BY <2>1, <2>6, <3>1, WaitsIs
    <3>3. PICK b \in Applies : Probes(b, s) /\ Row(a, at) = Row(b, req[b].at)
      BY <1>1, <2>2, <2>6, <3>2 DEF ServesHealthy
    <3>4. req[b].at \in DOMAIN Held(b)
      BY <3>3, RollingIs, AtItem DEF Probes, Rolling, Settled
    <3>5. a = b
      BY <2>1, <3>3, <3>4 DEF Settled, RowsHeld
    <3> QED
      BY <3>3, <3>5 DEF Probes
  <2> QED
    BY <2>3, <2>4, <2>5, <2>6
<1>6. ASSUME NEW a \in Applies, Quiet(a)
      PROVE  ServesHealthy(s, c)' \/ \E b \in Applies : Probes(b, s)' /\ c.row = Row(b, req[b].at)'
  <2>1. ASSUME NEW b \in Applies, Probes(b, s), c.row = Row(b, req[b].at)
        PROVE  Probes(b, s)' /\ c.row = Row(b, req[b].at)'
    BY <1>6, <2>1, ProbeStays DEF Settled, Row
  <2> QED
    BY <1>1, <1>2, <1>6, <2>1 DEF Quiet
<1>7. CASE Aside
  <2>1. ASSUME NEW b \in Applies, Probes(b, s), c.row = Row(b, req[b].at)
        PROVE  Probes(b, s)' /\ c.row = Row(b, req[b].at)'
    BY <1>7, <2>1 DEF Aside, Probes, Row, Held
  <2> QED
    BY <1>1, <1>2, <1>7, <2>1 DEF Aside
<1> QED
  BY <1>0, <1>3, <1>4, <1>5, <1>6, <1>7, StepCases DEF Settled

\* A boot leaves an app one container: the probed one goes if the other is healthy.
LEMMA BootLeavesOne ==
    ASSUME Settled, OneActive, PairsRollOut, ServedIsHealthy, Reboot, ~conduct.overlap, ~conduct.careless,
           ~(conduct.faults /\ conduct.crash), NEW s \in Slugs, NEW c \in cont'[s], NEW d \in cont'[s]
    PROVE  c = d
<1> SUFFICES ASSUME c # d PROVE FALSE
  OBVIOUS
<1>1. life = "down" /\ ~conduct.faults
  BY Reboots DEF Settled, DirsHeld
<1>2. c \in cont[s] /\ d \in cont[s] /\ Keep(s, c) /\ Keep(s, d)
  BY <1>1, Reboots DEF Settled
<1>3. PICK a \in Applies : Probes(a, s) /\ ((c.row = Row(a, req[a].at)) <=> (d.row # Row(a, req[a].at)))
  BY <1>2 DEF PairsRollOut
<1>4. ASSUME NEW b \in Applies, Probes(b, s) PROVE b = a
  <2>1. Active(a) /\ Active(b)
    BY <1>3, <1>4 DEF Probes, Active
  <2> QED
    BY <2>1 DEF OneActive
<1>5. ASSUME NEW e \in cont[s], e.row # Row(a, req[a].at) PROVE e.row \in Healthy(apps[s].id)
  <2>1. ServesHealthy(s, e)
    BY <1>1, <1>4, <1>5 DEF ServedIsHealthy
  <2>2. e.row \in 1..MaxRows /\ rows[e.row] # NoRow
    BY <1>5 DEF Settled, RowsHeld, Base, TypeOK
  <2> QED
    BY <2>1, <2>2 DEF Healthy, ServesHealthy
<1>6. Healthy(apps[s].id) # {}
  BY <1>2, <1>3, <1>5
<1>7. c.row \in Healthy(apps[s].id) /\ d.row \in Healthy(apps[s].id) /\ c.row <= d.row /\ d.row <= c.row
  BY <1>2, <1>6 DEF Keep
<1>8. c.row \in Nat /\ d.row \in Nat
  BY <1>7 DEF Healthy
<1>9. c.row = d.row
  BY <1>7, <1>8
<1> QED
  BY <1>3, <1>9

LEMMA PairsRollOutStep ==
    ASSUME Settled, OneActive, PairsRollOut, ServedIsHealthy, [Next]_vars PROVE PairsRollOut'
<1> SUFFICES ASSUME ~conduct.overlap, ~conduct.careless, ~(conduct.faults /\ conduct.crash),
                    NEW s \in Slugs, NEW c \in cont'[s], NEW d \in cont'[s], c # d
             PROVE  \E a \in Applies : /\ Probes(a, s)' /\ Held(a)'[req'[a].at].app.strategy # "replace"
                                       /\ (c.row = Row(a, req[a].at)') <=> (d.row # Row(a, req[a].at)')
  BY ConductKept DEF PairsRollOut
<1>1. ASSUME NEW e \in cont[s], NEW f \in cont[s], e # f
      PROVE  \E a \in Applies : /\ Probes(a, s) /\ Held(a)[req[a].at].app.strategy # "replace"
                                /\ (e.row = Row(a, req[a].at)) <=> (f.row # Row(a, req[a].at))
  BY <1>1 DEF PairsRollOut
<1>2. CASE Reboot
  BY <1>2, BootLeavesOne
<1>3. ASSUME NEW a \in Applies, Creating(a) \/ Quiet(a)
      PROVE  \E b \in Applies : /\ Probes(b, s)' /\ Held(b)'[req'[b].at].app.strategy # "replace"
                                /\ (c.row = Row(b, req[b].at)') <=> (d.row # Row(b, req[b].at)')
  <2>1. cont' = cont
    BY <1>3 DEF Creating, Quiet
  <2>2. PICK b \in Applies : /\ Probes(b, s) /\ Held(b)[req[b].at].app.strategy # "replace"
                             /\ (c.row = Row(b, req[b].at)) <=> (d.row # Row(b, req[b].at))
    BY <1>1, <2>1
  <2>3. Probes(b, s)' /\ Held(b)' = Held(b) /\ req'[b] = req[b]
    BY <1>3, <2>2, ProbeStays DEF Settled
  <2> QED
    BY <2>2, <2>3 DEF Row
<1>4. ASSUME NEW a \in Applies, NEW b \in Applies, Ending(a) \/ Containing(a), Probes(b, s) PROVE b = a
  <2>1. Active(a) /\ Active(b)
    BY <1>4 DEF Probes, Active, Ending, Containing, Rolling
  <2> QED
    BY <2>1 DEF OneActive
<1>5. ASSUME NEW a \in Applies, Ending(a) PROVE FALSE
  <2> DEFINE at == req[a].at
  <2>1. c \in cont[s] /\ d \in cont[s]
    BY <1>5 DEF Ending
  <2>2. PICK b \in Applies : /\ Probes(b, s)
                             /\ (c.row = Row(b, req[b].at)) <=> (d.row # Row(b, req[b].at))
    BY <1>1, <2>1
  <2>3. b = a
    BY <1>4, <1>5, <2>2
  <2>4. req[a].pc = "probe" /\ s = Held(a)[at].sp.slug
    BY <2>2, <2>3 DEF Probes
  <2>5. \/ \A e \in cont'[s] : e.row = Row(a, at)
        \/ \A e \in cont'[s] : e.row # Row(a, at)
    BY <1>5, <2>4 DEF Ending, Rolling
  <2> QED
    BY <2>2, <2>3, <2>5
<1>6. ASSUME NEW a \in Applies, Containing(a)
      PROVE  /\ Probes(a, s)' /\ Held(a)'[req'[a].at].app.strategy # "replace"
             /\ (c.row = Row(a, req[a].at)') <=> (d.row # Row(a, req[a].at)')
  <2> DEFINE at == req[a].at
             it == Held(a)[at]
  <2>1. \A e, f \in cont[s] : e = f
    <3> SUFFICES ASSUME NEW e \in cont[s], NEW f \in cont[s], e # f PROVE FALSE
      OBVIOUS
    <3>1. PICK b \in Applies : Probes(b, s)
      BY <1>1
    <3>2. b = a
      BY <1>4, <1>6, <3>1
    <3> QED
      BY <1>6, <3>1, <3>2 DEF Containing, Probes
  <2>2. at \in DOMAIN Held(a) /\ req[a].pc = "pull"
    BY <1>6 DEF Containing
  <2>3. \A e \in cont[s] : e.row # Row(a, at)
    <3>1. Verdict(a, at) = "none"
      <4>1. at \in Nat
        BY <2>2, ByIs DEF Settled, Deploying, Rolling
      <4> QED
        BY <2>2, <4>1 DEF Settled, InOrder, Deploying, Rolling
    <3> QED
      BY <2>2, <3>1 DEF Settled, WaitingUntouched
  <2>4. PICK new : /\ new.row = Row(a, at) /\ cont'[it.sp.slug] \subseteq cont[it.sp.slug] \cup {new}
                   /\ it.app.strategy = "replace" => cont'[it.sp.slug] = {new}
    BY <1>6 DEF Containing
  <2>5. s = it.sp.slug
    <3>1. s # it.sp.slug => cont'[s] = cont[s]
      BY <1>6 DEF Containing
    <3> QED
      BY <2>1, <3>1
  <2>6. /\ c = new \/ c \in cont[s]
        /\ d = new \/ d \in cont[s]
        /\ it.app.strategy # "replace"
    BY <2>4, <2>5
  <2>7. (c.row = Row(a, at)) <=> (d.row # Row(a, at))
    BY <2>1, <2>3, <2>4, <2>6
  <2>8. req'[a].pc = "probe" /\ req'[a].at = at /\ Held(a)' = Held(a)
    BY <1>6 DEF Containing
  <2> QED
    BY <2>5, <2>6, <2>7, <2>8 DEF Probes, Row
<1>7. CASE Aside
  <2>1. req' = req /\ cont' = cont
    BY <1>7 DEF Aside
  <2>2. PICK b \in Applies : /\ Probes(b, s) /\ Held(b)[req[b].at].app.strategy # "replace"
                             /\ (c.row = Row(b, req[b].at)) <=> (d.row # Row(b, req[b].at))
    BY <1>1, <2>1
  <2> QED
    BY <2>1, <2>2 DEF Probes, Row, Held
<1> QED
  BY <1>2, <1>3, <1>5, <1>6, <1>7, StepCases DEF Settled

VolumesKept == /\ Settled /\ OneActive /\ StrategiesKnown /\ VolumesReplaced /\ MountsDeclared
               /\ PairsRollOut /\ ServedIsHealthy

LEMMA VolumesAlways == Spec => []VolumesKept
<1>1. ASSUME Init PROVE OneActive /\ StrategiesKnown /\ VolumesReplaced /\ MountsDeclared /\ PairsRollOut /\ ServedIsHealthy
  <2>1. \A a \in Applies : DOMAIN Held(a) = {} /\ req[a].pc = "idle"
    BY <1>1, AtFirst, EmptyIs
  <2>2. \A s \in Slugs : cont[s] = {} /\ ~Volumed(s)
    <3>1. \A s \in Slugs : apps[s] = HandMadeApp \/ apps[s] = NoApp
      BY <1>1 DEF Init
    <3>2. TAKE s \in Slugs
    <3>3. cont[s] = {}
      BY <1>1 DEF Init
    <3>4. HandMadeApp.mounts = {}
      BY DEF HandMadeApp
    <3>5. ASSUME apps[s] = HandMadeApp PROVE apps[s].mounts = HandMadeApp.mounts
      BY <3>5
    <3>6. ~Volumed(s)
      BY <3>1, <3>4, <3>5 DEF Volumed, Exists
    <3> QED
      BY <3>3, <3>6
  <2> QED
    BY <2>1, <2>2 DEF OneActive, Active, StrategiesKnown, Applied, VolumesReplaced, MountsDeclared, PairsRollOut,
                      ServedIsHealthy
<1>2. ASSUME VolumesKept, Settled', [Next]_vars PROVE VolumesKept'
  BY <1>2, OneActiveStep, StrategiesKnownStep, VolumesReplacedStep, MountsDeclaredStep, PairsRollOutStep,
     ServedIsHealthyStep DEF VolumesKept, Settled
<1> QED
  BY <1>1, <1>2, SettledAlways, PTL DEF Spec, VolumesKept

\* As long as one apply at a time is under way and no app is deleted, no volume
\* has two writers, but that of an app which a failure or a death has left
\* without the strategy that an apply was to give it.
THEOREM VolumesHaveOneWriter == Spec => []VolumeWriters
<1>1. ASSUME VolumesKept PROVE VolumeWriters
  <2> SUFFICES ASSUME ~conduct.overlap, ~conduct.careless, ~(conduct.faults /\ conduct.crash),
                      NEW s \in Slugs, NEW c \in cont[s], NEW d \in cont[s], c # d, c.mounts \cap d.mounts # {}
               PROVE  (conduct.faults \/ conduct.crash) /\ apps[s].strategy = "zero-downtime"
    BY DEF VolumeWriters
  <2>1. PICK a \in Applies : Probes(a, s) /\ Held(a)[req[a].at].app.strategy # "replace"
    BY <1>1 DEF VolumesKept, PairsRollOut
  <2>2. Exists(s) /\ c.mounts \subseteq apps[s].mounts /\ IsApp(apps[s])
    BY <1>1 DEF VolumesKept, MountsDeclared, Settled, Base, TypeOK
  <2>3. apps[s].strategy # "replace"
    <3>1. req[a].at \in DOMAIN Held(a) /\ Active(a) /\ Held(a)[req[a].at].sp.slug = s
      BY <1>1, <2>1, RollingIs, AtItem DEF VolumesKept, Settled, Probes, Rolling, Active
    <3> QED
      BY <1>1, <2>1, <3>1 DEF VolumesKept, StrategiesKnown
  <2>4. ASSUME ~conduct.faults, ~conduct.crash PROVE FALSE
    <3>1. Volumed(s)
      BY <2>2 DEF Volumed
    <3>2. PICK b \in Applies : Declaring(b, s)
      BY <1>1, <2>3, <2>4, <3>1 DEF VolumesKept, VolumesReplaced
    <3>3. Active(a) /\ Active(b)
      BY <2>1, <3>2 DEF Probes, Declaring, Active
    <3> QED
      BY <1>1, <2>1, <3>2, <3>3 DEF VolumesKept, OneActive, Probes, Declaring
  <2> QED
    BY <2>2, <2>3, <2>4 DEF IsApp
<1> QED
  BY <1>1, VolumesAlways, PTL

----------------------------------------------------------------------------
(* What a client sees of an apply is what ComposeChain promises.           *)

SeenAs(r, i, row) ==
    IF row.status # "deploying" THEN row.status
    ELSE IF row.verdict # "none" THEN Unsaid[row.verdict]
    ELSE IF r.pc \in Rolling /\ r.at = i THEN "deploying"
    ELSE IF r.pc = "done" /\ ~r.errored THEN "abandoned" ELSE "waiting"

LEMMA SeenIs == ASSUME NEW a, NEW i
                PROVE  /\ Seen(a, i) = SeenAs(req[a], i, rows[Row(a, i)])
                       /\ Seen(a, i)' = SeenAs(req'[a], i, rows'[Held(a)'[i].row])
<1>1. Seen(a, i) = SeenAs(req[a], i, rows[Row(a, i)])
  BY DEF Seen, SeenAs, Row, Rolling
<1>2. Seen(a, i)' = SeenAs(req'[a], i, rows'[Held(a)'[i].row])
  BY DEF Seen, SeenAs, Rolling
<1> QED
  BY <1>1, <1>2

\* How the deployment whose verdict that is is seen.
Outcomes(verdict) == IF verdict = "healthy" THEN Chain!Healthy ELSE Chain!Failed

LEMMA UnsaidIs == Unsaid["healthy"] = "healthy, unsaid" /\ Unsaid["failed"] = "failed, unsaid"
BY DEF Unsaid

LEMMA OutcomeIs ==
    ASSUME NEW row, NEW r, NEW i, row.verdict \in {"healthy", "failed"}, row.status \in {row.verdict, "deploying"}
    PROVE  SeenAs(r, i, row) \in Outcomes(row.verdict)
<1>1. CASE row.verdict = "healthy"
  <2>1. SeenAs(r, i, row) \in {"healthy", "healthy, unsaid"}
    BY <1>1, UnsaidIs DEF SeenAs
  <2> QED
    BY <1>1, <2>1 DEF Outcomes, Chain!Healthy
<1>2. CASE row.verdict = "failed"
  <2>1. SeenAs(r, i, row) \in {"failed", "failed, unsaid"}
    BY <1>2, UnsaidIs DEF SeenAs
  <2> QED
    BY <1>2, <2>1 DEF Outcomes, Chain!Failed
<1> QED
  BY <1>1, <1>2

LEMMA ToldIs ==
    ASSUME ~conduct.careless, [Next]_vars
    PROVE  /\ DOMAIN Told = Applies /\ DOMAIN Told' = Applies
           /\ Told = [a \in Applies |-> [i \in DOMAIN Held(a) |-> Seen(a, i)]]
           /\ Told' = [a \in Applies |-> [i \in DOMAIN Held(a)' |-> Seen(a, i)']]
           /\ \A a \in Applies : Told[a] = [i \in DOMAIN Held(a) |-> Seen(a, i)]
           /\ \A a \in Applies : Told'[a] = [i \in DOMAIN Held(a)' |-> Seen(a, i)']
BY ConductKept DEF Told

\* What the steps of others leave.
LEMMA ToldStays ==
    ASSUME Settled, [Next]_vars, ~conduct.careless, ~Reboot, NEW a \in Applies,
           Held(a)' = Held(a), \A i \in DOMAIN Held(a) : Seen(a, i)' = Seen(a, i)
    PROVE  Told'[a] = Told[a]
BY ToldIs

LEMMA SeenStays ==
    ASSUME Settled, [Next]_vars, ~conduct.careless, ~Reboot, NEW a \in Applies, ~Creating(a),
           NEW i \in DOMAIN Held(a), ~(Ending(a) /\ i = req[a].at)
    PROVE  /\ Held(a)' = Held(a)
           /\ Seen(a, i) = SeenAs(req[a], i, rows[Row(a, i)])
           /\ Seen(a, i)' = SeenAs(req'[a], i, rows[Row(a, i)])
<1>1. Held(a)' = Held(a)
  BY HeldCases DEF Settled
<1>2. rows'[Held(a)'[i].row] = rows[Row(a, i)]
  BY <1>1, RowIsKept DEF Settled, Row
<1> QED
  BY <1>1, <1>2, SeenIs

LEMMA OthersTold ==
    ASSUME Settled, [Next]_vars, ~conduct.careless, ~Reboot, NEW a \in Applies, req'[a] = req[a]
    PROVE  Told'[a] = Told[a]
<1>1. Held(a)' = Held(a)
  BY DEF Held
<1>2. ~Creating(a) /\ ~Ending(a)
  <2>1. ~Creating(a)
    BY DEF Creating
  <2>2. ASSUME Ending(a) PROVE FALSE
    <3>1. req[a].pc \in Deploying /\ req'[a].at = req[a].at + 1
      BY <2>2 DEF Ending, Deploying, Rolling
    <3> QED
      BY <3>1, ByIs DEF Settled
  <2> QED
    BY <2>1, <2>2
<1>3. \A i \in DOMAIN Held(a) : Seen(a, i)' = Seen(a, i)
  BY <1>2, SeenStays
<1> QED
  BY <1>1, <1>3, ToldStays

\* One deployment is seen to have changed.
LEMMA OneTold ==
    ASSUME Settled, [Next]_vars, ~conduct.careless, ~Reboot, NEW a \in Applies, Alone1(a), Held(a)' = Held(a),
           NEW k \in DOMAIN Held(a), NEW to, Seen(a, k)' = to,
           \A i \in DOMAIN Held(a) \ {k} : Seen(a, i)' = Seen(a, i)
    PROVE  Told' = [Told EXCEPT ![a][k] = to]
<1>1. \A b \in Applies \ {a} : Told'[b] = Told[b]
  BY OthersTold DEF Alone1
<1>2. Told'[a] = [Told[a] EXCEPT ![k] = to]
  <2>1. Told[a] = [i \in DOMAIN Held(a) |-> Seen(a, i)] /\ Told'[a] = [i \in DOMAIN Held(a) |-> Seen(a, i)']
    BY ToldIs
  <2> QED
    BY <2>1
<1>3. Told = [b \in Applies |-> Told[b]] /\ Told' = [b \in Applies |-> Told'[b]]
  BY ToldIs
<1> QED
  BY ONLY <1>1, <1>2, <1>3

LEMMA QuietTold ==
    ASSUME Settled, [Next]_vars, ~conduct.careless, ~Reboot, NEW a \in Applies, Alone1(a), Held(a)' = Held(a),
           \A i \in DOMAIN Held(a) : Seen(a, i)' = Seen(a, i)
    PROVE  Told' = Told
<1>1. \A b \in Applies : Told'[b] = Told[b]
  BY OthersTold, ToldStays DEF Alone1
<1>2. Told = [b \in Applies |-> Told[b]] /\ Told' = [b \in Applies |-> Told'[b]]
  BY ToldIs
<1> QED
  BY ONLY <1>1, <1>2

LEMMA SettledIs ==
    ASSUME Settled, ~conduct.careless, NEW a \in Applies, NEW i \in DOMAIN Held(a), Verdict(a, i) \in {"healthy", "failed"}
    PROVE  Seen(a, i) \in Outcomes(Verdict(a, i))
<1>1. Row(a, i) \in 1..MaxRows /\ rows[Row(a, i)] # NoRow
  BY HeldItem DEF Settled, RowsHeld
<1>2. rows[Row(a, i)].status \in {rows[Row(a, i)].verdict, "deploying"}
  BY <1>1 DEF Settled, RowsSay
<1> QED
  BY <1>2, SeenIs, OutcomeIs DEF Verdict

LEMMA IsPromise ==
    ASSUME Settled, [Next]_vars, ~conduct.careless, ~Reboot, NEW a \in Applies, Creating(a)
    PROVE  Chain!Promise(a)
<1>1. /\ Alone1(a) /\ req[a].pc = "row"
      /\ req'[a].pc \in {"upsert", "chain"}
  BY DEF Creating
<1>2. PICK n \in 1..MaxRows :
          /\ rows' = [m \in 1..MaxRows |-> IF m = n THEN [app |-> req[a].app.id, status |-> "deploying", verdict |-> "none"]
                                           ELSE rows[m]]
          /\ req[a].at \in Nat \ {0} /\ DOMAIN Held(a) = 1..(req[a].at - 1) /\ DOMAIN Held(a)' = 1..req[a].at
          /\ Held(a)'[req[a].at] = [sp |-> Now(a), app |-> req[a].app, row |-> n]
  BY DEF Creating
<1>3. ASSUME NEW i \in DOMAIN Held(a) PROVE Seen(a, i) = "waiting" /\ rows[Row(a, i)].status = "deploying"
  <2>1. Verdict(a, i) = "none"
    BY <1>1 DEF Settled, InOrder, Writing, Applied
  <2>2. rows[Row(a, i)].status = "deploying"
    BY <2>1, WaitsIs
  <2> QED
    BY <1>1, <2>1, <2>2, SeenIs DEF SeenAs, Rolling, Verdict
<1>4. ASSUME NEW i \in DOMAIN Held(a)' PROVE Seen(a, i)' = "waiting"
  <2>1. rows'[Held(a)'[i].row].status = "deploying" /\ rows'[Held(a)'[i].row].verdict = "none"
    <3>1. CASE i \in DOMAIN Held(a)
      <4>1. rows'[Row(a, i)] = rows[Row(a, i)] /\ Held(a)'[i] = Held(a)[i]
        <5>1. ~Ending(a)
          BY <1>1 DEF Ending, Rolling
        <5> QED
          BY <3>1, <5>1, RowIsKept DEF Settled
      <4> QED
        BY <1>1, <1>3, <3>1, <4>1 DEF Settled, InOrder, Writing, Applied, Row, Verdict
    <3>2. CASE i = req[a].at
      <4>1. Held(a)'[i].row = n /\ rows'[n] = [app |-> req[a].app.id, status |-> "deploying", verdict |-> "none"]
        BY <1>2, <3>2
      <4> QED
        BY <4>1
    <3> QED
      BY <1>2, <1>4, <3>1, <3>2
  <2> QED
    BY <1>1, <2>1, SeenIs DEF SeenAs, Rolling
<1> DEFINE len == req[a].at - 1
           s == [i \in 1..len |-> "waiting"]
           t == [i \in 1..(len + 1) |-> "waiting"]
<1>5. len \in Nat /\ DOMAIN Held(a) = 1..len /\ DOMAIN Held(a)' = 1..(len + 1)
  BY <1>2
<1> HIDE DEF len
<1>6. Told[a] = s /\ Told'[a] = t
  <2>1. Told[a] = [i \in 1..len |-> Seen(a, i)] /\ Told'[a] = [i \in 1..(len + 1) |-> Seen(a, i)']
    BY <1>5, ToldIs
  <2>2. \A i \in 1..len : Seen(a, i) = "waiting"
    BY <1>3, <1>5
  <2>3. \A i \in 1..(len + 1) : Seen(a, i)' = "waiting"
    BY <1>4, <1>5
  <2> QED
    BY <2>1, <2>2, <2>3
<1>7. Append(s, "waiting") = t
  <2>1. s \in Seq({"waiting"}) /\ Len(s) = len
    BY <1>5
  <2> QED
    BY <1>5, <2>1
<1>8. \A b \in Applies \ {a} : Told'[b] = Told[b]
  BY <1>1, OthersTold DEF Alone1
<1>9. Told = [b \in Applies |-> Told[b]] /\ Told' = [b \in Applies |-> Told'[b]]
  BY ToldIs
<1>10. Told' = [Told EXCEPT ![a] = Append(@, "waiting")]
  <2> HIDE DEF s, t
  <2> QED
    BY <1>6, <1>7, <1>8, <1>9
<1>11. \A i \in DOMAIN Told[a] : Told[a][i] = "waiting"
  BY <1>6
<1> QED
  BY <1>10, <1>11 DEF Chain!Promise

\* The outcomes of the deployments that a request has come past.
LEMMA EarlierTold ==
    ASSUME Settled, [Next]_vars, ~conduct.careless, NEW a \in Applies, req[a].pc \in Deploying,
           NEW k \in DOMAIN Held(a), k = req[a].at
    PROVE  /\ req[a].by = 0 => Chain!Earlier(a, k, Chain!Healthy)
           /\ Chain!Earlier(a, k, Chain!Healthy \cup Chain!Failed)
           /\ req[a].by # 0 => \E j \in 1..(k - 1) : Told[a][j] \in Chain!Failed
           /\ Told[a][k] = IF req[a].pc \in Rolling THEN "deploying" ELSE "waiting"
<1>1. /\ k \in Nat \ {0} /\ req[a].by \in Nat /\ req[a].by < k /\ (req[a].by # 0 => req[a].by \in DOMAIN Held(a))
      /\ \E n \in Nat : DOMAIN Held(a) = 1..n /\ k <= n + 1
  BY ByIs DEF Settled
<1>2. \A i \in 1..(k - 1) : i \in DOMAIN Held(a) /\ i < k
  BY <1>1
<1>3. \A i \in DOMAIN Held(a) : Told[a][i] = Seen(a, i)
  BY ToldIs
<1>4. /\ \A i \in DOMAIN Held(a) : /\ i < k => Verdict(a, i) \in {"healthy", "failed"}
                                   /\ i < k /\ req[a].by = 0 => Verdict(a, i) = "healthy"
      /\ Verdict(a, k) = "none"
      /\ req[a].by # 0 => Verdict(a, req[a].by) = "failed"
  BY <1>1 DEF Settled, InOrder
<1>5. \A i \in 1..(k - 1) : Told[a][i] \in Outcomes(Verdict(a, i))
  BY <1>2, <1>3, <1>4, SettledIs
<1>6. Told[a][k] = IF req[a].pc \in Rolling THEN "deploying" ELSE "waiting"
  <2>1. rows[Row(a, k)].status = "deploying" /\ rows[Row(a, k)].verdict = "none"
    BY <1>4, WaitsIs DEF Verdict
  <2> QED
    BY <1>3, <2>1, SeenIs DEF SeenAs, Deploying, Rolling
<1>7. req[a].by # 0 => \E j \in 1..(k - 1) : Told[a][j] \in Chain!Failed
  BY <1>1, <1>4, <1>5 DEF Outcomes
<1>8. req[a].by = 0 => Chain!Earlier(a, k, Chain!Healthy)
  BY <1>2, <1>4, <1>5 DEF Chain!Earlier, Outcomes
<1>9. Chain!Earlier(a, k, Chain!Healthy \cup Chain!Failed)
  BY <1>5 DEF Chain!Earlier, Outcomes
<1> QED
  BY <1>6, <1>7, <1>8, <1>9

LEMMA IsDeploymentEnd ==
    ASSUME Settled, [Next]_vars, ~conduct.careless, ~Reboot, NEW a \in Applies, Ending(a)
    PROVE  \E k \in DOMAIN Told[a] : Chain!End(a, k) \/ Chain!Reject(a, k) \/ Chain!Abort(a, k)
<1>1. req[a].pc \in Deploying /\ Alone1(a) /\ Held(a)' = Held(a) /\ req'[a].pc = "chain"
  BY DEF Ending, Deploying, Rolling
<1>2. PICK k \in DOMAIN Held(a) : k = req[a].at
  BY DEF Ending
<1>3. k \in Nat
  BY <1>1, <1>2, ByIs DEF Settled
<1>4. Row(a, k) \in 1..MaxRows /\ rows[Row(a, k)] # NoRow
  BY HeldItem DEF Settled, RowsHeld
<1>5. PICK verdict \in {"healthy", "failed"} :
          /\ Asked(Row(a, k), verdict)
          /\ \/ req[a].pc = "probe" /\ req[a].by = 0 /\ verdict = "healthy"
             \/ req[a].pc \in Rolling /\ req[a].by = 0 /\ verdict = "failed"
             \/ req[a].pc = "chain" /\ req[a].by = 0 /\ verdict = "failed"
             \/ req[a].pc = "chain" /\ req[a].by # 0 /\ verdict = "failed"
  BY <1>2 DEF Ending
<1>6. Seen(a, k)' \in Outcomes(verdict)
  <2>1. rows'[Row(a, k)].verdict = verdict /\ rows'[Row(a, k)].status \in {verdict, "deploying"}
    BY <1>4, <1>5 DEF Asked
  <2>2. SeenAs(req'[a], k, rows'[Row(a, k)]) \in Outcomes(verdict)
    BY <2>1, OutcomeIs
  <2> QED
    BY <1>1, <2>2, SeenIs DEF Row
<1>7. PICK outcome \in Outcomes(verdict) : Seen(a, k)' = outcome
  BY <1>6
<1>8. ASSUME NEW i \in DOMAIN Held(a) \ {k} PROVE Seen(a, i)' = Seen(a, i)
  <2>1. Seen(a, i) = SeenAs(req[a], i, rows[Row(a, i)]) /\ Seen(a, i)' = SeenAs(req'[a], i, rows[Row(a, i)])
    <3>1. ~Creating(a)
      BY <1>1 DEF Creating, Deploying, Rolling
    <3> QED
      BY <1>2, <1>8, <3>1, SeenStays
  <2> QED
    BY <1>1, <1>2, <2>1 DEF SeenAs, Deploying, Rolling
<1>9. Told' = [Told EXCEPT ![a][k] = outcome]
  BY <1>1, <1>7, <1>8, OneTold
<1>10. DOMAIN Told[a] = DOMAIN Held(a)
  BY ToldIs
<1>11. /\ req[a].by = 0 => Chain!Earlier(a, k, Chain!Healthy)
       /\ Chain!Earlier(a, k, Chain!Healthy \cup Chain!Failed)
       /\ req[a].by # 0 => \E j \in 1..(k - 1) : Told[a][j] \in Chain!Failed
       /\ Told[a][k] = IF req[a].pc \in Rolling THEN "deploying" ELSE "waiting"
  BY <1>1, <1>2, EarlierTold
<1>12. outcome \in Chain!Healthy \cup Chain!Failed /\ (verdict = "failed" => outcome \in Chain!Failed)
  BY DEF Outcomes
<1>13. ASSUME req[a].pc \in Rolling PROVE Chain!End(a, k)
  BY <1>9, <1>11, <1>12, <1>13 DEF Chain!End, Chain!Becomes
<1>14. ASSUME req[a].pc = "chain", req[a].by = 0 PROVE Chain!Reject(a, k)
  BY <1>5, <1>9, <1>11, <1>12, <1>14 DEF Chain!Reject, Chain!Becomes, Rolling
<1>15. ASSUME req[a].pc = "chain", req[a].by # 0 PROVE Chain!Abort(a, k)
  BY <1>5, <1>9, <1>11, <1>12, <1>15 DEF Chain!Abort, Chain!Becomes, Rolling
<1> QED
  BY <1>1, <1>10, <1>13, <1>14, <1>15 DEF Deploying

LEMMA IsDeploymentStart ==
    ASSUME Settled, [Next]_vars, ~conduct.careless, ~Reboot, NEW a \in Applies, Quiet(a)
    PROVE  Told' = Told \/ \E k \in DOMAIN Told[a] : Chain!Start(a, k)
<1>1. Alone1(a) /\ Held(a)' = Held(a)
  BY DEF Quiet
<1>2. ASSUME ~Ending(a), ~Creating(a), NEW i \in DOMAIN Held(a)
      PROVE  Seen(a, i) = SeenAs(req[a], i, rows[Row(a, i)]) /\ Seen(a, i)' = SeenAs(req'[a], i, rows[Row(a, i)])
  BY <1>2, SeenStays
<1>3. CASE Held(a) = <<>>
  BY <1>1, <1>3, EmptyIs, QuietTold
<1>4. CASE /\ req[a].pc \in Writing
           /\ req'[a].pc \in Writing \/ (req'[a].pc = "done" /\ req'[a].errored)
  <2>1. ~Ending(a)
    BY <1>4 DEF Ending, Writing, Applied, Rolling
  <2>2. ~Creating(a)
    <3> SUFFICES ASSUME Creating(a) PROVE FALSE
      OBVIOUS
    <3>1. req[a].at \in Nat \ {0} /\ DOMAIN Held(a) = 1..(req[a].at - 1) /\ DOMAIN Held(a)' = 1..req[a].at
      BY DEF Creating
    <3> QED
      BY <1>1, <3>1
  <2>3. \A i \in DOMAIN Held(a) : Seen(a, i)' = Seen(a, i)
    BY <1>2, <1>4, <2>1, <2>2 DEF SeenAs, Writing, Applied, Rolling
  <2> QED
    BY <1>1, <2>3, QuietTold
<1>5. CASE /\ req[a].pc = "chain" /\ \A i \in DOMAIN Held(a) : i < req[a].at
           /\ req'[a].pc = "done" /\ ~req'[a].errored
  <2>1. ~Ending(a) /\ ~Creating(a)
    BY <1>5 DEF Ending, Creating
  <2>2. \A i \in DOMAIN Held(a) : rows[Row(a, i)].verdict # "none"
    BY <1>5 DEF Settled, InOrder, Deploying, Verdict
  <2>3. \A i \in DOMAIN Held(a) : Seen(a, i)' = Seen(a, i)
    BY <1>2, <2>1, <2>2 DEF SeenAs
  <2> QED
    BY <1>1, <2>3, QuietTold
<1>6. CASE /\ req[a].pc = "chain" /\ req[a].at \in DOMAIN Held(a) /\ req[a].by = 0
           /\ req'[a].pc = "pull" /\ req'[a].at = req[a].at /\ req'[a].by = 0
  <2>1. ~Ending(a) /\ ~Creating(a)
    BY <1>6 DEF Ending, Creating
  <2>2. PICK k \in DOMAIN Held(a) : k = req[a].at
    BY <1>6
  <2>3. k \in Nat /\ rows[Row(a, k)].verdict = "none" /\ rows[Row(a, k)].status = "deploying"
    <3>1. k \in Nat /\ Verdict(a, k) = "none"
      BY <1>6, <2>2, ByIs DEF Settled, InOrder, Deploying
    <3> QED
      BY <3>1, WaitsIs DEF Verdict
  <2>4. Seen(a, k)' = "deploying"
    BY <1>2, <1>6, <2>1, <2>2, <2>3 DEF SeenAs, Rolling
  <2>5. \A i \in DOMAIN Held(a) \ {k} : Seen(a, i)' = Seen(a, i)
    BY <1>2, <1>6, <2>1, <2>2 DEF SeenAs, Rolling
  <2>6. Told' = [Told EXCEPT ![a][k] = "deploying"]
    BY <1>1, <2>4, <2>5, OneTold
  <2>7. Chain!Earlier(a, k, Chain!Healthy) /\ Told[a][k] = "waiting"
    BY <1>6, <2>2, EarlierTold DEF Deploying, Rolling
  <2>8. DOMAIN Told[a] = DOMAIN Held(a)
    BY ToldIs
  <2> QED
    BY <2>6, <2>7, <2>8 DEF Chain!Start, Chain!Becomes
<1> QED
  BY <1>3, <1>4, <1>5, <1>6 DEF Quiet

LEMMA ContainingTold ==
    ASSUME Settled, [Next]_vars, ~conduct.careless, ~Reboot, NEW a \in Applies, Containing(a)
    PROVE  Told' = Told
<1>1. /\ Alone1(a) /\ Held(a)' = Held(a) /\ req[a].pc = "pull" /\ req'[a].pc = "probe" /\ req'[a].at = req[a].at
      /\ ~Creating(a) /\ ~Ending(a)
  BY DEF Containing, Creating, Ending
<1>2. \A i \in DOMAIN Held(a) : Seen(a, i)' = Seen(a, i)
  BY <1>1, SeenStays DEF SeenAs, Rolling
<1> QED
  BY <1>1, <1>2, QuietTold

\* A boot says failed of what has not ended, or leaves it as it is.
LEMMA IsLost ==
    ASSUME Settled, Next, ~conduct.careless, Reboot
    PROVE  Chain!Lost
<1>1. ASSUME NEW a \in Applies PROVE Held(a)' = Held(a)
  <2>1. ~Creating(a)
    BY Reboots DEF Creating, Alone1, Settled
  <2> QED
    BY <2>1, HeldCases DEF Settled
<1>2. ASSUME NEW a \in Applies, NEW i \in DOMAIN Held(a) PROVE Seen(a, i)' \in Chain!Fates(Seen(a, i))
  <2> DEFINE row == rows[Row(a, i)]
             later == rows'[Row(a, i)]
  <2>1. Held(a)' = Held(a) /\ req[a].pc # "idle" /\ Row(a, i) \in 1..MaxRows /\ row # NoRow
    BY <1>1, <1>2, HeldItem DEF Settled, RowsHeld
  <2>2. req'[a].pc = "done" /\ ~req'[a].errored
    <3>1. req'[a] = [pc |-> "done", items |-> req[a].items, errored |-> FALSE]
      BY <2>1, Reboots DEF Settled, Ended
    <3> QED
      BY <3>1
  <2>3. later = row \/ (row.status = "deploying" /\ later.status = "failed")
    <3>1. \/ later = row
          \/ Row(a, i) \in Unended /\ later = [app |-> row.app, status |-> "failed", verdict |-> "failed"]
      BY <2>1, Reboots DEF Settled
    <3> QED
      BY <3>1 DEF Unended
  <2>4. Seen(a, i) = SeenAs(req[a], i, row) /\ Seen(a, i)' = SeenAs(req'[a], i, later)
    BY <2>1, SeenIs DEF Row
  <2>5. row.status \in {"deploying", "healthy", "failed"} /\ row.verdict \in {"none", "healthy", "failed"}
    BY <2>1 DEF Settled, Base, TypeOK, IsRow
  <2>6. row.verdict = "none" => ~(req[a].pc = "done" /\ ~req[a].errored)
    BY <1>2, Reboots DEF Settled, InOrder, Verdict
  <2> HIDE DEF row, later
  <2>7. CASE row.status # "deploying"
    BY <2>3, <2>4, <2>5, <2>7 DEF SeenAs, Chain!Fates
  <2>8. CASE row.status = "deploying" /\ row.verdict # "none"
    <3>1. Seen(a, i) \in {"healthy, unsaid", "failed, unsaid"}
      BY <2>4, <2>5, <2>8, UnsaidIs DEF SeenAs
    <3>2. Seen(a, i)' \in {Seen(a, i), "failed"}
      BY <2>3, <2>4, <2>8 DEF SeenAs
    <3> QED
      BY <3>1, <3>2 DEF Chain!Fates
  <2>9. CASE row.status = "deploying" /\ row.verdict = "none"
    <3>1. Seen(a, i) \in {"waiting", "deploying"}
      BY <2>4, <2>6, <2>9 DEF SeenAs
    <3>2. Seen(a, i)' \in {"failed", "abandoned"}
      BY <2>2, <2>3, <2>4, <2>9 DEF SeenAs, Rolling
    <3> QED
      BY <3>1, <3>2 DEF Chain!Fates
  <2> QED
    BY <2>7, <2>8, <2>9
<1>3. /\ \A a \in Applies : Told[a] = [i \in DOMAIN Held(a) |-> Seen(a, i)]
      /\ \A a \in Applies : Told'[a] = [i \in DOMAIN Held(a)' |-> Seen(a, i)']
      /\ Told' = [a \in Applies |-> Told'[a]]
  BY ToldIs
<1>4. ASSUME NEW a \in Applies
      PROVE  /\ Told'[a] = [i \in DOMAIN Told[a] |-> Told'[a][i]]
             /\ \A i \in DOMAIN Told[a] : Told'[a][i] \in Chain!Fates(Told[a][i])
  <2>1. DOMAIN Told[a] = DOMAIN Held(a) /\ Told'[a] = [i \in DOMAIN Held(a) |-> Seen(a, i)']
    BY <1>1, <1>3
  <2>2. \A i \in DOMAIN Held(a) : Told[a][i] = Seen(a, i) /\ Told'[a][i] = Seen(a, i)'
    BY <1>3, <2>1
  <2>3. Told'[a] = [i \in DOMAIN Told[a] |-> Told'[a][i]]
    BY ONLY <2>1
  <2> QED
    BY <1>2, <2>1, <2>2, <2>3
<1>5. Told' = [a \in Applies |-> [i \in DOMAIN Told[a] |-> Told'[a][i]]]
  BY ONLY <1>3, <1>4
<1> QED
  BY <1>4, <1>5 DEF Chain!Lost

LEMMA ChainStep ==
    ASSUME Settled, [Next]_vars
    PROVE  Chain!Next \/ Told' = Told
<1>1. CASE conduct.careless
  <2>1. conduct' = conduct
    BY ConductKept
  <2> QED
    BY <1>1, <2>1 DEF Told
<1>2. CASE ~conduct.careless /\ Reboot
  BY <1>2, IsLost DEF Next, Chain!Next
<1>3. ASSUME ~conduct.careless, ~Reboot, NEW a \in Applies, Creating(a) \/ Ending(a) \/ Containing(a) \/ Quiet(a)
      PROVE  Chain!Next \/ Told' = Told
  <2>1. DOMAIN Told[a] = DOMAIN Held(a)
    BY <1>3, ToldIs
  <2> QED
    BY <1>3, IsPromise, IsDeploymentEnd, IsDeploymentStart, ContainingTold DEF Chain!Next
<1>4. CASE ~conduct.careless /\ ~Reboot /\ Aside
  <2>1. \A a \in Applies : Told'[a] = Told[a]
    BY <1>4, OthersTold DEF Aside
  <2>2. Told = [b \in Applies |-> Told[b]] /\ Told' = [b \in Applies |-> Told'[b]]
    BY <1>4, ToldIs
  <2> QED
    BY ONLY <2>1, <2>2
<1> QED
  BY <1>1, <1>2, <1>3, <1>4, StepCases DEF Settled

\* Every apply keeps the promise of ComposeChain: its deployments are seen one
\* at a time and in order, and none is tried after the first that failed.
THEOREM AppliesKeepTheirPromise == Spec => ChainContract
<1>1. ASSUME Init PROVE Chain!Init
  <2>1. \A a \in Applies : Held(a) = <<>>
    BY <1>1, AtFirst
  <2>2. \A a \in Applies : [i \in DOMAIN Held(a) |-> Seen(a, i)] = <<>>
    <3> SUFFICES ASSUME NEW a \in Applies PROVE [i \in DOMAIN Held(a) |-> Seen(a, i)] = <<>>
      OBVIOUS
    <3>1. DOMAIN Held(a) = 1..0
      BY <2>1
    <3>2. [i \in 1..0 |-> Seen(a, i)] \in Seq({}) /\ Len([i \in 1..0 |-> Seen(a, i)]) = 0
      OBVIOUS
    <3> QED
      BY <3>1, <3>2
  <2> QED
    BY <2>2 DEF Chain!Init, Told
<1>2. ASSUME Settled, [Next]_vars PROVE [Chain!Next]_Told
  BY <1>2, ChainStep
<1> QED
  BY <1>1, <1>2, SettledAlways, PTL DEF Spec, ChainContract, Chain!Spec

----------------------------------------------------------------------------
(* What a document asks for.                                               *)

\* Iterates in a form that can be cited for sets that are not variables.
Stays(step, S) == step \in [S -> S]
Iteration(g, S, first, step) == g \in [Nat -> S] /\ g[0] = first /\ \A n \in Nat : g[n + 1] = step[g[n]]
LEMMA IteratesIn == ASSUME NEW S, NEW first \in S, NEW step, Stays(step, S) PROVE \E g : Iteration(g, S, first, step)
<1>1. step \in [S -> S]
  BY DEF Stays
<1>2. \E g \in [Nat -> S] : g[0] = first /\ \A n \in Nat : g[n + 1] = step[g[n]]
  BY <1>1, Iterates
<1> QED
  BY <1>2 DEF Iteration

\* A function that is defined from its previous value and the number it has come to.
StaysAlong(step, S) == step \in [Nat \X S -> S]
IterationAlong(h, S, first, step) ==
    h \in [Nat -> S] /\ h[0] = first /\ \A n \in Nat : h[n + 1] = step[<<n, h[n]>>]
LEMMA IteratesAlong ==
    ASSUME NEW S, NEW first \in S, NEW step, StaysAlong(step, S)
    PROVE  \E h : IterationAlong(h, S, first, step)
<1> DEFINE T == Nat \X S
           next == [x \in T |-> <<x[1] + 1, step[x]>>]
<1>1. <<0, first>> \in T /\ next \in [T -> T]
  BY DEF StaysAlong
<1> HIDE DEF T, next
<1> DEFINE start == <<0, first>>
<1> HIDE DEF start
<1>2. PICK g \in [Nat -> T] : g[0] = start /\ \A n \in Nat : g[n + 1] = next[g[n]]
  <2>1. start \in T
    BY <1>1 DEF start
  <2>2. \E g \in [Nat -> T] : g[0] = start /\ \A n \in Nat : g[n + 1] = next[g[n]]
    <3>1. Stays(next, T)
      BY <1>1 DEF Stays
    <3>2. \E g : Iteration(g, T, start, next)
      BY <2>1, <3>1, IteratesIn
    <3> QED
      BY <3>2 DEF Iteration
  <2> QED
    BY <2>2
<1>3. \A n \in Nat : g[n] \in T /\ g[n + 1] = <<g[n][1] + 1, step[g[n]]>>
  BY <1>2 DEF next
<1> DEFINE Even == {n \in Nat : g[n][1] = n}
<1>4. Nat \subseteq Even
  <2>1. 0 \in Even
    BY <1>2 DEF start
  <2>2. \A n \in Nat : n \in Even => n + 1 \in Even
    BY <1>3
  <2> HIDE DEF Even
  <2> QED
    BY <2>1, <2>2, NatInd
<1> DEFINE h == [n \in Nat |-> g[n][2]]
<1>5. h \in [Nat -> S] /\ h[0] = first
  BY <1>2, <1>3 DEF T, start
<1>6. ASSUME NEW n \in Nat PROVE h[n + 1] = step[<<n, h[n]>>]
  <2>1. g[n] = <<n, h[n]>>
    BY <1>3, <1>4 DEF T
  <2>2. n + 1 \in Nat /\ g[n + 1] = <<g[n][1] + 1, step[g[n]]>>
    BY <1>3
  <2>3. h[n + 1] = g[n + 1][2]
    BY <2>2
  <2> QED
    BY <2>1, <2>2, <2>3
<1> HIDE DEF h
<1> QED
  BY <1>5, <1>6 DEF IterationAlong

\* The keys of a mapping are all there when they are sorted.
LEMMA SortedHas ==
    ASSUME NEW names, names \subseteq ToSet(Alphabet)
    PROVE  Sorted(names) \in Seq(names) /\ names \subseteq ToSet(Sorted(names))
<1> DEFINE S == Seq(names)
           step == [x \in Nat \X S |-> WithName(names, x[2], Alphabet[x[1] + 1])]
           N == Len(Alphabet)
<1>1. N \in Nat /\ DOMAIN Alphabet = 1..N
  BY StackAssumption DEF IsSequence
<1>2. <<>> \in S /\ step \in [Nat \X S -> S]
  <2>1. ASSUME NEW s \in S, NEW n PROVE WithName(names, s, n) \in S
    BY DEF WithName
  <2> QED
    BY <2>1
<1> HIDE DEF S, step
<1>3. PICK h \in [Nat -> S] : h[0] = <<>> /\ \A n \in Nat : h[n + 1] = step[<<n, h[n]>>]
  <2>1. \E h \in [Nat -> S] : h[0] = <<>> /\ \A n \in Nat : h[n + 1] = step[<<n, h[n]>>]
    <3>1. StaysAlong(step, S)
      BY <1>2 DEF StaysAlong
    <3>2. \E h : IterationAlong(h, S, <<>>, step)
      BY <1>2, <3>1, IteratesAlong
    <3> QED
      BY <3>2 DEF IterationAlong
  <2> QED
    BY <2>1
<1>4. \A n \in Nat : h[n + 1] = WithName(names, h[n], Alphabet[n + 1])
  BY <1>3 DEF step
<1>5. h = [n \in Nat |-> IF n = 0 THEN <<>> ELSE WithName(names, h[n - 1], Alphabet[n])]
  BY <1>3, <1>4
<1> DEFINE upTo == CHOOSE f : f = [n \in Nat |-> IF n = 0 THEN <<>> ELSE WithName(names, f[n - 1], Alphabet[n])]
<1>6. upTo = [n \in Nat |-> IF n = 0 THEN <<>> ELSE WithName(names, upTo[n - 1], Alphabet[n])]
  BY <1>5
<1>7. Sorted(names) = upTo[N]
  BY DEF Sorted
<1> HIDE DEF upTo
<1>8. \A n \in Nat : upTo[n + 1] = WithName(names, upTo[n], Alphabet[n + 1]) /\ upTo[0] = <<>>
  BY <1>6
<1> DEFINE Good == {n \in Nat : /\ upTo[n] \in Seq(names)
                                /\ \A i \in 1..n : Alphabet[i] \in names => Alphabet[i] \in ToSet(upTo[n])}
<1>9. 0 \in Good
  <2>1. upTo[0] = <<>> /\ <<>> \in Seq(names)
    BY <1>8
  <2>2. \A i \in 1..0 : Alphabet[i] \in names => Alphabet[i] \in ToSet(upTo[0])
    OBVIOUS
  <2> QED
    BY <2>1, <2>2
<1>10. ASSUME NEW n \in Nat, n \in Good PROVE n + 1 \in Good
  <2> DEFINE s == upTo[n]
             t == upTo[n + 1]
  <2>1. s \in Seq(names) /\ \A i \in 1..n : Alphabet[i] \in names => Alphabet[i] \in ToSet(s)
    BY <1>10
  <2>2. t = WithName(names, s, Alphabet[n + 1])
    BY <1>8
  <2> HIDE DEF s, t
  <2>3. t \in Seq(names) /\ ToSet(s) \subseteq ToSet(t) /\ (Alphabet[n + 1] \in names => Alphabet[n + 1] \in ToSet(t))
    <3>1. CASE Alphabet[n + 1] \in names
      <4>1. t = Append(s, Alphabet[n + 1])
        BY <2>2, <3>1 DEF WithName
      <4>2. /\ t \in Seq(names) /\ Len(t) = Len(s) + 1 /\ t[Len(s) + 1] = Alphabet[n + 1]
            /\ \A i \in 1..Len(s) : t[i] = s[i]
        BY <2>1, <3>1, <4>1
      <4>3. DOMAIN s = 1..Len(s) /\ DOMAIN t = 1..(Len(s) + 1) /\ Len(s) \in Nat
        BY <2>1, <4>2
      <4> QED
        BY <4>2, <4>3 DEF ToSet
    <3>2. CASE Alphabet[n + 1] \notin names
      BY <2>1, <2>2, <3>2 DEF WithName
    <3> QED
      BY <3>1, <3>2
  <2>4. ASSUME NEW i \in 1..(n + 1), Alphabet[i] \in names PROVE Alphabet[i] \in ToSet(t)
    <3>1. i = n + 1 \/ i \in 1..n
      OBVIOUS
    <3> QED
      BY <2>1, <2>3, <2>4, <3>1
  <2> QED
    BY <2>3, <2>4 DEF t
<1> HIDE DEF Good
<1>11. N \in Good
  BY <1>1, <1>9, <1>10, NatInd
<1>12. \A i \in 1..N : Alphabet[i] \in names => Alphabet[i] \in ToSet(Sorted(names))
  BY <1>7, <1>11 DEF Good
<1> QED
  BY <1>1, <1>7, <1>11, <1>12 DEF Good, ToSet

\* What Parse makes of a document that it accepts.
LEMMA Parses ==
    ASSUME NEW doc, Parse(doc).ok
    PROVE  /\ \A i \in DOMAIN doc.services : ~Malformed(doc.services[i])
           /\ Parse(doc).services = [i \in DOMAIN doc.services |-> Service(doc.services[i])]
           /\ Parse(doc).warnings = {<<"top-level key", k>> : k \in doc.others} \cup Unused(doc)
           /\ Parse(doc).warned = [i \in DOMAIN doc.services |->
                                     Warnings(doc.services[i]) \cup Undeclared(doc, doc.services[i])]
<1> DEFINE file == Parse(doc)
<1>1. file # Refused
  <2> HIDE DEF file
  <2> SUFFICES ASSUME file = Refused PROVE ~file.ok
    BY DEF file
  <2> QED
    BY DEF Refused
<1> QED
  BY <1>1 DEF Parse

\* An entry that is accepted is mounted or warned of.
LEMMA ShortMountIs ==
    ASSUME NEW parts, ShortMount(parts).ok
    PROVE  \/ ShortMount(parts) = Skipped
           \/ /\ ShortMount(parts).uses = {parts[1]} /\ Named(parts[1])
              /\ ShortMount(parts).warned \/ Len(parts) # 3 \/ parts[3] = ""
<1>1. ShortMount(parts) # Invalid
  <2> SUFFICES ASSUME ShortMount(parts) = Invalid PROVE FALSE
    OBVIOUS
  <2> QED
    BY DEF Invalid
<1> DEFINE warned == Len(parts) = 3 /\ parts[Len(parts)] # ""
<1>2. \/ ShortMount(parts) = Skipped
      \/ ShortMount(parts) = Mounted(parts[1], warned) /\ Named(parts[1])
  <2>1. Len(parts) \in {2, 3} => Len(parts) # 1
    OBVIOUS
  <2>2. CASE Len(parts) = 1
    BY <2>1, <2>2, Zenon DEF ShortMount
  <2>3. CASE Len(parts) \in {2, 3} /\ Named(parts[1]) /\ parts[2] # ""
    <3>1. ShortMount(parts) = Mounted(parts[1], warned)
      BY <2>1, <2>3, Zenon DEF ShortMount
    <3> QED
      BY <2>3, <3>1, Zenon
  <2>4. CASE ~(Len(parts) = 1) /\ ~(Len(parts) \in {2, 3} /\ Named(parts[1]) /\ parts[2] # "")
    BY <1>1, <2>4, Zenon DEF ShortMount
  <2> QED
    BY <2>2, <2>3, <2>4, Zenon
<1>3. warned \/ Len(parts) # 3 \/ parts[3] = ""
  OBVIOUS
<1> HIDE DEF warned
<1>4. Mounted(parts[1], warned).uses = {parts[1]} /\ Mounted(parts[1], warned).warned = warned
  BY DEF Mounted
<1> QED
  BY <1>2, <1>3, <1>4, Zenon

LEMMA LongMountIs ==
    ASSUME NEW m, LongMount(m).ok
    PROVE  LongMount(m) = Skipped \/ (LongMount(m).uses = {m.source} /\ Named(m.source))
<1>1. LongMount(m) # Invalid
  <2> SUFFICES ASSUME LongMount(m) = Invalid PROVE FALSE
    OBVIOUS
  <2> QED
    BY DEF Invalid
<1> QED
  BY <1>1 DEF LongMount, Mounted

LEMMA VolumesTranslated ==
    ASSUME NEW raw, ~Malformed(raw), NEW i \in DOMAIN raw.volumes, raw.volumes[i].form \in {"short", "long"}
    PROVE  /\ "host" \notin Mounts(raw)[i].uses
           /\ \/ Mounts(raw)[i].warned
              \/ /\ raw.volumes[i].form = "short" /\ raw.volumes[i].parts[1] \in Used(raw)
                 /\ Len(raw.volumes[i].parts) = 3 => raw.volumes[i].parts[3] = ""
              \/ raw.volumes[i].form = "long" /\ raw.volumes[i].source \in Used(raw)
<1> DEFINE v == raw.volumes[i]
           m == Mounts(raw)[i]
<1>1. m.ok
  BY DEF Malformed
<1>2. m = IF v.form = "short" THEN ShortMount(v.parts) ELSE LongMount(v)
  BY DEF Mounts
<1>3. m.uses \subseteq Used(raw)
  BY DEF Used
<1> HIDE DEF m, v
<1>4. Skipped.warned /\ Skipped.uses = {}
  BY DEF Skipped
<1>5. CASE v.form = "short"
  <2>1. m = ShortMount(v.parts)
    BY <1>2, <1>5
  <2>2. \/ m = Skipped
        \/ /\ m.uses = {v.parts[1]} /\ Named(v.parts[1])
           /\ m.warned \/ Len(v.parts) # 3 \/ v.parts[3] = ""
    BY <1>1, <2>1, ShortMountIs
  <2>3. CASE m = Skipped
    BY <1>4, <2>3 DEF m
  <2>4. CASE /\ m.uses = {v.parts[1]} /\ Named(v.parts[1])
             /\ m.warned \/ Len(v.parts) # 3 \/ v.parts[3] = ""
    <3>1. "host" \notin m.uses /\ v.parts[1] \in Used(raw)
      BY <1>3, <2>4 DEF Named
    <3> QED
      BY <1>5, <2>4, <3>1, Zenon DEF m, v
  <2> QED
    BY <2>2, <2>3, <2>4
<1>6. CASE v.form = "long"
  <2>1. m = LongMount(v)
    BY <1>2, <1>6
  <2>2. m = Skipped \/ (m.uses = {v.source} /\ Named(v.source))
    BY <1>1, <2>1, LongMountIs
  <2>3. CASE m = Skipped
    BY <1>4, <2>3 DEF m
  <2>4. CASE m.uses = {v.source} /\ Named(v.source)
    <3>1. "host" \notin m.uses /\ v.source \in Used(raw)
      BY <1>3, <2>4 DEF Named
    <3> QED
      BY <1>6, <2>4, <3>1, Zenon DEF m, v
  <2> QED
    BY <2>2, <2>3, <2>4
<1> QED
  BY <1>5, <1>6 DEF v

\* A service keeps what its document says of it.
LEMMA ServiceTranslated ==
    ASSUME NEW doc, IsDocument(doc), Parse(doc).ok, NEW i \in DOMAIN doc.services
    PROVE  Translated(doc.services[i], Parse(doc).services[i], Parse(doc).warned[i])
<1> DEFINE raw == doc.services[i]
           svc == Parse(doc).services[i]
           warned == Parse(doc).warned[i]
<1>1. ~Malformed(raw) /\ svc = Service(raw) /\ Warnings(raw) \subseteq warned
  <2>0. /\ \A j \in DOMAIN doc.services : ~Malformed(doc.services[j])
        /\ Parse(doc).services = [j \in DOMAIN doc.services |-> Service(doc.services[j])]
        /\ Parse(doc).warned = [j \in DOMAIN doc.services |->
                                  Warnings(doc.services[j]) \cup Undeclared(doc, doc.services[j])]
    BY Parses
  <2>1. ~Malformed(raw) /\ svc = Service(raw)
    BY <2>0
  <2>2. warned = Warnings(raw) \cup Undeclared(doc, raw)
    BY <2>0
  <2> HIDE DEF warned, raw, svc
  <2> QED
    BY <2>1, <2>2
<1>2. /\ IsSequence(raw.expose)
      /\ \A j \in DOMAIN raw.volumes : raw.volumes[j].form \in {"short", "long"}
      /\ raw.depends.form \in {"list", "map", "bad"}
      /\ raw.depends.form = "map" => ToSet(raw.depends.names) \subseteq ToSet(Alphabet)
  BY DEF IsDocument
<1> HIDE DEF raw, svc, warned
<1>3. /\ svc.expose = raw.expose /\ svc.env = Environment(raw).keys /\ svc.mounts = Used(raw)
      /\ svc.deps = DependsOn(raw.depends)
  BY <1>1 DEF Service
<1>4. \A k \in raw.others : <<"key", k>> \in warned
  BY <1>1 DEF Warnings
<1>5. \A j \in DOMAIN raw.expose : svc.expose[1] = raw.expose[j] \/ <<"expose", j>> \in warned
  <2> SUFFICES ASSUME NEW j \in DOMAIN raw.expose, j # 1 PROVE <<"expose", j>> \in warned
    BY <1>3
  <2>1. j \in 2..Len(raw.expose)
    BY <1>2 DEF IsSequence
  <2>2. <<"expose", j>> \in Warnings(raw)
    BY <2>1 DEF Warnings
  <2> QED
    BY <1>1, <2>2
<1>6. ASSUME NEW v \in raw.environment
      PROVE  v.key \in svc.env /\ (v.value = "none" => <<"env", v.key>> \in warned)
  <2>1. v.key \in Environment(raw).keys /\ (v.value = "none" => v.key \in Environment(raw).valueless)
    BY DEF Environment
  <2>2. v.value = "none" => <<"env", v.key>> \in Warnings(raw)
    BY <2>1 DEF Warnings
  <2> QED
    BY <1>1, <1>3, <2>1, <2>2
<1>7. ASSUME NEW j \in DOMAIN raw.volumes
      PROVE  \/ <<"mount", j>> \in warned
             \/ /\ raw.volumes[j].form = "short" /\ raw.volumes[j].parts[1] \in svc.mounts
                /\ Len(raw.volumes[j].parts) = 3 => raw.volumes[j].parts[3] = ""
             \/ raw.volumes[j].form = "long" /\ raw.volumes[j].source \in svc.mounts
  <2>1. Mounts(raw)[j].warned => <<"mount", j>> \in Warnings(raw)
    BY DEF Warnings
  <2>2. \/ Mounts(raw)[j].warned
        \/ /\ raw.volumes[j].form = "short" /\ raw.volumes[j].parts[1] \in Used(raw)
           /\ Len(raw.volumes[j].parts) = 3 => raw.volumes[j].parts[3] = ""
        \/ raw.volumes[j].form = "long" /\ raw.volumes[j].source \in Used(raw)
    BY <1>1, <1>2, VolumesTranslated
  <2> QED
    BY <1>1, <1>3, <2>1, <2>2, Zenon
<1>8. ToSet(raw.depends.names) \subseteq ToSet(svc.deps)
  <2>1. raw.depends.form # "bad"
    BY <1>1 DEF Malformed
  <2>2. CASE raw.depends.form = "list"
    BY <1>3, <2>2 DEF DependsOn
  <2>3. CASE raw.depends.form = "map"
    BY <1>2, <1>3, <2>3, SortedHas DEF DependsOn
  <2> QED
    BY <1>2, <2>1, <2>2, <2>3
<1>9. "host" \notin svc.mounts
  <2>1. \A j \in DOMAIN raw.volumes : "host" \notin Mounts(raw)[j].uses
    BY <1>1, <1>2, VolumesTranslated
  <2> QED
    BY <1>3, <2>1 DEF Used
<1> QED
  BY <1>4, <1>5, <1>6, <1>7, <1>8, <1>9, Zenon DEF Translated, raw, svc, warned

\* What a request plans is what Parse made of its document.
IsParsed(r) == IsDocument(r.doc) /\ r.file = Parse(r.doc) /\ r.file.ok
FilesParsed == \A a \in Applies : req[a].pc \in Planning => IsParsed(req[a])

LEMMA ToPlanning == ASSUME Base, [Next]_vars, NEW a \in Applies, req'[a].pc \in Planning
                    PROVE  Begin(a) \/ ReadExisting(a) \/ req'[a] = req[a]
<1>1. ASSUME Acts(a) PROVE Begin(a) \/ ReadExisting(a)
  <2>1. CASE Begin(a) \/ ReadExisting(a)
    BY <2>1
  <2>2. CASE StoreFails(a) \/ Return(a) \/ (Give500(a) /\ Handler(a))
    <3>1. req[a].pc # "idle"
      BY <2>2 DEF StoreFails, Return, Handler, ReadExisting, ReadTaken, Upsert, Declare, Recommend, ListEnv, WriteEnv, CreateRow
    <3> QED
      BY <2>2, <3>1, Stops DEF Planning
  <2>3. CASE /\ Upsert(a) \/ Declare(a) \/ Recommend(a) \/ ListEnv(a) \/ WriteEnv(a) \/ CreateRow(a)
             /\ ~Give500(a)
    BY <2>3, Handled DEF Planning
  <2>4. CASE Start(a) \/ CreateContainer(a)
    <3>1. \/ req'[a] = [pc |-> "pull", items |-> req[a].items, at |-> req[a].at, by |-> 0]
          \/ req'[a] = [pc |-> "probe", items |-> req[a].items, at |-> req[a].at, by |-> 0]
      BY <2>4, RollsOn
    <3>2. req'[a].pc \in {"pull", "probe"}
      BY ONLY <3>1
    <3> QED
      BY <3>2 DEF Planning
  <2>5. CASE Reject(a) \/ Succeed(a) \/ Fail(a) \/ Abort(a)
    <3>1. \E by : req'[a] = [pc |-> "chain", items |-> req[a].items, at |-> req[a].at + 1, by |-> by]
      BY <2>5, Moved
    <3>2. req'[a].pc = "chain"
      BY ONLY <3>1
    <3> QED
      BY <3>2 DEF Planning
  <2>6. CASE ReadTaken(a)
    <3>1. \/ Goes(a, Ended(req[a], FALSE)) \/ Goes(a, Orchestrate(<<>>))
          \/ \E plan, project : Goes(a, Write(<<>>, plan, project, 1))
      BY <2>6 DEF ReadTaken
    <3>2. CASE Goes(a, Ended(req[a], FALSE))
      BY <3>2, GoesTo DEF Base, Ended, Planning
    <3>3. CASE Goes(a, Orchestrate(<<>>))
      BY <3>3, GoesTo DEF Base, Orchestrate, Planning
    <3>4. ASSUME NEW plan, NEW project, Goes(a, Write(<<>>, plan, project, 1))
          PROVE  req'[a].pc = "upsert"
      BY <3>4, GoesTo DEF Base, Write
    <3> QED
      BY <3>1, <3>2, <3>3, <3>4 DEF Planning
  <2> QED
    BY <1>1, <2>1, <2>2, <2>3, <2>4, <2>5, <2>6 DEF Acts, Handler, Deploys
<1>2. ASSUME NEW b \in Applies, b # a, Acts(b) PROVE req'[a] = req[a]
  BY <1>2, OthersStay
<1>3. CASE Reboot
  BY <1>3, Reboots DEF Idle, Ended, Planning
<1>4. CASE Crash \/ UNCHANGED vars \/ \E s \in Slugs : DeleteApp(s) \/ PutEnv(s)
  BY <1>4 DEF Crash, vars, DeleteApp, PutEnv
<1> QED
  BY <1>1, <1>2, <1>3, <1>4 DEF Next, Acts

LEMMA FilesParsedStep == ASSUME Base, FilesParsed, [Next]_vars PROVE FilesParsed'
<1> SUFFICES ASSUME NEW a \in Applies, req'[a].pc \in Planning PROVE IsParsed(req'[a])
  BY DEF FilesParsed
<1>1. CASE Begin(a)
  <2>1. PICK u \in Uploads[conduct.uploads][a] :
           LET file == Parse(u.doc)
               project == IF u.query # "" THEN u.query ELSE u.doc.name
           IN  \/ Goes(a, Ended([items |-> <<>>], FALSE))
               \/ file.ok /\ Goes(a, [pc |-> "existing", items |-> <<>>, doc |-> u.doc, file |-> file,
                                      project |-> project, dry |-> u.dry, existing |-> <<>>])
    BY <1>1 DEF Begin
  <2>2. ~Goes(a, Ended([items |-> <<>>], FALSE))
    <3> SUFFICES ASSUME Goes(a, Ended([items |-> <<>>], FALSE)) PROVE FALSE
      OBVIOUS
    <3>1. req'[a].pc = "done"
      BY GoesTo DEF Base, Ended
    <3> QED
      BY <3>1 DEF Planning
  <2>3. ASSUME NEW project,
               Goes(a, [pc |-> "existing", items |-> <<>>, doc |-> u.doc, file |-> Parse(u.doc),
                        project |-> project, dry |-> u.dry, existing |-> <<>>])
        PROVE  req'[a].doc = u.doc /\ req'[a].file = Parse(u.doc)
    BY <2>3, GoesTo DEF Base
  <2>4. req'[a].doc = u.doc /\ req'[a].file = Parse(u.doc) /\ Parse(u.doc).ok
    BY <2>1, <2>2, <2>3
  <2>5. IsDocument(u.doc)
    BY StackAssumption DEF Base, TypeOK
  <2> QED
    BY <2>4, <2>5 DEF IsParsed
<1>2. CASE ReadExisting(a)
  <2>1. req[a].pc = "existing" /\ \E x : req'[a] = [req[a] EXCEPT !.pc = "taken", !.existing = x]
    BY <1>2, GoesTo DEF ReadExisting, Base
  <2>2. req'[a].doc = req[a].doc /\ req'[a].file = req[a].file
    BY <2>1 DEF Base, RequestOK, Planning
  <2> QED
    BY <2>1, <2>2 DEF FilesParsed, Planning, IsParsed
<1>3. CASE req'[a] = req[a]
  BY <1>3 DEF FilesParsed
<1> QED
  BY <1>1, <1>2, <1>3, ToPlanning

LEMMA FilesAlways == Spec => [](Base /\ FilesParsed)
<1>1. Init => Base /\ FilesParsed
  <2>1. Init => FilesParsed
    BY DEF Init, Idle, FilesParsed, Planning
  <2> QED
    BY <2>1, BaseStart
<1>2. Base /\ FilesParsed /\ [Next]_vars => (Base /\ FilesParsed)'
  BY BaseStep, FilesParsedStep
<1> QED
  BY <1>1, <1>2, PTL DEF Spec

\* What a document asks for is translated or warned of, whatever it is (Parse,
\* parseService and the parsers of its fields).
THEOREM NothingIsDropped == Spec => []NothingDropped
<1>1. ASSUME FilesParsed, NEW a \in Applies, req[a].pc = "existing"
      PROVE  LET doc == req[a].doc
                 file == req[a].file
             IN  /\ \A i \in DOMAIN doc.services :
                       Translated(doc.services[i], file.services[i], file.warned[i])
                 /\ \A k \in doc.others : <<"top-level key", k>> \in file.warnings
                 /\ \A v \in doc.volumes.names :
                       \/ <<"unused", v>> \in file.warnings
                       \/ \E i \in DOMAIN file.services : v \in file.services[i].mounts
  <2> DEFINE doc == req[a].doc
             file == req[a].file
  <2>1. IsDocument(doc) /\ file = Parse(doc) /\ file.ok
    BY <1>1 DEF FilesParsed, IsParsed, Planning
  <2> HIDE DEF doc, file
  <2>2. /\ file.services = [i \in DOMAIN doc.services |-> Service(doc.services[i])]
        /\ file.warnings = {<<"top-level key", k>> : k \in doc.others} \cup Unused(doc)
    BY <2>1, Parses
  <2>3. \A i \in DOMAIN doc.services : Translated(doc.services[i], file.services[i], file.warned[i])
    BY <2>1, ServiceTranslated
  <2>4. \A k \in doc.others : <<"top-level key", k>> \in file.warnings
    BY <2>2
  <2>5. ASSUME NEW v \in doc.volumes.names
        PROVE  \/ <<"unused", v>> \in file.warnings
               \/ \E i \in DOMAIN file.services : v \in file.services[i].mounts
    <3>1. CASE \A i \in DOMAIN doc.services : v \notin Used(doc.services[i])
      <4>1. <<"unused", v>> \in Unused(doc)
        BY <3>1 DEF Unused
      <4> QED
        BY <2>2, <4>1
    <3>2. ASSUME NEW i \in DOMAIN doc.services, v \in Used(doc.services[i])
          PROVE  i \in DOMAIN file.services /\ v \in file.services[i].mounts
      <4>1. i \in DOMAIN file.services /\ file.services[i] = Service(doc.services[i])
        BY <2>2
      <4> QED
        BY <3>2, <4>1 DEF Service
    <3> QED
      BY <3>1, <3>2
  <2> QED
    BY <2>3, <2>4, <2>5 DEF doc, file
<1>2. FilesParsed => NothingDropped
  BY <1>1 DEF NothingDropped
<1> QED
  BY <1>2, FilesAlways, PTL

\* The dependencies of an accepted service are a sequence.
LEMMA DepsAreSequences ==
    ASSUME NEW doc, IsDocument(doc), Parse(doc).ok
    PROVE  IsFile(Parse(doc))
<1> DEFINE file == Parse(doc)
           N == Len(doc.services)
<1>1. /\ file.services = [i \in DOMAIN doc.services |-> Service(doc.services[i])]
      /\ \A i \in DOMAIN doc.services : ~Malformed(doc.services[i])
  BY Parses
<1>2. N \in Nat /\ DOMAIN doc.services = 1..N
  BY DEF IsDocument, IsSequence
<1> HIDE DEF file
<1>3. file.services = [i \in 1..N |-> file.services[i]] /\ \A i \in 1..N : file.services[i] = Service(doc.services[i])
  BY <1>1, <1>2
<1>4. Len(file.services) = N /\ Positions(file) = 1..N
  BY <1>2, <1>3, FunctionIsSeq DEF Positions
<1>5. ASSUME NEW p \in 1..N PROVE Len(Deps(file, p)) \in Nat /\ DOMAIN Deps(file, p) = 1..Len(Deps(file, p))
  <2> DEFINE on == doc.services[p].depends
  <2>1. Deps(file, p) = DependsOn(on)
    <3>1. file.services[p] = Service(doc.services[p])
      BY <1>3
    <3> QED
      BY <3>1 DEF Deps, Service
  <2>2. /\ on.form \in {"list", "map", "bad"} /\ on.form # "bad"
        /\ on.form = "list" => IsSequence(on.names)
        /\ on.form = "map" => ToSet(on.names) \subseteq ToSet(Alphabet)
    BY <1>1, <1>2 DEF IsDocument, Malformed
  <2> HIDE DEF on
  <2>3. CASE on.form = "list"
    BY <2>1, <2>2, <2>3 DEF DependsOn, IsSequence
  <2>4. CASE on.form = "map"
    <3>1. Deps(file, p) \in Seq(ToSet(on.names))
      BY <2>1, <2>2, <2>4, SortedHas DEF DependsOn
    <3> QED
      BY <3>1
  <2> QED
    BY <2>2, <2>3, <2>4
<1> QED
  BY <1>2, <1>4, <1>5 DEF IsFile, Sequenced, file

----------------------------------------------------------------------------
(* The cycle that is named.                                                *)

DependsIn(f, p, S) == \A i \in DOMAIN Deps(f, p) : DepAt(f, p, i) \in S

\* Among any of these services there is one that depends on none of the others.
WellFounded(f, S) ==
    /\ \A p \in S : DependsIn(f, p, S)
    /\ \A R \in SUBSET S : R # {} => \E p \in R : \A i \in DOMAIN Deps(f, p) : DepAt(f, p, i) \notin R

\* What the search holds: a path along the dependencies, of services that are
\* not black, and black ones among which there is no cycle.
Colored(f, s) ==
    /\ s = [path |-> s.path, black |-> s.black]
    /\ s.path \in Seq(Positions(f)) /\ s.black \subseteq Positions(f)
    /\ \A i, j \in 1..Len(s.path) : i # j => s.path[i] # s.path[j]
    /\ \A i \in 1..Len(s.path) : s.path[i] \notin s.black
    /\ \A i \in 1..(Len(s.path) - 1) : <<s.path[i], s.path[i + 1]>> \in Edges(f)
    /\ Cardinality(ToSet(s.path)) = Len(s.path)
    /\ WellFounded(f, s.black)

Weight(s) == 2 * Cardinality(s.black) + Len(s.path)

\* The elements of a sequence, and of one that is longer by one.
LEMMA ElementsOf ==
    ASSUME NEW X, NEW s \in Seq(X), NEW x \in X
    PROVE  /\ ToSet(s) = {s[i] : i \in 1..Len(s)} /\ ToSet(s) \subseteq X
           /\ ToSet(Append(s, x)) = ToSet(s) \cup {x}
<1>1. DOMAIN s = 1..Len(s) /\ Len(s) \in Nat /\ \A i \in 1..Len(s) : s[i] \in X
  BY LenProperties, ElementOfSeq
<1>2. ToSet(s) = {s[i] : i \in 1..Len(s)} /\ ToSet(s) \subseteq X
  BY <1>1 DEF ToSet
<1> DEFINE t == Append(s, x)
<1>3. /\ t \in Seq(X) /\ Len(t) = Len(s) + 1 /\ t[Len(s) + 1] = x /\ \A i \in 1..Len(s) : t[i] = s[i]
      /\ DOMAIN t = 1..Len(t)
  BY AppendProperties, LenProperties
<1> HIDE DEF t
<1>4. ToSet(t) = ToSet(s) \cup {x}
  <2>1. ToSet(t) = {t[i] : i \in 1..(Len(s) + 1)}
    BY <1>3 DEF ToSet
  <2>2. \A i : i \in 1..(Len(s) + 1) <=> i \in 1..Len(s) \/ i = Len(s) + 1
    BY <1>1
  <2> QED
    BY <1>2, <1>3, <2>1, <2>2
<1> QED
  BY <1>2, <1>4 DEF t

\* What is ahead of a path that is empty, and of one that is not.
LEMMA AheadIs ==
    ASSUME NEW f, IsFile(f), ~Undefined(f), NEW s, Colored(f, s)
    PROVE  /\ Ahead(f, s) = 0 \/ Ahead(f, s) \in Positions(f) \ s.black
           /\ 0 \notin Positions(f)
           /\ s.path = <<>> /\ Ahead(f, s) = 0 => s.black = Positions(f)
           /\ s.path # <<>> => /\ Last(s.path) \in Positions(f)
                               /\ Ahead(f, s) = 0 => DependsIn(f, Last(s.path), s.black)
                               /\ Ahead(f, s) # 0 => <<Last(s.path), Ahead(f, s)>> \in Edges(f)
<1> DEFINE looks == Looks(f, s.path)
           left == {i \in DOMAIN looks : looks[i] \notin s.black}
<1>1. Ahead(f, s) = IF left = {} THEN 0 ELSE looks[Min(left)]
  BY DEF Ahead
<1>2. Positions(f) \subseteq Nat \ {0} /\ 0 \notin Positions(f)
  BY DEF IsFile, Sequenced
<1>3. ASSUME NEW T, T \subseteq Nat, T # {} PROVE Min(T) \in T
  BY <1>3, LeastOf DEF Min
<1>4. CASE s.path = <<>>
  <2>1. looks = [p \in Positions(f) |-> p]
    BY <1>4 DEF Looks
  <2>2. left = Positions(f) \ s.black
    BY <2>1
  <2>3. left # {} => Min(left) \in left
    BY <1>2, <1>3, <2>2
  <2>4. left # {} => looks[Min(left)] = Min(left)
    BY <2>1, <2>2, <2>3
  <2> HIDE DEF looks, left
  <2> QED
    BY <1>1, <1>2, <1>4, <2>2, <2>3, <2>4 DEF Colored
<1>5. CASE s.path # <<>>
  <2> DEFINE p == Last(s.path)
  <2>1. p \in Positions(f)
    <3>1. s.path \in Seq(Positions(f))
      BY DEF Colored
    <3>2. Len(s.path) \in Nat \ {0}
      BY <1>5, <3>1, EmptySeq
    <3> QED
      BY <3>1, <3>2, ElementOfSeq DEF Last
  <2>2. looks = [i \in DOMAIN Deps(f, p) |-> DepAt(f, p, i)]
    BY <1>5 DEF Looks
  <2> HIDE DEF p
  <2>3. left = {i \in DOMAIN Deps(f, p) : DepAt(f, p, i) \notin s.black}
    BY <2>2
  <2>4. DOMAIN Deps(f, p) \subseteq Nat
    BY <2>1 DEF IsFile
  <2>5. left # {} => Min(left) \in left
    BY <1>3, <2>3, <2>4
  <2>6. left # {} => looks[Min(left)] = DepAt(f, p, Min(left)) /\ Min(left) \in DOMAIN Deps(f, p)
    BY <2>2, <2>3, <2>5
  <2>7. left # {} => /\ Ahead(f, s) \in Positions(f) /\ <<p, Ahead(f, s)>> \in Edges(f)
                     /\ Ahead(f, s) \notin s.black
    <3> HIDE DEF looks
    <3>1. left # {} => Ahead(f, s) = DepAt(f, p, Min(left))
      BY <1>1, <2>6
    <3>2. left # {} => DepAt(f, p, Min(left)) \notin s.black
      BY <2>3, <2>5
    <3> HIDE DEF left
    <3> QED
      BY <2>1, <2>6, <3>1, <3>2, EdgesOf
  <2>8. left = {} => Ahead(f, s) = 0 /\ DependsIn(f, p, s.black)
    <3>1. left = {} => DependsIn(f, p, s.black)
      BY <2>3 DEF DependsIn
    <3> HIDE DEF looks, left
    <3> QED
      BY <1>1, <3>1
  <2> HIDE DEF looks, left
  <2> QED
    BY <1>2, <1>5, <2>1, <2>7, <2>8 DEF p
<1> QED
  BY <1>4, <1>5

\* A service whose dependencies are all black makes no cycle of black ones.
LEMMA BlackGrows ==
    ASSUME NEW f, NEW S, WellFounded(f, S), NEW p, p \notin S, DependsIn(f, p, S)
    PROVE  WellFounded(f, S \cup {p})
<1>1. \A q \in S \cup {p} : DependsIn(f, q, S \cup {p})
  BY DEF WellFounded, DependsIn
<1>2. ASSUME NEW R \in SUBSET (S \cup {p}), R # {}
      PROVE  \E x \in R : \A i \in DOMAIN Deps(f, x) : DepAt(f, x, i) \notin R
  <2>1. CASE R \cap S = {}
    <3>1. p \in R /\ R \subseteq {p}
      BY <1>2, <2>1
    <3> QED
      BY <2>1, <3>1 DEF DependsIn
  <2>2. CASE R \cap S # {}
    <3>1. PICK x \in R \cap S : \A i \in DOMAIN Deps(f, x) : DepAt(f, x, i) \notin R \cap S
      BY <2>2 DEF WellFounded
    <3>2. \A i \in DOMAIN Deps(f, x) : DepAt(f, x, i) \in S
      BY <3>1 DEF WellFounded, DependsIn
    <3> QED
      BY <3>1, <3>2
  <2> QED
    BY <2>1, <2>2
<1> QED
  BY <1>1, <1>2 DEF WellFounded

\* A service that is entered.
LEMMA EnteredRight ==
    ASSUME NEW f, IsFile(f), ~Undefined(f), NEW s, Colored(f, s), NEW q \in Positions(f) \ s.black,
           q \notin ToSet(s.path), s.path # <<>> => <<Last(s.path), q>> \in Edges(f),
           NEW t, t = [s EXCEPT !.path = Append(@, q)]
    PROVE  Colored(f, t) /\ Weight(t) = Weight(s) + 1
<1> DEFINE u == s.path
           n == Len(u)
           w == Append(u, q)
<1>1. /\ s = [path |-> u, black |-> s.black] /\ u \in Seq(Positions(f)) /\ s.black \subseteq Positions(f)
      /\ \A i, j \in 1..n : i # j => u[i] # u[j]
      /\ \A i \in 1..n : u[i] \notin s.black
      /\ \A i \in 1..(n - 1) : <<u[i], u[i + 1]>> \in Edges(f)
      /\ Cardinality(ToSet(u)) = n /\ WellFounded(f, s.black)
  BY DEF Colored
<1>2. t.path = w /\ t.black = s.black /\ t = [path |-> w, black |-> s.black]
  BY <1>1
<1>3. /\ n \in Nat /\ w \in Seq(Positions(f)) /\ Len(w) = n + 1 /\ w[n + 1] = q
      /\ \A i \in 1..n : w[i] = u[i]
  BY <1>1, AppendProperties, LenProperties
<1>4. ToSet(w) = ToSet(u) \cup {q} /\ ToSet(u) = {u[i] : i \in 1..n} /\ ToSet(u) \subseteq Positions(f)
  BY <1>1, ElementsOf
<1>5. Cardinality(ToSet(w)) = n + 1
  <2>1. IsFiniteSet(ToSet(u))
    BY <1>4, Counted, FS_Subset DEF IsFile, Sequenced
  <2> HIDE DEF w
  <2> QED
    BY <1>1, <1>4, <2>1, FS_AddElement
<1>6. \A i \in 1..n : u[i] # q
  BY <1>4
<1>7. u # <<>> => n > 0 /\ Last(u) = u[n] /\ <<u[n], q>> \in Edges(f)
  BY <1>1, EmptySeq DEF Last
<1>8. n > 0 => u # <<>>
  BY <1>1, EmptySeq
<1> HIDE DEF u, w, n
<1>9. \A i : i \in 1..(n + 1) <=> i \in 1..n \/ i = n + 1
  BY <1>3
<1>10. \A i, j \in 1..(n + 1) : i # j => w[i] # w[j]
  <2> SUFFICES ASSUME NEW i \in 1..(n + 1), NEW j \in 1..(n + 1), i # j PROVE w[i] # w[j]
    OBVIOUS
  <2>1. (i \in 1..n \/ i = n + 1) /\ (j \in 1..n \/ j = n + 1)
    BY <1>9
  <2>2. CASE i \in 1..n /\ j \in 1..n
    BY <1>1, <1>3, <2>2
  <2>3. CASE i = n + 1 /\ j \in 1..n
    BY <1>3, <1>6, <2>3
  <2>4. CASE i \in 1..n /\ j = n + 1
    BY <1>3, <1>6, <2>4
  <2> QED
    BY <2>1, <2>2, <2>3, <2>4
<1>11. \A i \in 1..(n + 1) : w[i] \notin s.black
  BY <1>1, <1>3, <1>9
<1>12. \A i \in 1..n : <<w[i], w[i + 1]>> \in Edges(f)
  <2> SUFFICES ASSUME NEW i \in 1..n PROVE <<w[i], w[i + 1]>> \in Edges(f)
    OBVIOUS
  <2>1. CASE i = n
    <3>1. n > 0 /\ n \in 1..n
      BY <1>3, <2>1
    <3>2. <<u[n], q>> \in Edges(f)
      BY <1>7, <1>8, <3>1
    <3> QED
      BY <1>3, <2>1, <3>1, <3>2
  <2>2. CASE i # n
    <3>1. i \in 1..(n - 1) /\ i + 1 \in 1..n
      BY <1>3, <2>2
    <3> QED
      BY <1>1, <1>3, <3>1
  <2> QED
    BY <2>1, <2>2
<1>13. (n + 1) - 1 = n
  BY <1>3
<1>14. Colored(f, t)
  <2>1. t.path = w /\ t.black = s.black /\ Len(t.path) = n + 1 /\ t = [path |-> t.path, black |-> t.black]
    BY <1>2, <1>3
  <2>2. /\ t.path \in Seq(Positions(f)) /\ t.black \subseteq Positions(f)
        /\ Cardinality(ToSet(t.path)) = Len(t.path) /\ WellFounded(f, t.black)
    BY <1>1, <1>3, <1>5, <2>1
  <2>3. \A i, j \in 1..Len(t.path) : i # j => t.path[i] # t.path[j]
    BY <1>10, <2>1
  <2>4. \A i \in 1..Len(t.path) : t.path[i] \notin t.black
    BY <1>11, <2>1
  <2>5. \A i \in 1..(Len(t.path) - 1) : <<t.path[i], t.path[i + 1]>> \in Edges(f)
    BY <1>12, <1>13, <2>1
  <2> QED
    BY <2>1, <2>2, <2>3, <2>4, <2>5 DEF Colored
<1>15. Cardinality(s.black) \in Nat
  BY <1>1, Counted, FS_Subset, FS_CardinalityType DEF IsFile, Sequenced
<1> QED
  BY <1>2, <1>3, <1>14, <1>15 DEF Weight, u, n

\* A service that is left.
LEMMA LeftRight ==
    ASSUME NEW f, IsFile(f), ~Undefined(f), NEW s, Colored(f, s), s.path # <<>>,
           DependsIn(f, Last(s.path), s.black),
           NEW t, t = [path |-> Front(s.path), black |-> s.black \cup {Last(s.path)}]
    PROVE  Colored(f, t) /\ Weight(t) = Weight(s) + 1
<1> DEFINE u == s.path
           n == Len(u)
           w == Front(u)
           p == Last(u)
<1>1. /\ u \in Seq(Positions(f)) /\ s.black \subseteq Positions(f)
      /\ \A i, j \in 1..n : i # j => u[i] # u[j]
      /\ \A i \in 1..n : u[i] \notin s.black
      /\ \A i \in 1..(n - 1) : <<u[i], u[i + 1]>> \in Edges(f)
      /\ Cardinality(ToSet(u)) = n /\ WellFounded(f, s.black)
  BY DEF Colored
<1>2. n \in Nat \ {0} /\ p = u[n] /\ \A i \in 1..n : u[i] \in Positions(f)
  BY <1>1, EmptySeq, ElementOfSeq DEF Last
<1>3. /\ w \in Seq(Positions(f)) /\ Len(w) = n - 1 /\ \A i \in 1..(n - 1) : w[i] = u[i]
  <2>1. /\ SubSeq(u, 1, n - 1) \in Seq(Positions(f))
        /\ Len(SubSeq(u, 1, n - 1)) = IF 1 <= n - 1 THEN (n - 1) - 1 + 1 ELSE 0
        /\ \A i \in 1..((n - 1) - 1 + 1) : SubSeq(u, 1, n - 1)[i] = u[1 + i - 1]
    <3>1. n - 1 \in Int /\ 1 \in Int /\ \A i \in 1..(n - 1) : u[i] \in Positions(f)
      BY <1>2
    <3> HIDE DEF n
    <3> QED
      BY <3>1, SubSeqProperties
  <2>2. w = SubSeq(u, 1, n - 1)
    BY DEF Front
  <2> HIDE DEF w, n, u
  <2>3. \A i \in 1..(n - 1) : 1 + i - 1 = i /\ i \in 1..((n - 1) - 1 + 1)
    BY <1>2
  <2> QED
    BY <1>2, <2>1, <2>2, <2>3
<1>4. t.path = w /\ t.black = s.black \cup {p} /\ t = [path |-> w, black |-> s.black \cup {p}]
  OBVIOUS
<1>5. IsFiniteSet(ToSet(u)) /\ IsFiniteSet(s.black) /\ Cardinality(s.black) \in Nat
  <2>1. IsFiniteSet(Positions(f))
    BY Counted DEF IsFile, Sequenced
  <2>2. ToSet(u) \subseteq Positions(f)
    BY <1>1, <1>2, ElementsOf
  <2> QED
    BY <1>1, <2>1, <2>2, FS_Subset, FS_CardinalityType
<1>6. ToSet(u) = {u[i] : i \in 1..n}
  BY <1>1, <1>2, ElementsOf
<1>7. ToSet(w) = {w[i] : i \in 1..Len(w)}
  BY <1>2, <1>3, ElementsOf
<1> HIDE DEF u, n, w, p
<1>8. \A i : i \in 1..n <=> i \in 1..(n - 1) \/ i = n
  BY <1>2
<1>9. ToSet(w) = ToSet(u) \ {p}
  <2>1. ASSUME NEW i \in 1..(n - 1) PROVE w[i] \in ToSet(u) /\ w[i] # p
    <3>1. i \in 1..n /\ n \in 1..n /\ i # n
      BY <1>2
    <3> QED
      BY <1>1, <1>2, <1>3, <1>6, <3>1
  <2>2. ASSUME NEW i \in 1..n, u[i] # p PROVE u[i] \in ToSet(w)
    <3>1. i \in 1..(n - 1)
      BY <1>2, <1>8, <2>2
    <3> QED
      BY <1>3, <1>7, <3>1
  <2> QED
    BY <1>3, <1>6, <1>7, <2>1, <2>2
<1>10. Cardinality(ToSet(w)) = n - 1
  <2>1. p \in ToSet(u)
    BY <1>2, <1>6
  <2> QED
    BY <1>1, <1>5, <1>9, <2>1, FS_RemoveElement
<1>11. p \notin s.black /\ p \in Positions(f)
  BY <1>1, <1>2
<1>12. WellFounded(f, s.black \cup {p})
  BY <1>1, <1>11, BlackGrows DEF p, u
<1>13. \A i, j \in 1..(n - 1) : i # j => w[i] # w[j]
  BY <1>1, <1>3, <1>8
<1>14. \A i \in 1..(n - 1) : w[i] \notin s.black \cup {p}
  BY <1>1, <1>2, <1>3, <1>8
<1>15. \A i \in 1..((n - 1) - 1) : <<w[i], w[i + 1]>> \in Edges(f)
  <2>1. \A i \in 1..((n - 1) - 1) : i \in 1..(n - 1) /\ i + 1 \in 1..(n - 1)
    <3>1. n \in Nat
      BY <1>2
    <3> QED
      BY ONLY <3>1
  <2> QED
    BY <1>1, <1>3, <2>1
<1>16. Colored(f, t)
  <2>1. /\ t.path = w /\ t.black = s.black \cup {p} /\ Len(t.path) = n - 1
        /\ t = [path |-> t.path, black |-> t.black] /\ t.black \subseteq Positions(f)
    BY <1>1, <1>3, <1>4, <1>11
  <2>2. /\ t.path \in Seq(Positions(f)) /\ t.black \subseteq Positions(f)
        /\ Cardinality(ToSet(t.path)) = Len(t.path) /\ WellFounded(f, t.black)
    BY <1>3, <1>10, <1>12, <2>1
  <2>3. \A i, j \in 1..Len(t.path) : i # j => t.path[i] # t.path[j]
    BY <1>13, <2>1
  <2>4. \A i \in 1..Len(t.path) : t.path[i] \notin t.black
    BY <1>14, <2>1
  <2>5. \A i \in 1..(Len(t.path) - 1) : <<t.path[i], t.path[i + 1]>> \in Edges(f)
    BY <1>15, <2>1
  <2> QED
    BY <2>1, <2>2, <2>3, <2>4, <2>5 DEF Colored
<1>17. Cardinality(s.black \cup {p}) = Cardinality(s.black) + 1
  BY <1>5, <1>11, FS_AddElement
<1>18. Weight(s) = 2 * Cardinality(s.black) + n
  BY DEF Weight, u, n
<1>19. Weight(t) = 2 * (Cardinality(s.black) + 1) + (n - 1)
  BY <1>3, <1>4, <1>17 DEF Weight
<1>20. n \in Nat
  BY <1>2
<1> QED
  BY <1>5, <1>16, <1>18, <1>19, <1>20

\* A step of the search, and where there is none to take.
LEMMA SearchedRight ==
    ASSUME NEW f, IsFile(f), ~Undefined(f), NEW s, Colored(f, s)
    PROVE  /\ Colored(f, Searched(f, s))
           /\ \/ Weight(Searched(f, s)) = Weight(s) + 1
              \/ /\ Searched(f, s) = s
                 /\ \/ s.path = <<>> /\ s.black = Positions(f)
                    \/ s.path # <<>> /\ Ahead(f, s) \in ToSet(s.path) /\ <<Last(s.path), Ahead(f, s)>> \in Edges(f)
<1> DEFINE q == Ahead(f, s)
<1>1. /\ q = 0 \/ q \in Positions(f) \ s.black
      /\ s.path = <<>> /\ q = 0 => s.black = Positions(f)
      /\ s.path # <<>> /\ q = 0 => DependsIn(f, Last(s.path), s.black)
      /\ s.path # <<>> /\ q # 0 => <<Last(s.path), q>> \in Edges(f)
      /\ 0 \notin Positions(f) /\ ToSet(s.path) \subseteq Positions(f)
      /\ s.path = <<>> => ToSet(s.path) = {}
  <2>1. ToSet(s.path) \subseteq Positions(f) /\ (s.path = <<>> => ToSet(s.path) = {})
    BY LenProperties, ElementOfSeq DEF Colored, ToSet
  <2> QED
    BY <2>1, AheadIs
<1> HIDE DEF q
<1>2. CASE q # 0 /\ q \notin ToSet(s.path)
  <2>1. Searched(f, s) = [s EXCEPT !.path = Append(@, q)]
    BY <1>2 DEF Searched, q
  <2> QED
    BY <1>1, <1>2, <2>1, EnteredRight
<1>3. CASE q = 0 /\ s.path # <<>>
  <2>1. Searched(f, s) = [path |-> Front(s.path), black |-> s.black \cup {Last(s.path)}]
    BY <1>3 DEF Searched, q
  <2> QED
    BY <1>1, <1>3, <2>1, LeftRight
<1>4. CASE ~(q # 0 /\ q \notin ToSet(s.path)) /\ ~(q = 0 /\ s.path # <<>>)
  <2>1. Searched(f, s) = s
    BY <1>4 DEF Searched, q
  <2> QED
    BY <1>1, <1>4, <2>1 DEF q
<1> QED
  BY <1>2, <1>3, <1>4

\* Among the services of a file without an order there is a cycle.
LEMMA UnorderedHasCycle ==
    ASSUME NEW f, IsFile(f), ~Undefined(f), Orders(f) = {}, WellFounded(f, Positions(f))
    PROVE  FALSE
<1> Sequenced(f)
  BY DEF IsFile
<1> DEFINE t == TopoOrder(f)
           N == Len(f.services)
           late == Positions(f) \ ToSet(t)
<1>1. Greedy(f, t) /\ Len(t) <= N /\ Len(t) # N /\ Pick(f, ToSet(t)) = 0
  BY TopoOrderGreedy, WholeIsOrder
<1>2. Positions(f) = 1..N /\ N \in Nat
  BY DEF IsFile, Sequenced
<1>3. t \in Seq(Positions(f)) /\ Len(t) \in Nat /\ Len(t) < N
  BY <1>1, <1>2 DEF Greedy
<1> HIDE DEF t
<1>4. late # {}
  <2> SUFFICES ASSUME late = {} PROVE FALSE
    OBVIOUS
  <2> DEFINE at == [p \in 1..N |-> CHOOSE k \in 1..Len(t) : t[k] = p]
  <2>1. ASSUME NEW p \in 1..N PROVE at[p] \in 1..Len(t) /\ t[at[p]] = p
    <3>1. \E k \in 1..Len(t) : t[k] = p
      BY <1>2, <1>3, LenProperties DEF ToSet
    <3> QED
      BY <3>1
  <2>2. at \in [1..N -> 1..Len(t)]
    BY <2>1
  <2> HIDE DEF at
  <2>3. at \in Injection(1..N, 1..Len(t))
    BY <2>1, <2>2 DEF Injection, IsInjective
  <2>4. Cardinality(1..N) <= Cardinality(1..Len(t))
    BY <1>3, <2>3, Counted, FS_Injection
  <2> QED
    BY <1>2, <1>3, <2>4, Counted
<1>5. PICK p \in late : \A i \in DOMAIN Deps(f, p) : DepAt(f, p, i) \notin late
  <2>1. late \in SUBSET Positions(f)
    OBVIOUS
  <2> HIDE DEF late
  <2> QED
    BY <1>4, <2>1 DEF WellFounded
<1>6. \A i \in DOMAIN Deps(f, p) : DepAt(f, p, i) \in ToSet(t)
  BY <1>5, EdgesOf
<1>7. p \in Free(f, ToSet(t))
  BY <1>5, <1>6, WaitsForNothing
<1>8. Pick(f, ToSet(t)) \in Positions(f)
  BY <1>7, Picked DEF Free
<1> QED
  BY <1>1, <1>2, <1>8

\* From the place on the path of the service that is ahead, the path is a cycle.
LEMMA ClosedIsCycle ==
    ASSUME NEW f, NEW s, Colored(f, s), NEW q \in ToSet(s.path), <<Last(s.path), q>> \in Edges(f)
    PROVE  IsCycle(f, Append(SubSeq(s.path, Min({i \in DOMAIN s.path : s.path[i] = q}), Len(s.path)), q))
<1> DEFINE u == s.path
           n == Len(u)
           k == Min({i \in DOMAIN u : u[i] = q})
           v == SubSeq(u, k, n)
           c == Append(v, q)
<1>1. /\ u \in Seq(Positions(f)) /\ n \in Nat /\ DOMAIN u = 1..n
      /\ \A i \in 1..n : u[i] \in Positions(f)
      /\ \A i \in 1..(n - 1) : <<u[i], u[i + 1]>> \in Edges(f)
  BY LenProperties, ElementOfSeq DEF Colored
<1> HIDE DEF u
<1>2. k \in 1..n /\ u[k] = q
  <2> DEFINE T == {i \in DOMAIN u : u[i] = q}
  <2>1. T # {} /\ T \subseteq Nat
    BY <1>1 DEF ToSet, u
  <2> HIDE DEF T
  <2>2. Min(T) \in T
    BY <2>1, LeastOf DEF Min
  <2> QED
    BY <1>1, <2>2 DEF T
<1> HIDE DEF n, k
<1> DEFINE m == n - k + 1
<1>3. n \in Nat /\ k \in Nat /\ m \in Nat \ {0} /\ k + m - 1 = n
  BY <1>1, <1>2
<1>4. v \in Seq(Positions(f)) /\ Len(v) = m /\ \A i \in 1..m : v[i] = u[k + i - 1]
  <2>1. \A i \in k..n : u[i] \in Positions(f)
    BY <1>1, <1>2, <1>3
  <2>2. k <= n
    BY <1>2, <1>3
  <2> QED
    BY <1>3, <2>1, <2>2, SubSeqProperties
<1> HIDE DEF m, v
<1>5. q \in Positions(f)
  BY <1>1, <1>2
<1>6. /\ c \in Seq(Positions(f)) /\ Len(c) = m + 1 /\ c[m + 1] = q
      /\ \A i \in 1..m : c[i] = v[i]
  BY <1>4, <1>5, AppendProperties
<1> HIDE DEF c
<1>7. Len(c) > 1 /\ Last(c) = q
  BY <1>3, <1>6 DEF Last
<1>8. c[1] = q
  <2>1. 1 \in 1..m /\ k + 1 - 1 = k
    BY <1>3
  <2> QED
    BY <1>2, <1>4, <1>6, <2>1
<1>9. \A i \in 1..m : <<c[i], c[i + 1]>> \in Edges(f)
  <2> SUFFICES ASSUME NEW i \in 1..m PROVE <<c[i], c[i + 1]>> \in Edges(f)
    OBVIOUS
  <2>1. c[i] = u[k + i - 1]
    BY <1>4, <1>6
  <2>2. CASE i = m
    <3>1. c[i] = u[n] /\ c[i + 1] = q
      BY <1>3, <1>6, <2>1, <2>2
    <3> QED
      BY <3>1 DEF Last, u, n
  <2>3. CASE i # m
    <3>1. i + 1 \in 1..m /\ k + i - 1 \in 1..(n - 1) /\ k + (i + 1) - 1 = (k + i - 1) + 1
      BY <1>2, <1>3, <2>3
    <3>2. c[i + 1] = u[(k + i - 1) + 1]
      BY <1>4, <1>6, <3>1
    <3> QED
      BY <1>1, <2>1, <3>1, <3>2
  <2> QED
    BY <2>2, <2>3
<1>10. Len(c) - 1 = m
  BY <1>3, <1>6
<1>11. IsCycle(f, c)
  BY <1>7, <1>8, <1>9, <1>10 DEF IsCycle
<1> QED
  BY <1>11 DEF c, v, k, n, u

\* The search ends, and names a cycle of every file that has no order.
THEOREM FindCycleRight ==
    ASSUME NEW f, IsFile(f), ~Undefined(f), Orders(f) = {}
    PROVE  IsCycle(f, FindCycle(f))
<1> DEFINE first == [path |-> <<>>, black |-> {}]
           S == {s \in [path : Seq(Positions(f)), black : SUBSET Positions(f)] : Colored(f, s)}
           step == [s \in S |-> Searched(f, s)]
           N == Len(f.services)
<1>1. N \in Nat /\ Positions(f) = 1..N
  BY DEF IsFile, Sequenced
<1>2. first \in S /\ Weight(first) = 0
  <2> DEFINE none == <<>>
  <2>1. none \in Seq(Positions(f)) /\ Len(none) = 0 /\ ToSet(none) = {}
    BY EmptySeq DEF ToSet
  <2>2. first = [path |-> none, black |-> {}] /\ first.path = none /\ first.black = {}
    OBVIOUS
  <2>3. WellFounded(f, {})
    BY DEF WellFounded
  <2> HIDE DEF none, first
  <2>4. Colored(f, first)
    BY <2>1, <2>2, <2>3, FS_EmptySet DEF Colored
  <2>5. Weight(first) = 0
    BY <2>1, <2>2, FS_EmptySet DEF Weight
  <2> QED
    BY <2>1, <2>2, <2>4, <2>5
<1>3. ASSUME NEW s PROVE s \in S <=> Colored(f, s)
  BY DEF Colored
<1> HIDE DEF S, first
<1>4. step \in [S -> S]
  <2>1. ASSUME NEW s \in S PROVE Searched(f, s) \in S
    BY <1>3, SearchedRight
  <2> QED
    BY <2>1
<1> HIDE DEF step
<1>5. PICK g \in [Nat -> S] : g[0] = first /\ \A n \in Nat : g[n + 1] = step[g[n]]
  <2>1. \A a \in S, next \in [S -> S] :
           \E g \in [Nat -> S] : g[0] = a /\ \A n \in Nat : g[n + 1] = next[g[n]]
    BY Iterates
  <2> QED
    BY <1>2, <1>4, <2>1
<1>6. \A n \in Nat : g[n + 1] = Searched(f, g[n])
  BY <1>5 DEF step
<1>7. g = [n \in Nat |-> IF n = 0 THEN first ELSE Searched(f, g[n - 1])]
  BY <1>5, <1>6
<1> DEFINE upTo == CHOOSE h : h = [n \in Nat |-> IF n = 0 THEN first ELSE Searched(f, h[n - 1])]
           end == upTo[2 * N]
           q == Ahead(f, end)
<1>8. upTo = [n \in Nat |-> IF n = 0 THEN first ELSE Searched(f, upTo[n - 1])]
  BY <1>7
<1>9. FindCycle(f) = IF end.path = <<>> THEN <<>>
                     ELSE Append(SubSeq(end.path, Min({i \in DOMAIN end.path : end.path[i] = q}), Len(end.path)), q)
  BY DEF FindCycle, first
<1> HIDE DEF upTo
<1>10. upTo[0] = first /\ \A n \in Nat : upTo[n + 1] = Searched(f, upTo[n])
  BY <1>8
<1> DEFINE Still(s) == Searched(f, s) = s
           Good == {n \in Nat : Colored(f, upTo[n]) /\ (Still(upTo[n]) \/ Weight(upTo[n]) = n)}
<1>11. 0 \in Good
  BY <1>2, <1>3, <1>10
<1>12. ASSUME NEW n \in Nat, n \in Good PROVE n + 1 \in Good
  <2>1. Colored(f, upTo[n]) /\ (Still(upTo[n]) \/ Weight(upTo[n]) = n) /\ upTo[n + 1] = Searched(f, upTo[n])
    BY <1>10, <1>12
  <2>2. /\ Colored(f, Searched(f, upTo[n]))
        /\ Weight(Searched(f, upTo[n])) = Weight(upTo[n]) + 1 \/ Still(upTo[n])
    BY <2>1, SearchedRight
  <2> QED
    BY <2>1, <2>2
<1> HIDE DEF Good
<1>13. 2 * N \in Good
  BY <1>1, <1>11, <1>12, NatInd
<1>14. Colored(f, end) /\ (Still(end) \/ Weight(end) = 2 * N)
  BY <1>13 DEF Good
<1> HIDE DEF end
<1>15. Still(end)
  <2> SUFFICES ASSUME Weight(end) = 2 * N PROVE Still(end)
    BY <1>14
  <2> DEFINE gray == ToSet(end.path)
  <2>1. /\ end.path \in Seq(Positions(f)) /\ end.black \in SUBSET Positions(f)
        /\ Cardinality(gray) = Len(end.path) /\ \A i \in 1..Len(end.path) : end.path[i] \notin end.black
    BY <1>14 DEF Colored
  <2>2. gray \in SUBSET Positions(f) /\ gray \cap end.black = {}
    BY <2>1, LenProperties, ElementOfSeq DEF ToSet
  <2>3. IsFiniteSet(Positions(f)) /\ Cardinality(Positions(f)) = N
    BY <1>1, Counted
  <2> HIDE DEF gray
  <2>4. IsFiniteSet(gray) /\ IsFiniteSet(end.black) /\ Cardinality(gray) \in Nat /\ Cardinality(end.black) \in Nat
    BY <2>1, <2>2, <2>3, FS_Subset, FS_CardinalityType
  <2>5. Cardinality(gray \cup end.black) = Cardinality(gray) + Cardinality(end.black)
    <3>1. Cardinality(gray \cup end.black)
            = Cardinality(gray) + Cardinality(end.black) - Cardinality(gray \cap end.black)
      BY <2>4, FS_Union
    <3>2. Cardinality(gray \cap end.black) = 0
      BY <2>2, FS_EmptySet
    <3> QED
      BY <2>4, <3>1, <3>2
  <2>6. Cardinality(gray \cup end.black) <= N
    <3>1. gray \cup end.black \in SUBSET Positions(f)
      BY <2>1, <2>2
    <3> QED
      BY <2>3, <3>1, FS_Subset
  <2>7. 2 * Cardinality(end.black) + Cardinality(gray) = 2 * N
    BY <2>1 DEF Weight
  <2>8. Cardinality(gray) = 0 /\ Cardinality(end.black) = N
    BY <1>1, <2>4, <2>5, <2>6, <2>7
  <2>9. end.black = Positions(f)
    BY <2>1, <2>3, <2>8, FS_Subset
  <2>10. end.path = <<>>
    BY <2>1, <2>8, EmptySeq
  <2>11. Ahead(f, end) = 0
    BY <1>14, <2>9, AheadIs
  <2> QED
    BY <2>10, <2>11 DEF Searched
<1>16. Weight(end) \in Int
  <2>1. IsFiniteSet(end.black) /\ Len(end.path) \in Nat
    BY <1>1, <1>14, Counted, FS_Subset, LenProperties DEF Colored
  <2> QED
    BY <2>1, FS_CardinalityType DEF Weight
<1>17. \/ end.path = <<>> /\ end.black = Positions(f)
       \/ end.path # <<>> /\ q \in ToSet(end.path) /\ <<Last(end.path), q>> \in Edges(f)
  BY <1>14, <1>15, <1>16, SearchedRight
<1>18. ~(end.path = <<>> /\ end.black = Positions(f))
  BY <1>14, UnorderedHasCycle DEF Colored
<1> QED
  BY <1>9, <1>14, <1>17, <1>18, ClosedIsCycle

\* PlanIsRight, for any documents: every file that a request plans is ordered, as
\* close to its document as can be; or it has no order, and the cycle that the
\* error names is one (topoOrder and findCycle).
THEOREM PlansAreRight == Spec => []PlanIsRight
<1>1. ASSUME FilesParsed, NEW a \in Applies, req[a].pc \in {"existing", "taken"} PROVE PlannedRight(req[a].file)
  <2> DEFINE f == req[a].file
  <2>1. IsDocument(req[a].doc) /\ f = Parse(req[a].doc) /\ f.ok
    BY <1>1 DEF FilesParsed, IsParsed, Planning
  <2> HIDE DEF f
  <2>2. IsFile(f)
    BY <2>1, DepsAreSequences
  <2>3. ~Undefined(f) => OrderedRight(f) /\ (Orders(f) = {} => IsCycle(f, FindCycle(f)))
    BY <2>2, TopoOrderRight, FindCycleRight
  <2> QED
    BY <2>3 DEF PlannedRight, f
<1>2. FilesParsed => PlanIsRight
  BY <1>1 DEF PlanIsRight
<1> QED
  BY <1>2, FilesAlways, PTL
=============================================================================
