---------------------------- MODULE RoutingProofs ----------------------------
(***************************************************************************)
(* For every set of models, of requests and of profiles: the round robin   *)
(* shares its turns, argmax tries first what the policies agree on, and    *)
(* the points the policies compute are on one scale.                       *)
(***************************************************************************)
EXTENDS Routing, FiniteSetTheorems, FunctionTheorems, WellFoundedInduction, TLAPS

-----------------------------------------------------------------------------
(* Sums.  The recursion of a sum goes over the subsets of what is summed.    *)

\* g gives the sum of f over each part of S.
Rec(g, f, S) ==
  g = [s \in SUBSET S |-> IF s = {} THEN 0
                          ELSE f[CHOOSE x \in s : TRUE] + g[s \ {CHOOSE x \in s : TRUE}]]

LEMMA SumIs ==
  ASSUME NEW f
  PROVE  SumOf(f) = (CHOOSE g : Rec(g, f, DOMAIN f))[DOMAIN f]
BY DEF SumOf, MapThenSumSet, MapThenFoldSet, Rec

\* Of a family of subsets of a finite set one has none of the others in it.
LEMMA SmallestSubset ==
  ASSUME NEW S, IsFiniteSet(S), NEW T, T \subseteq SUBSET S, T # {}
  PROVE  \E s \in T : \A u \in T : u \subseteq s => u = s
<1>1. IsWellFoundedOn(StrictSubsetOrdering(S), FiniteSubsetsOf(S))
  BY FS_StrictSubsetOrderingWellFounded
<1>2. T \subseteq FiniteSubsetsOf(S)
  BY FS_FiniteSubsetsOfFinite
<1>3. \E s \in T : \A u \in T : ~ (<<u, s>> \in StrictSubsetOrdering(S))
  BY <1>1, <1>2, WFMin
<1> QED BY <1>3 DEF StrictSubsetOrdering

\* Two computations of sums over parts of a list agree where both are defined.
LEMMA SumsAgree ==
  ASSUME NEW f, NEW S, IsFiniteSet(S), NEW T, NEW g, NEW h, Rec(g, f, S), Rec(h, f, T),
         NEW s \in SUBSET (S \cap T)
  PROVE  g[s] = h[s]
<1> DEFINE Bad == {u \in SUBSET (S \cap T) : g[u] # h[u]}
           pick(u) == CHOOSE x \in u : TRUE
<1>1. SUFFICES ASSUME Bad # {} PROVE FALSE
  OBVIOUS
<1>2. PICK u \in Bad : \A v \in Bad : v \subseteq u => v = u
  <2>1. IsFiniteSet(S \cap T) /\ Bad \subseteq SUBSET (S \cap T)
    BY FS_Intersection
  <2> HIDE DEF Bad
  <2> QED BY <1>1, <2>1, SmallestSubset
<1>3. u \in SUBSET S /\ u \in SUBSET T /\ g[u] # h[u]
  BY <1>2
<1>4. g[u] = IF u = {} THEN 0 ELSE f[pick(u)] + g[u \ {pick(u)}]
  BY <1>3 DEF Rec
<1>5. h[u] = IF u = {} THEN 0 ELSE f[pick(u)] + h[u \ {pick(u)}]
  BY <1>3 DEF Rec
<1>6. CASE u = {}
  BY <1>3, <1>4, <1>5, <1>6
<1>7. CASE u # {}
  <2>1. pick(u) \in u
    BY <1>7
  <2> HIDE DEF pick
  <2>2. u \ {pick(u)} \notin Bad /\ u \ {pick(u)} \in SUBSET (S \cap T)
    BY <1>2, <2>1
  <2>3. g[u \ {pick(u)}] = h[u \ {pick(u)}]
    BY <2>2
  <2> QED BY <1>3, <1>4, <1>5, <1>7, <2>3
<1> QED BY <1>6, <1>7

LEMMA SumsExist ==
  ASSUME NEW f, NEW S, IsFiniteSet(S)
  PROVE  \E g : Rec(g, f, S)
<1> DEFINE pick(u) == CHOOSE x \in u : TRUE
           Bad == {u \in SUBSET S : ~ \E g : Rec(g, f, u)}
           of(u) == CHOOSE g : Rec(g, f, u)
<1>1. SUFFICES ASSUME Bad # {} PROVE FALSE
  OBVIOUS
<1>2. PICK u \in Bad : \A v \in Bad : v \subseteq u => v = u
  <2>1. Bad \subseteq SUBSET S
    OBVIOUS
  <2> HIDE DEF Bad
  <2> QED BY <1>1, <2>1, SmallestSubset
<1> DEFINE all == [s \in SUBSET u |-> IF s = {} THEN 0
                                      ELSE f[pick(s)] + of(s \ {pick(s)})[s \ {pick(s)}]]
<1>3. ASSUME NEW v \in SUBSET u, v # u PROVE Rec(of(v), f, v)
  <2>1. v \notin Bad /\ v \in SUBSET S
    BY <1>2, <1>3
  <2> QED BY <2>1
<1>4. ASSUME NEW v \in SUBSET u, v # u PROVE all[v] = of(v)[v]
  <2>1. of(v) = [s \in SUBSET v |-> IF s = {} THEN 0 ELSE f[pick(s)] + of(v)[s \ {pick(s)}]]
    BY <1>3, <1>4 DEF Rec
  <2>2. of(v)[v] = IF v = {} THEN 0 ELSE f[pick(v)] + of(v)[v \ {pick(v)}]
    BY <2>1
  <2>3. all[v] = IF v = {} THEN 0 ELSE f[pick(v)] + of(v \ {pick(v)})[v \ {pick(v)}]
    OBVIOUS
  <2>4. CASE v = {}
    BY <2>2, <2>3, <2>4
  <2>5. CASE v # {}
    <3>1. pick(v) \in v
      BY <2>5
    <3> HIDE DEF pick, of, all
    <3>2. v \ {pick(v)} \in SUBSET u /\ v \ {pick(v)} # u /\ IsFiniteSet(v)
      <4>1. v \in SUBSET S
        BY <1>2
      <4> QED BY <1>4, <3>1, <4>1, FS_Subset
    <3>3. Rec(of(v \ {pick(v)}), f, v \ {pick(v)}) /\ Rec(of(v), f, v)
      BY <1>3, <1>4, <3>2
    <3>4. of(v)[v \ {pick(v)}] = of(v \ {pick(v)})[v \ {pick(v)}]
      <4> DEFINE w == v \ {pick(v)}
                 g == of(v)
                 h == of(w)
      <4>1. Rec(g, f, v) /\ Rec(h, f, w) /\ w \in SUBSET (v \cap w) /\ IsFiniteSet(v)
        BY <3>2, <3>3
      <4> HIDE DEF w, g, h
      <4>2. g[w] = h[w]
        BY <4>1, SumsAgree
      <4> QED BY <4>2 DEF w, g, h
    <3> QED BY <2>2, <2>3, <2>5, <3>4
  <2> QED BY <2>4, <2>5
<1>5. ASSUME NEW s \in SUBSET u, s # {}
      PROVE  all[s] = f[pick(s)] + all[s \ {pick(s)}]
  <2>1. pick(s) \in s
    BY <1>5
  <2>2. all[s] = f[pick(s)] + of(s \ {pick(s)})[s \ {pick(s)}]
    BY <1>5
  <2> HIDE DEF pick, of, all
  <2>3. s \ {pick(s)} \in SUBSET u /\ s \ {pick(s)} # u
    BY <2>1
  <2> QED BY <1>4, <2>2, <2>3
<1>6. all[{}] = 0
  OBVIOUS
<1>7. Rec(all, f, u)
  <2>1. all = [s \in SUBSET u |-> all[s]]
    OBVIOUS
  <2>2. \A s \in SUBSET u : all[s] = IF s = {} THEN 0 ELSE f[pick(s)] + all[s \ {pick(s)}]
    <3> HIDE DEF all, pick
    <3> QED BY <1>5, <1>6
  <2> HIDE DEF all
  <2>3. all = [s \in SUBSET u |-> IF s = {} THEN 0 ELSE f[pick(s)] + all[s \ {pick(s)}]]
    BY <2>1, <2>2
  <2> QED BY <2>3 DEF Rec
<1> HIDE DEF all
<1> QED BY <1>2, <1>7

\* Of two lists of numbers the one that is nowhere less has no less a sum, and
\* a greater one when it is greater somewhere.
LEMMA SumsCompare ==
  ASSUME NEW S, IsFiniteSet(S), NEW f \in [S -> Int], NEW h \in [S -> Int],
         \A x \in S : f[x] >= h[x]
  PROVE  /\ SumOf(f) \in Int /\ SumOf(h) \in Int /\ SumOf(f) >= SumOf(h)
         /\ (\E x \in S : f[x] > h[x]) => SumOf(f) > SumOf(h)
<1> DEFINE F == CHOOSE g : Rec(g, f, S)
           H == CHOOSE g : Rec(g, h, S)
           pick(u) == CHOOSE x \in u : TRUE
           Right(u) == /\ F[u] \in Int /\ H[u] \in Int /\ F[u] >= H[u]
                       /\ (\E x \in u : f[x] > h[x]) => F[u] > H[u]
           Bad == {u \in SUBSET S : ~ Right(u)}
<1>1. Rec(F, f, S) /\ Rec(H, h, S)
  BY SumsExist
<1>2. SumOf(f) = F[S] /\ SumOf(h) = H[S]
  BY SumIs
<1> HIDE DEF F, H
<1>3. SUFFICES ASSUME Bad # {} PROVE FALSE
  BY <1>2
<1>4. PICK u \in Bad : \A v \in Bad : v \subseteq u => v = u
  <2>1. Bad \subseteq SUBSET S
    OBVIOUS
  <2> HIDE DEF Bad
  <2> QED BY <1>3, <2>1, SmallestSubset
<1>5. /\ F[u] = IF u = {} THEN 0 ELSE f[pick(u)] + F[u \ {pick(u)}]
      /\ H[u] = IF u = {} THEN 0 ELSE h[pick(u)] + H[u \ {pick(u)}]
  BY <1>1, <1>4 DEF Rec
<1>6. CASE u = {}
  BY <1>4, <1>5, <1>6
<1>7. CASE u # {}
  <2>1. pick(u) \in u
    BY <1>7
  <2> DEFINE x == pick(u)
             v == u \ {x}
  <2> HIDE DEF pick
  <2>2. v \notin Bad /\ v \in SUBSET S
    BY <1>4, <2>1
  <2>3. Right(v)
    BY <2>2
  <2>4. x \in S /\ f[x] \in Int /\ h[x] \in Int /\ f[x] >= h[x] /\ u = v \cup {x}
    BY <1>4, <2>1
  <2>5. F[u] = f[x] + F[v] /\ H[u] = h[x] + H[v]
    BY <1>5, <1>7
  <2> HIDE DEF v, x
  <2>6. Right(u)
    BY <2>3, <2>4, <2>5
  <2> QED BY <1>4, <2>6
<1> QED BY <1>6, <1>7
-----------------------------------------------------------------------------
(* Orders.                                                                   *)

\* One of any two is ahead of the other.
Linear(S, R) ==
  /\ R \subseteq S \X S
  /\ \A m \in S : <<m, m>> \notin R
  /\ \A m, n \in S : m = n \/ <<m, n>> \in R \/ <<n, m>> \in R
  /\ \A m, n, k \in S : <<m, n>> \in R /\ <<n, k>> \in R => <<m, k>> \in R

\* Those that are ahead of one.
Leading(S, R, m) == {n \in S : <<n, m>> \in R}

\* The list of a linear order has every model once, in that order.
LEMMA Listed ==
  ASSUME NEW S, IsFiniteSet(S), NEW R, Linear(S, R)
  PROVE  LET o == InOrder(S, R) n == Cardinality(S) IN
         /\ n \in Nat
         /\ o \in [1..n -> S]
         /\ \A m \in S : /\ Cardinality(Leading(S, R, m)) \in 0..(n - 1)
                         /\ o[Cardinality(Leading(S, R, m)) + 1] = m
         /\ \A i, k \in 1..n : i < k => <<o[i], o[k]>> \in R
         /\ \A i, k \in 1..n : o[i] = o[k] => i = k
<1> DEFINE n == Cardinality(S)
           o == InOrder(S, R)
           card(m) == Cardinality(Leading(S, R, m))
           rank == [m \in S |-> card(m) + 1]
<1>1. n \in Nat
  BY FS_CardinalityType
<1>2. ASSUME NEW m \in S
      PROVE  IsFiniteSet(Leading(S, R, m)) /\ card(m) \in Nat /\ card(m) < n
  <2>1. Leading(S, R, m) \in SUBSET S /\ m \notin Leading(S, R, m)
    BY DEF Leading, Linear
  <2>2. IsFiniteSet(Leading(S, R, m)) /\ card(m) <= n /\ (n = card(m) => S = Leading(S, R, m))
    BY <2>1, FS_Subset
  <2>3. card(m) \in Nat
    BY <2>2, FS_CardinalityType
  <2> QED BY <1>1, <2>1, <2>2, <2>3
<1>3. ASSUME NEW l \in S, NEW m \in S, <<l, m>> \in R
      PROVE  card(l) < card(m)
  <2>1. /\ Leading(S, R, l) \in SUBSET Leading(S, R, m)
        /\ l \in Leading(S, R, m) /\ l \notin Leading(S, R, l)
    BY <1>3 DEF Leading, Linear
  <2>2. card(l) <= card(m) /\ (card(m) = card(l) => Leading(S, R, m) = Leading(S, R, l))
    BY <1>2, <2>1, FS_Subset
  <2> QED BY <1>2, <2>1, <2>2
<1>4. \A l, m \in S : card(l) = card(m) => l = m
  <2>1. SUFFICES ASSUME NEW l \in S, NEW m \in S, card(l) = card(m), <<l, m>> \in R PROVE FALSE
    BY DEF Linear
  <2>2. card(l) < card(m) /\ card(l) \in Nat /\ card(m) \in Nat
    BY <1>2, <1>3, <2>1
  <2> QED BY <2>1, <2>2
<1>5. rank \in Surjection(S, 1..n)
  <2>1. rank \in [S -> 1..n]
    BY <1>1, <1>2
  <2>2. \A l, m \in S : rank[l] = rank[m] => l = m
    <3>1. \A l, m \in S : rank[l] = rank[m] => card(l) = card(m)
      <4>1. \A m \in S : card(m) \in Nat /\ rank[m] = card(m) + 1
        BY <1>2
      <4> QED BY <4>1
    <3> QED BY <1>4, <3>1
  <2>3. rank \in Injection(S, 1..n)
    BY <2>1, <2>2 DEF Injection, IsInjective
  <2>4. IsFiniteSet(1..n) /\ Cardinality(1..n) = n
    BY <1>1, FS_Interval
  <2> QED BY <2>3, <2>4, FS_Injection
<1>6. o = [k \in 1..n |-> CHOOSE m \in S : card(m) = k - 1]
  BY DEF InOrder, Leading
<1>7. ASSUME NEW k \in 1..n PROVE o[k] \in S /\ card(o[k]) = k - 1
  <2>1. PICK m \in S : rank[m] = k
    BY <1>5 DEF Surjection
  <2>2. card(m) \in Nat
    BY <1>2
  <2>3. card(m) = k - 1
    BY <1>1, <2>1, <2>2
  <2> HIDE DEF card
  <2> QED BY <1>6, <2>3
<1> HIDE DEF o, card, n
<1>8. ASSUME NEW m \in S PROVE o[card(m) + 1] = m /\ card(m) \in 0..(n - 1)
  <2>1. card(m) \in 0..(n - 1) /\ card(m) + 1 \in 1..n /\ (card(m) + 1) - 1 = card(m)
    BY <1>1, <1>2
  <2>2. o[card(m) + 1] \in S /\ card(o[card(m) + 1]) = card(m)
    BY <1>7, <2>1
  <2> QED BY <1>4, <2>1, <2>2
<1>9. ASSUME NEW i \in 1..n, NEW k \in 1..n, i < k PROVE <<o[i], o[k]>> \in R
  <2>1. /\ o[i] \in S /\ card(o[i]) = i - 1
        /\ o[k] \in S /\ card(o[k]) = k - 1
    BY <1>7
  <2>2. <<o[k], o[i]>> \notin R
    <3>1. <<o[k], o[i]>> \in R => k - 1 < i - 1
      BY <1>3, <2>1
    <3> QED BY <1>1, <1>9, <3>1
  <2>3. o[i] # o[k]
    BY <1>1, <1>9, <2>1
  <2> QED BY <2>1, <2>2, <2>3 DEF Linear
<1>10. ASSUME NEW i \in 1..n, NEW k \in 1..n, o[i] = o[k] PROVE i = k
  BY <1>1, <1>7, <1>10
<1>11. o \in [1..n -> S]
  BY <1>6, <1>7
<1> QED BY <1>1, <1>8, <1>9, <1>10, <1>11 DEF o, n, card

\* The one that is led comes first, the others keep their order.
LEMMA LedIsLinear ==
  ASSUME NEW S, NEW R, Linear(S, R), NEW m \in S
  PROVE  Linear(S, Led(S, m, R))
<1> DEFINE L == Led(S, m, R)
<1>1. \A x, y \in S : <<x, y>> \in L <=> (y # m /\ (x = m \/ <<x, y>> \in R))
  BY DEF Led
<1>2. L \subseteq S \X S
  BY DEF Led, Linear
<1> HIDE DEF L
<1> QED BY <1>1, <1>2 DEF Linear, L

LEMMA LedComesFirst ==
  ASSUME NEW S, IsFiniteSet(S), NEW R, Linear(S, R), NEW m \in S
  PROVE  InOrder(S, Led(S, m, R))[1] = m
<1> DEFINE L == Led(S, m, R)
<1>1. Linear(S, L)
  BY LedIsLinear
<1>2. Leading(S, L, m) = {}
  BY DEF Leading, Led, Linear
<1>3. Cardinality(Leading(S, L, m)) = 0
  BY <1>2, FS_EmptySet
<1>4. InOrder(S, L)[Cardinality(Leading(S, L, m)) + 1] = m
  <2> HIDE DEF L
  <2> QED BY <1>1, Listed
<1> QED BY <1>3, <1>4

LEMMA NamesAreLinear ==
  ASSUME NEW S \in SUBSET Models
  PROVE  Linear(S, ByName(S))
BY RoutingAssumption DEF Linear, ByName

-----------------------------------------------------------------------------
(* The turns.  Those taken since all were even are an arc of the circle, which *)
(* the cursor ends.                                                            *)

InArc(p, c, i) == IF p <= c THEN p <= i /\ i < c ELSE p <= i \/ i < c

LoadOK ==
  /\ cursor \in Nat
  /\ tally.of \in SUBSET Models
  /\ tally.turns \in [Models -> {0, 1}]
  /\ tally.of # {} =>
       LET n == Cardinality(tally.of)
           o == InOrder(tally.of, ByName(tally.of))
       IN /\ cursor < n
          /\ \E p \in 0..(n - 1) : \A i \in 0..(n - 1) :
               tally.turns[o[i + 1]] = IF InArc(p, cursor, i) THEN 1 ELSE 0

LEMMA TurnIsShared ==
  ASSUME LoadOK, NEW S \in SUBSET Models, IsFiniteSet(S), S # {},
         cursor < Cardinality(S), cursor' = NextCursor(Cardinality(S)),
         tally' = Counted(S, Turn(S))
  PROVE  LoadOK'
<1> DEFINE n == Cardinality(S)
           o == InOrder(S, ByName(S))
           c == cursor
           d == cursor'
           base == IF tally.of = S THEN tally.turns ELSE NoTally.turns
           turns == [base EXCEPT ![o[c + 1]] = @ + 1]
           arc(p) == \A i \in 0..(n - 1) : base[o[i + 1]] = IF InArc(p, c, i) THEN 1 ELSE 0
<1>1. n \in Nat \ {0} /\ c \in 0..(n - 1) /\ d = (c + 1) % n
  <2>1. n \in Nat /\ n # 0
    BY FS_CardinalityType, FS_EmptySet
  <2> QED BY <2>1 DEF LoadOK, NextCursor
<1>2. Linear(S, ByName(S))
  BY NamesAreLinear
<1>3. /\ o \in [1..n -> S]
      /\ \A m \in S : \E i \in 0..(n - 1) : o[i + 1] = m
      /\ \A i, k \in 1..n : o[i] = o[k] => i = k
  BY <1>2, Listed
<1>4. base \in [Models -> {0, 1}]
  BY DEF LoadOK, NoTally
<1>5. PICK p \in 0..(n - 1) : arc(p)
  <2>1. CASE tally.of = S
    BY <2>1 DEF LoadOK
  <2>2. CASE tally.of # S
    <3>1. \A m \in Models : base[m] = 0
      BY <2>2 DEF NoTally
    <3>2. \A i \in 0..(n - 1) : o[i + 1] \in Models
      BY <1>1, <1>3
    <3>3. \A i \in 0..(n - 1) : ~InArc(c, c, i)
      BY <1>1 DEF InArc
    <3>4. arc(c)
      <4> HIDE DEF base, o, n, c
      <4> QED BY <3>1, <3>2, <3>3
    <3> QED BY <1>1, <3>4
  <2> QED BY <2>1, <2>2
<1>6. /\ d \in 0..(n - 1)
      /\ ~InArc(p, c, c)
      /\ d = p => \A i \in 0..(n - 1) : InArc(p, c, i) \/ i = c
      /\ d # p => /\ ~InArc(p, c, d) /\ d # c
                 /\ \A i \in 0..(n - 1) : InArc(p, d, i) <=> InArc(p, c, i) \/ i = c
      /\ \A i \in 0..(n - 1) : ~InArc(d, d, i)
  <2> HIDE DEF n, c, d
  <2>1. d \in 0..(n - 1)
    BY <1>1
  <2>2. \A i \in 0..(n - 1) : ~InArc(d, d, i)
    BY <1>1, <2>1 DEF InArc
  <2>3. /\ ~InArc(p, c, c)
        /\ d = p => \A i \in 0..(n - 1) : InArc(p, c, i) \/ i = c
        /\ d # p => /\ ~InArc(p, c, d) /\ d # c
                   /\ \A i \in 0..(n - 1) : InArc(p, d, i) <=> InArc(p, c, i) \/ i = c
    <3>1. d = IF c + 1 = n THEN 0 ELSE c + 1
      BY <1>1
    <3> QED BY <1>1, <3>1 DEF InArc
  <2> QED BY <2>1, <2>2, <2>3
<1>7. tally' = [of |-> S, turns |-> IF \A m \in S : turns[m] > 0
                               THEN [m \in Models |-> IF m \in S THEN turns[m] - 1 ELSE 0]
                               ELSE turns]
  BY DEF Counted, Turn
<1> HIDE DEF n, o, c, d, base
<1>8. \A i \in 0..(n - 1) : turns[o[i + 1]] = IF InArc(p, c, i) \/ i = c THEN 1 ELSE 0
  <2>1. SUFFICES ASSUME NEW i \in 0..(n - 1)
                 PROVE  turns[o[i + 1]] = IF InArc(p, c, i) \/ i = c THEN 1 ELSE 0
    OBVIOUS
  <2>2. o[i + 1] \in Models /\ o[c + 1] \in Models /\ (o[i + 1] = o[c + 1] => i = c)
    BY <1>1, <1>3, <2>1
  <2>3. base[o[i + 1]] = (IF InArc(p, c, i) THEN 1 ELSE 0) /\ base[o[c + 1]] = 0
    BY <1>1, <1>5, <1>6
  <2> QED BY <1>4, <2>2, <2>3
<1>9. turns \in [Models -> {0, 1}]
  <2>1. o[c + 1] \in Models /\ base[o[c + 1]] = 0
    BY <1>1, <1>3, <1>5, <1>6
  <2> QED BY <1>4, <2>1
<1> HIDE DEF turns
<1>10. CASE d = p
  <2>1. \A m \in S : turns[m] = 1
    BY <1>3, <1>6, <1>8, <1>10
  <2>2. tally' = [of |-> S, turns |-> [m \in Models |-> IF m \in S THEN turns[m] - 1 ELSE 0]]
    BY <1>7, <2>1
  <2>3. tally'.of = S /\ tally'.turns \in [Models -> {0, 1}] /\ \A m \in S : tally'.turns[m] = 0
    BY <2>1, <2>2
  <2>4. \A i \in 0..(n - 1) : tally'.turns[o[i + 1]] = IF InArc(d, d, i) THEN 1 ELSE 0
    BY <1>1, <1>3, <1>6, <2>3
  <2> QED BY <1>1, <1>6, <2>3, <2>4 DEF LoadOK, n, o, d
<1>11. CASE d # p
  <2>1. o[d + 1] \in S /\ turns[o[d + 1]] = 0
    <3>1. d \in 0..(n - 1) /\ d + 1 \in 1..n
      BY <1>1, <1>6
    <3>2. ~(InArc(p, c, d) \/ d = c)
      BY <1>6, <1>11
    <3>3. turns[o[d + 1]] = IF InArc(p, c, d) \/ d = c THEN 1 ELSE 0
      BY <1>8, <3>1
    <3> QED BY <1>3, <3>1, <3>2, <3>3
  <2>2. tally' = [of |-> S, turns |-> turns]
    BY <1>7, <2>1
  <2>3. \A i \in 0..(n - 1) : tally'.turns[o[i + 1]] = IF InArc(p, d, i) THEN 1 ELSE 0
    BY <1>6, <1>8, <1>11, <2>2
  <2> QED BY <1>1, <1>6, <1>9, <2>2, <2>3 DEF LoadOK, n, o, d
<1> QED BY <1>10, <1>11

-----------------------------------------------------------------------------
(* Scores.                                                                   *)

\* What none is less than nothing, and one is more, is more than nothing.
LEMMA SumsAbove ==
  ASSUME NEW S, IsFiniteSet(S), NEW f \in [S -> Int], \A x \in S : f[x] >= 0
  PROVE  /\ SumOf(f) \in Int /\ SumOf(f) >= 0
         /\ (\E x \in S : f[x] > 0) => SumOf(f) > 0
<1> DEFINE F == CHOOSE g : Rec(g, f, S)
           pick(u) == CHOOSE x \in u : TRUE
           Right(u) == F[u] \in Int /\ F[u] >= 0 /\ ((\E x \in u : f[x] > 0) => F[u] > 0)
           Bad == {u \in SUBSET S : ~ Right(u)}
<1>1. Rec(F, f, S)
  BY SumsExist
<1>2. SumOf(f) = F[S]
  BY SumIs
<1> HIDE DEF F
<1>3. SUFFICES ASSUME Bad # {} PROVE FALSE
  BY <1>2
<1>4. PICK u \in Bad : \A v \in Bad : v \subseteq u => v = u
  <2>1. Bad \subseteq SUBSET S
    OBVIOUS
  <2> HIDE DEF Bad
  <2> QED BY <1>3, <2>1, SmallestSubset
<1>5. F[u] = IF u = {} THEN 0 ELSE f[pick(u)] + F[u \ {pick(u)}]
  BY <1>1, <1>4 DEF Rec
<1>6. CASE u = {}
  BY <1>4, <1>5, <1>6
<1>7. CASE u # {}
  <2>1. pick(u) \in u
    BY <1>7
  <2> DEFINE x == pick(u)
             v == u \ {x}
  <2> HIDE DEF pick
  <2>2. v \notin Bad /\ v \in SUBSET S
    BY <1>4, <2>1
  <2>3. Right(v)
    BY <2>2
  <2>4. x \in S /\ f[x] \in Int /\ f[x] >= 0 /\ u = v \cup {x}
    BY <1>4, <2>1
  <2>5. F[u] = f[x] + F[v]
    BY <1>5, <1>7
  <2> HIDE DEF v, x
  <2>6. Right(u)
    BY <2>3, <2>4, <2>5
  <2> QED BY <1>4, <2>6
<1> QED BY <1>6, <1>7

\* A sum of what is not negative is no less than any of it.
LEMMA SumsCover ==
  ASSUME NEW S, IsFiniteSet(S), NEW f \in [S -> Int], \A x \in S : f[x] >= 0, NEW m \in S
  PROVE  f[m] <= SumOf(f)
<1> DEFINE F == CHOOSE g : Rec(g, f, S)
           pick(u) == CHOOSE x \in u : TRUE
           Right(u) == F[u] \in Int /\ F[u] >= 0 /\ \A x \in u : f[x] <= F[u]
           Bad == {u \in SUBSET S : ~ Right(u)}
<1>1. Rec(F, f, S)
  BY SumsExist
<1>2. SumOf(f) = F[S]
  BY SumIs
<1> HIDE DEF F
<1>3. SUFFICES ASSUME Bad # {} PROVE FALSE
  BY <1>2
<1>4. PICK u \in Bad : \A v \in Bad : v \subseteq u => v = u
  <2>1. Bad \subseteq SUBSET S
    OBVIOUS
  <2> HIDE DEF Bad
  <2> QED BY <1>3, <2>1, SmallestSubset
<1>5. F[u] = IF u = {} THEN 0 ELSE f[pick(u)] + F[u \ {pick(u)}]
  BY <1>1, <1>4 DEF Rec
<1>6. CASE u = {}
  BY <1>4, <1>5, <1>6
<1>7. CASE u # {}
  <2>1. pick(u) \in u
    BY <1>7
  <2> DEFINE x == pick(u)
             v == u \ {x}
  <2> HIDE DEF pick
  <2>2. v \notin Bad /\ v \in SUBSET S
    BY <1>4, <2>1
  <2>3. Right(v)
    BY <2>2
  <2>4. x \in S /\ f[x] \in Int /\ f[x] >= 0 /\ u = v \cup {x} /\ v \subseteq S
    BY <1>4, <2>1
  <2>5. F[u] = f[x] + F[v]
    BY <1>5, <1>7
  <2> HIDE DEF v, x
  <2>6. F[u] \in Int /\ F[u] >= 0 /\ F[u] >= F[v] /\ f[x] <= F[u]
    BY <2>3, <2>4, <2>5
  <2>7. ASSUME NEW y \in v PROVE f[y] <= F[u]
    <3>1. f[y] \in Int /\ f[y] <= F[v] /\ F[v] \in Int
      BY <2>3, <2>4
    <3> QED BY <2>6, <3>1
  <2>8. Right(u)
    BY <2>4, <2>6, <2>7
  <2> QED BY <1>4, <2>8
<1> QED BY <1>6, <1>7

LEMMA Times ==
  ASSUME NEW a \in Int, NEW b \in Int, NEW w \in Int, w > 0
  PROVE  /\ a * w \in Int /\ b * w \in Int
         /\ a > b <=> a * w > b * w
         /\ a >= b <=> a * w >= b * w
OBVIOUS

\* Fractions: what is above one that is no less than a third is above it.
LEMMA Fractions ==
  ASSUME NEW a \in Int, NEW b \in Int, NEW c \in Int, NEW d \in Int, NEW e \in Int, NEW f \in Int,
         b > 0, d > 0, f > 0
  PROVE  a * d > c * b /\ c * f >= e * d => a * f > e * b
<1>1. SUFFICES ASSUME a * d > c * b, c * f >= e * d PROVE a * f > e * b
  OBVIOUS
<1>2. /\ a * d \in Int /\ c * b \in Int /\ c * f \in Int
      /\ e * d \in Int /\ a * f \in Int /\ e * b \in Int
  OBVIOUS
<1>3. (a * d) * f > (c * b) * f
  BY <1>1, <1>2, Times
<1>4. (c * f) * b >= (e * d) * b
  BY <1>1, <1>2, Times
<1>5. /\ (a * d) * f = (a * f) * d /\ (c * b) * f = (c * f) * b /\ (e * d) * b = (e * b) * d
  OBVIOUS
<1>6. (a * f) * d > (e * b) * d
  <2>1. /\ (a * f) * d \in Int /\ (c * f) * b \in Int /\ (e * b) * d \in Int
    BY <1>2
  <2> QED BY <1>3, <1>4, <1>5, <2>1
<1> QED BY <1>2, <1>6, Times

Marking   == [points : UNION {[S -> Int] : S \in SUBSET Models},
              excludes : SUBSET Models, failed : BOOLEAN]
\* Those a policy may compute: on the scale, nothing for what is excluded.
Scaled(x) == OnScale(x) /\ \A m \in x.excludes : m \in DOMAIN x.points /\ x.points[m] = 0
Sound     == {x \in Marking : Scaled(x)}
Instant   == {"context", "capability", "cheapest", "model-preference"}
CallState == [phase : {"idle", "judging", "trying", "broken"}, req : {Idle.req},
              valid : Seq(Models), profile : Profile, ratings : Seq(Marking \cup {Pending}), plan : Seq(Models)]

\* A call, its candidates each but once, its ratings those of its policies.
CallOK(q) ==
  /\ q \in CallState
  /\ \A i, k \in DOMAIN q.valid : q.valid[i] = q.valid[k] => i = k
  /\ DOMAIN q.ratings = DOMAIN q.profile.policies
  /\ \A i \in DOMAIN q.ratings : q.ratings[i] = Pending => q.profile.policies[i] \notin Instant
  /\ \A i \in DOMAIN q.ratings :
       q.ratings[i] # Pending /\ q.profile.policies[i] \in Computed => Scaled(q.ratings[i])
  /\ q.phase = "trying" => q.plan # <<>>

\* All the policies were heard.
Heard(q) == CallOK(q) /\ \A i \in DOMAIN q.ratings : q.ratings[i] # Pending

LEMMA LeftTypes ==
  ASSUME NEW q, CallOK(q)
  PROVE  Left(q) \in SUBSET Models /\ IsFiniteSet(Left(q))
<1>1. Left(q) \in SUBSET Models
  BY DEF Left, ToSet, CallOK, CallState
<1> QED BY <1>1, RoutingAssumption, FS_Subset

LEMMA RatingTypes ==
  ASSUME NEW q, Heard(q)
  PROVE  /\ Len(q.ratings) \in Nat /\ DOMAIN q.ratings = 1..Len(q.ratings)
         /\ \A i \in DOMAIN q.ratings :
              /\ Weight(q, i) \in Int /\ Weight(q, i) > 0
              /\ \A m \in Eligible(q, i) : q.ratings[i].points[m] \in Int
<1>1. q.ratings \in Seq(Marking \cup {Pending})
  BY DEF Heard, CallOK, CallState
<1>2. Len(q.ratings) \in Nat /\ DOMAIN q.ratings = 1..Len(q.ratings)
  BY <1>1
<1>3. ASSUME NEW i \in DOMAIN q.ratings
      PROVE  \A m \in Eligible(q, i) : q.ratings[i].points[m] \in Int
  <2>1. q.ratings[i] \in Marking
    BY <1>1, <1>2 DEF Heard
  <2>2. PICK S \in SUBSET Models : q.ratings[i].points \in [S -> Int]
    BY <2>1 DEF Marking
  <2> QED BY <2>2 DEF Eligible
<1> QED BY <1>2, <1>3 DEF Weight

LEMMA JudgesTypes ==
  ASSUME NEW q, Heard(q), NEW m \in Left(q)
  PROVE  /\ IsFiniteSet(Judges(q, m)) /\ Judges(q, m) \subseteq DOMAIN q.ratings
         /\ [i \in Judges(q, m) |-> q.ratings[i].points[m] * Weight(q, i)] \in [Judges(q, m) -> Int]
         /\ [i \in Judges(q, m) |-> Weight(q, i)] \in [Judges(q, m) -> Int]
         /\ SumOf([i \in Judges(q, m) |-> Weight(q, i)]) \in Int
         /\ Judges(q, m) # {} => SumOf([i \in Judges(q, m) |-> Weight(q, i)]) > 0
<1> DEFINE J == Judges(q, m)
           w == [i \in J |-> Weight(q, i)]
<1>1. J \subseteq DOMAIN q.ratings /\ \A i \in J : m \in Eligible(q, i)
  BY DEF Judges, Voters
<1>2. IsFiniteSet(J)
  <2>1. IsFiniteSet(DOMAIN q.ratings)
    <3>1. Len(q.ratings) \in Nat /\ DOMAIN q.ratings = 1..Len(q.ratings)
      BY RatingTypes
    <3>2. IsFiniteSet(1..Len(q.ratings))
      BY <3>1, FS_Interval
    <3> QED BY <3>1, <3>2
  <2> QED BY <1>1, <2>1, FS_Subset
<1>3. \A i \in J : Weight(q, i) \in Int /\ Weight(q, i) > 0 /\ q.ratings[i].points[m] \in Int
  BY <1>1, RatingTypes
<1>4. w \in [J -> Int] /\ \A i \in J : w[i] >= 0 /\ w[i] > 0
  BY <1>3
<1>5. SumOf(w) \in Int /\ ((\E i \in J : w[i] > 0) => SumOf(w) > 0)
  <2> HIDE DEF w, J
  <2> QED BY <1>2, <1>4, SumsAbove
<1>6. [i \in J |-> q.ratings[i].points[m] * Weight(q, i)] \in [J -> Int]
  <2>1. \A i \in J : q.ratings[i].points[m] * Weight(q, i) \in Int
    BY <1>3
  <2> QED BY <2>1
<1> QED BY <1>1, <1>2, <1>4, <1>5, <1>6

LEMMA ScoreTypes ==
  ASSUME NEW q, Heard(q), NEW m \in Left(q)
  PROVE  Score(q, m) \in Int \X Int /\ Score(q, m)[2] > 0
<1> DEFINE J == Judges(q, m)
           f == [i \in J |-> q.ratings[i].points[m] * Weight(q, i)]
           w == [i \in J |-> Weight(q, i)]
<1>1. CASE J = {}
  BY <1>1 DEF Score
<1>2. CASE J # {}
  <2>1. IsFiniteSet(J) /\ f \in [J -> Int] /\ SumOf(w) \in Int /\ SumOf(w) > 0
    BY <1>2, JudgesTypes
  <2>2. Score(q, m) = <<SumOf(f), Unit * SumOf(w)>>
    BY <1>2 DEF Score
  <2> HIDE DEF f, w, J
  <2>3. SumOf(f) \in Int
    BY <2>1, SumsCompare
  <2>4. Unit * SumOf(w) \in Int /\ Unit * SumOf(w) > 0
    BY <2>1, PolicyAssumption
  <2> QED BY <2>2, <2>3, <2>4
<1> QED BY <1>1, <1>2

-----------------------------------------------------------------------------
(* The orders of the selectors.                                              *)

\* An order in which some are level: what is ahead of one is ahead of every
\* other that is not itself ahead of that one.
Weak(S, W) ==
  /\ W \subseteq S \X S
  /\ \A m, n \in S : <<m, n>> \in W => <<n, m>> \notin W
  /\ \A m, n, k \in S : <<m, n>> \in W => <<m, k>> \in W \/ <<k, n>> \in W

LEMMA HigherIsWeak ==
  ASSUME NEW q, Heard(q)
  PROVE  Weak(Left(q), {p \in Left(q) \X Left(q) : Higher(q, p[1], p[2])})
<1> DEFINE S == Left(q)
           W == {p \in S \X S : Higher(q, p[1], p[2])}
<1>1. \A m, n \in S :
        <<m, n>> \in W <=> Score(q, m)[1] * Score(q, n)[2] > Score(q, n)[1] * Score(q, m)[2]
  BY DEF Higher
<1>2. \A m \in S : Score(q, m)[1] \in Int /\ Score(q, m)[2] \in Int /\ Score(q, m)[2] > 0
  BY ScoreTypes
<1>3. W \subseteq S \X S
  OBVIOUS
<1> HIDE DEF W, S
<1>4. ASSUME NEW m \in S, NEW n \in S, <<m, n>> \in W PROVE <<n, m>> \notin W
  <2>1. /\ Score(q, m)[1] * Score(q, n)[2] \in Int
        /\ Score(q, n)[1] * Score(q, m)[2] \in Int
    BY <1>2
  <2> QED BY <1>1, <1>4, <2>1
<1>5. ASSUME NEW m \in S, NEW n \in S, NEW k \in S, <<m, n>> \in W, <<k, n>> \notin W
      PROVE  <<m, k>> \in W
  <2> DEFINE a == Score(q, m)[1]  b == Score(q, m)[2]
             c == Score(q, n)[1]  d == Score(q, n)[2]
             e == Score(q, k)[1]  f == Score(q, k)[2]
  <2>1. /\ a \in Int /\ b \in Int /\ c \in Int /\ d \in Int /\ e \in Int /\ f \in Int
        /\ b > 0 /\ d > 0 /\ f > 0
    BY <1>2
  <2>2. a * d > c * b /\ ~(e * d > c * f)
    BY <1>1, <1>5
  <2>3. <<m, k>> \in W <=> a * f > e * b
    BY <1>1
  <2> HIDE DEF a, b, c, d, e, f
  <2>4. c * f >= e * d
    <3>1. c * f \in Int /\ e * d \in Int
      BY <2>1
    <3> QED BY <2>2, <3>1
  <2> QED BY <2>1, <2>2, <2>3, <2>4, Fractions
<1> QED BY <1>3, <1>4, <1>5 DEF Weak, W, S

LEMMA AsListedIsLinear ==
  ASSUME NEW q, CallOK(q)
  PROVE  Linear(Left(q), AsListed(q))
<1>1. q.valid \in Seq(Models)
  BY DEF CallOK, CallState
<1>2. ASSUME NEW m \in Left(q) PROVE Place(q, m) \in Nat /\ q.valid[Place(q, m)] = m
  <2>1. \E i \in DOMAIN q.valid : q.valid[i] = m
    BY DEF Left, ToSet
  <2>2. Place(q, m) \in DOMAIN q.valid /\ q.valid[Place(q, m)] = m
    BY <2>1 DEF Place
  <2> QED BY <1>1, <2>2
<1>3. \A m, n \in Left(q) : m = n \/ Place(q, m) < Place(q, n) \/ Place(q, n) < Place(q, m)
  <2>1. SUFFICES ASSUME NEW m \in Left(q), NEW n \in Left(q), Place(q, m) = Place(q, n) PROVE m = n
    <3>1. \A m \in Left(q) : Place(q, m) \in Nat
      BY <1>2
    <3> QED BY <3>1
  <2> QED BY <1>2, <2>1
<1>4. \A m, n \in Left(q) : <<m, n>> \in AsListed(q) <=> Place(q, m) < Place(q, n)
  BY DEF AsListed
<1>5. AsListed(q) \subseteq Left(q) \X Left(q)
  BY DEF AsListed
<1>6. \A m \in Left(q) : <<m, m>> \notin AsListed(q)
  BY <1>2, <1>4
<1>7. \A m, n, k \in Left(q) :
        <<m, n>> \in AsListed(q) /\ <<n, k>> \in AsListed(q) => <<m, k>> \in AsListed(q)
  <2>1. SUFFICES ASSUME NEW m \in Left(q), NEW n \in Left(q), NEW k \in Left(q),
                        Place(q, m) < Place(q, n), Place(q, n) < Place(q, k)
                 PROVE  Place(q, m) < Place(q, k)
    BY <1>4
  <2>2. Place(q, m) \in Nat /\ Place(q, n) \in Nat /\ Place(q, k) \in Nat
    BY <1>2
  <2> QED BY <2>1, <2>2
<1> QED BY <1>3, <1>4, <1>5, <1>6, <1>7 DEF Linear

\* A stable sort puts those that are level as they were listed.
LEMMA StableIsLinear ==
  ASSUME NEW q, CallOK(q), NEW W, Weak(Left(q), W)
  PROVE  Linear(Left(q), Stable(q, W))
<1> DEFINE S == Left(q)
           L == AsListed(q)
           T == Stable(q, W)
<1>1. Linear(S, L)
  BY AsListedIsLinear
<1>2. \A m, n \in S : <<m, n>> \in T <=> <<m, n>> \in W \/ (<<m, n>> \in L /\ <<n, m>> \notin W)
  BY DEF Stable
<1>3. T \subseteq S \X S
  BY <1>1 DEF Stable, Weak, Linear
<1> HIDE DEF S, L, T
<1>4. \A m \in S : <<m, m>> \notin T
  BY <1>1, <1>2 DEF Weak, Linear, S
<1>5. \A m, n \in S : m = n \/ <<m, n>> \in T \/ <<n, m>> \in T
  BY <1>1, <1>2 DEF Weak, Linear, S
<1>6. ASSUME NEW m \in S, NEW n \in S, NEW k \in S, <<m, n>> \in T, <<n, k>> \in T
      PROVE  <<m, k>> \in T
  <2>1. CASE <<m, n>> \in W
    <3>1. <<k, n>> \notin W
      BY <1>2, <1>6 DEF Weak, S
    <3> QED BY <1>2, <2>1, <3>1 DEF Weak, S
  <2>2. CASE <<n, k>> \in W
    <3>1. <<n, m>> \notin W
      BY <1>2, <1>6 DEF Weak, S
    <3> QED BY <1>2, <2>2, <3>1 DEF Weak, S
  <2>3. CASE <<m, n>> \notin W /\ <<n, k>> \notin W
    <3>1. <<m, n>> \in L /\ <<n, m>> \notin W /\ <<n, k>> \in L /\ <<k, n>> \notin W
      BY <1>2, <1>6, <2>3
    <3>2. <<m, k>> \in L
      BY <1>1, <3>1 DEF Linear
    <3>3. <<k, m>> \notin W
      BY <3>1 DEF Weak, S
    <3> QED BY <1>2, <3>2, <3>3
  <2> QED BY <2>1, <2>2, <2>3
<1> QED BY <1>3, <1>4, <1>5, <1>6 DEF Linear, S, T

LEMMA ByScoreIsLinear ==
  ASSUME NEW q, Heard(q)
  PROVE  Linear(Left(q), ByScore(q))
BY HigherIsWeak, StableIsLinear DEF ByScore, Heard

LEMMA ByCostIsLinear ==
  ASSUME NEW q, Heard(q)
  PROVE  Linear(Left(q), ByCost(q))
<1> DEFINE S == Left(q)
           H == {p \in S \X S : Higher(q, p[1], p[2])}
           W == {p \in S \X S : \/ Cost[p[1]] < Cost[p[2]]
                                \/ Cost[p[1]] = Cost[p[2]] /\ Higher(q, p[1], p[2])}
<1>1. Weak(S, H)
  BY HigherIsWeak
<1>2. \A m \in S : Cost[m] \in Nat
  BY LeftTypes, PolicyAssumption DEF Heard
<1>3. \A m, n \in S : <<m, n>> \in W <=> \/ Cost[m] < Cost[n]
                                         \/ Cost[m] = Cost[n] /\ <<m, n>> \in H
  OBVIOUS
<1>4. W \subseteq S \X S
  OBVIOUS
<1> HIDE DEF S, H, W
<1>5. ASSUME NEW m \in S, NEW n \in S, <<m, n>> \in W PROVE <<n, m>> \notin W
  BY <1>1, <1>2, <1>3, <1>5 DEF Weak
<1>6. ASSUME NEW m \in S, NEW n \in S, NEW k \in S, <<m, n>> \in W, <<k, n>> \notin W
      PROVE  <<m, k>> \in W
  <2>1. Cost[m] \in Nat /\ Cost[n] \in Nat /\ Cost[k] \in Nat
    BY <1>2
  <2>2. ~(Cost[k] < Cost[n]) /\ (Cost[k] = Cost[n] => <<k, n>> \notin H)
    BY <1>3, <1>6
  <2>3. CASE Cost[m] < Cost[n]
    BY <1>3, <2>1, <2>2, <2>3
  <2>4. CASE Cost[m] = Cost[n] /\ <<m, n>> \in H
    <3>1. CASE Cost[k] = Cost[n]
      BY <1>1, <1>3, <2>2, <2>4, <3>1 DEF Weak
    <3>2. CASE Cost[k] # Cost[n]
      BY <1>3, <2>1, <2>2, <2>4, <3>2
    <3> QED BY <3>1, <3>2
  <2> QED BY <1>3, <1>6, <2>3, <2>4
<1>7. Weak(S, W)
  BY <1>4, <1>5, <1>6 DEF Weak
<1> QED BY <1>7, StableIsLinear DEF ByCost, Heard, S, W

\* A list in a linear order has one ahead of another when the order has.
LEMMA AheadInOrder ==
  ASSUME NEW S, IsFiniteSet(S), NEW R, Linear(S, R), NEW m \in S, NEW n \in S, <<m, n>> \in R
  PROVE  Ahead(InOrder(S, R), m, n)
<1> DEFINE o == InOrder(S, R)
           c == Cardinality(S)
           i == Cardinality(Leading(S, R, m)) + 1
           k == Cardinality(Leading(S, R, n)) + 1
<1>1. /\ c \in Nat /\ o \in [1..c -> S]
      /\ Cardinality(Leading(S, R, m)) \in 0..(c - 1) /\ o[i] = m
      /\ Cardinality(Leading(S, R, n)) \in 0..(c - 1) /\ o[k] = n
      /\ \A x, y \in 1..c : x < y => <<o[x], o[y]>> \in R
  BY Listed
<1>2. i \in 1..c /\ k \in 1..c
  BY <1>1
<1> HIDE DEF o, c, i, k
<1>3. i < k
  <2>1. i # k
    BY <1>1 DEF Linear
  <2>2. ~(k < i)
    BY <1>1, <1>2 DEF Linear
  <2> QED BY <1>1, <1>2, <2>1, <2>2
<1>4. DOMAIN o = 1..c
  BY <1>1
<1> QED BY <1>1, <1>2, <1>3, <1>4 DEF Ahead, o

-----------------------------------------------------------------------------
(* What the policies agree on.                                               *)

\* The same judges, with the same weights, none of whom prefers the other.
LEMMA BetterIsHigher ==
  ASSUME NEW q, Heard(q), NEW m \in Left(q), NEW n \in Left(q), Better(q, m, n)
  PROVE  Voters(q) # {} /\ Higher(q, m, n)
<1> DEFINE J == Judges(q, m)
           p(x, i) == q.ratings[i].points[x]
           w == [i \in J |-> Weight(q, i)]
           f == [i \in J |-> p(m, i) * Weight(q, i)]
           h == [i \in J |-> p(n, i) * Weight(q, i)]
<1>1. \A i \in Voters(q) : i \in DOMAIN q.ratings /\ ~q.ratings[i].failed
  BY DEF Voters
<1>2. Judges(q, n) = J
  BY <1>1 DEF Better, Judges
<1>3. PICK i \in DOMAIN q.ratings : /\ ~q.ratings[i].failed
                                    /\ m \in Eligible(q, i) /\ n \in Eligible(q, i)
                                    /\ p(m, i) > p(n, i)
  BY DEF Better
<1>4. p(m, i) # p(n, i)
  <2>1. p(m, i) \in Int /\ p(n, i) \in Int
    BY <1>3, RatingTypes
  <2> HIDE DEF p
  <2> QED BY <1>3, <2>1
<1>5. i \in J
  BY <1>3, <1>4 DEF Judges, Voters
<1>6. ASSUME NEW k \in J
      PROVE  /\ Weight(q, k) \in Int /\ Weight(q, k) > 0
             /\ p(m, k) \in Int /\ p(n, k) \in Int /\ p(m, k) >= p(n, k)
  <2>1. /\ k \in DOMAIN q.ratings /\ ~q.ratings[k].failed
        /\ m \in Eligible(q, k) /\ n \in Eligible(q, k)
    BY <1>1, <1>2 DEF Judges
  <2> QED BY <2>1, RatingTypes DEF Better
<1>7. /\ IsFiniteSet(J) /\ f \in [J -> Int] /\ h \in [J -> Int]
      /\ SumOf(w) \in Int /\ SumOf(w) > 0
  BY <1>2, <1>5, JudgesTypes
<1>8. /\ Score(q, m) = <<SumOf(f), Unit * SumOf(w)>>
      /\ Score(q, n) = <<SumOf(h), Unit * SumOf(w)>>
  BY <1>2, <1>5 DEF Score
<1> HIDE DEF p, J
<1>9. \A k \in J : f[k] >= h[k]
  BY <1>6, Times
<1>10. f[i] > h[i]
  BY <1>3, <1>5, <1>6, Times
<1> HIDE DEF w, f, h
<1>11. SumOf(f) \in Int /\ SumOf(h) \in Int /\ SumOf(f) > SumOf(h)
  BY <1>5, <1>7, <1>9, <1>10, SumsCompare
<1>12. Unit * SumOf(w) \in Int /\ Unit * SumOf(w) > 0
  BY <1>7, PolicyAssumption
<1>13. SumOf(f) * (Unit * SumOf(w)) > SumOf(h) * (Unit * SumOf(w))
  BY <1>11, <1>12, Times
<1> QED BY <1>5, <1>8, <1>13 DEF Higher, Judges, J

LEMMA ArgmaxHonours ==
  ASSUME NEW q, Heard(q), NEW plan \in Argmax(q), NEW m \in Left(q), NEW n \in Left(q),
         Better(q, m, n)
  PROVE  Ahead(plan, m, n)
<1>1. PICK b \in IF Voters(q) = {} THEN Left(q) ELSE Best(q) :
        plan = InOrder(Left(q), Led(Left(q), b, ByScore(q)))
  BY DEF Argmax
<1>2. Voters(q) # {} /\ Higher(q, m, n)
  BY BetterIsHigher
<1>3. b \in Left(q) /\ b # n
  BY <1>1, <1>2 DEF Best
<1>4. Linear(Left(q), ByScore(q))
  BY ByScoreIsLinear
<1>5. m # n
  <2> DEFINE W == {x \in Left(q) \X Left(q) : Higher(q, x[1], x[2])}
  <2>1. <<m, n>> \in W
    BY <1>2
  <2>2. Weak(Left(q), W)
    BY HigherIsWeak
  <2> HIDE DEF W
  <2> QED BY <2>1, <2>2 DEF Weak
<1>6. <<m, n>> \in ByScore(q)
  BY <1>2 DEF ByScore, Stable
<1>7. <<m, n>> \in Led(Left(q), b, ByScore(q))
  BY <1>3, <1>5, <1>6 DEF Led
<1>8. Linear(Left(q), Led(Left(q), b, ByScore(q))) /\ IsFiniteSet(Left(q))
  BY <1>3, <1>4, LedIsLinear, LeftTypes DEF Heard
<1> QED BY <1>1, <1>7, <1>8, AheadInOrder

\* Whatever the selector, the plan is a list of what is left.
LEMMA PlanTypes ==
  ASSUME NEW q, Heard(q), Left(q) # {}, cursor \in Nat,
         q.profile.selector = "round-robin" => cursor < Cardinality(Left(q)),
         NEW plan \in Orders(q)
  PROVE  /\ plan \in Seq(Models) /\ plan # <<>>
         /\ q.profile.selector = "round-robin" => plan[1] = Turn(Left(q))
<1> DEFINE S == Left(q)
<1>1. S \in SUBSET Models /\ IsFiniteSet(S) /\ Cardinality(S) \in Nat /\ Cardinality(S) # 0
  BY LeftTypes, FS_CardinalityType, FS_EmptySet DEF Heard
<1>2. ASSUME NEW R, Linear(S, R)
      PROVE  /\ InOrder(S, R) \in Seq(Models) /\ InOrder(S, R) # <<>>
             /\ \A k \in 1..Cardinality(S) : InOrder(S, R)[k] \in S
  <2>1. InOrder(S, R) \in [1..Cardinality(S) -> S]
    BY <1>1, <1>2, Listed
  <2>2. InOrder(S, R) \in [1..Cardinality(S) -> Models] /\ 1 \in DOMAIN InOrder(S, R)
    BY <1>1, <2>1
  <2>3. InOrder(S, R) \in Seq(Models)
    BY <1>1, <2>2
  <2>4. InOrder(S, R) # <<>>
    <3>1. DOMAIN <<>> = {}
      OBVIOUS
    <3> QED BY <2>2, <3>1
  <2> QED BY <2>1, <2>3, <2>4
<1>3. ASSUME NEW R, Linear(S, R), NEW b \in S
      PROVE  InOrder(S, Led(S, b, R)) \in Seq(Models) /\ InOrder(S, Led(S, b, R)) # <<>>
  BY <1>2, <1>3, LedIsLinear
<1>4. Linear(S, ByScore(q)) /\ Linear(S, ByCost(q)) /\ Linear(S, AsListed(q)) /\ Linear(S, ByName(S))
  BY <1>1, ByScoreIsLinear, ByCostIsLinear, AsListedIsLinear, NamesAreLinear DEF Heard
<1>5. q.profile.selector \in {"argmax", "weighted-random", "round-robin", "cheapest", "lowest-latency"}
  BY DEF Heard, CallOK, CallState, Profile
<1>6. CASE q.profile.selector = "argmax"
  <2>1. PICK b \in IF Voters(q) = {} THEN S ELSE Best(q) : plan = InOrder(S, Led(S, b, ByScore(q)))
    BY <1>6 DEF Orders, Argmax
  <2>2. b \in S
    BY <2>1 DEF Best
  <2> QED BY <1>3, <1>4, <1>6, <2>1, <2>2
<1>7. CASE q.profile.selector = "weighted-random"
  <2>1. PICK b \in Drawn(q) : plan = InOrder(S, Led(S, b, ByScore(q)))
    BY <1>7 DEF Orders, WeightedRandom
  <2>2. InOrder(S, AsListed(q))[1] \in S
    BY <1>1, <1>2, <1>4
  <2>3. b \in S
    BY <2>1, <2>2 DEF Drawn
  <2> QED BY <1>3, <1>4, <1>7, <2>1, <2>3
<1>8. CASE q.profile.selector = "cheapest"
  <2>1. plan = InOrder(S, ByCost(q))
    BY <1>8 DEF Orders, CheapestFirst
  <2> QED BY <1>2, <1>4, <1>8, <2>1
<1>9. CASE q.profile.selector = "lowest-latency"
  <2>1. plan = InOrder(S, AsListed(q))
    BY <1>9 DEF Orders, LowestLatency
  <2> QED BY <1>2, <1>4, <1>9, <2>1
<1>10. CASE q.profile.selector = "round-robin"
  <2>1. plan = InOrder(S, Led(S, Turn(S), ByName(S)))
    BY <1>10 DEF Orders, InTurn
  <2>2. Turn(S) \in S
    <3>1. cursor + 1 \in 1..Cardinality(S)
      BY <1>1, <1>10
    <3> QED BY <1>2, <1>4, <3>1 DEF Turn
  <2>3. plan[1] = Turn(S)
    BY <1>1, <1>4, <2>1, <2>2, LedComesFirst
  <2> QED BY <1>3, <1>4, <2>1, <2>2, <2>3
<1> QED BY <1>5, <1>6, <1>7, <1>8, <1>9, <1>10

-----------------------------------------------------------------------------
(* What the policies say.                                                    *)

\* The calls of the history, finitely many of each and of all.
Past == [model : Models, outcome : {"success", "error", "blocked"}, latency : Nat, age : Nat]
GoodBag(bag) ==
  /\ IsFiniteSet(DOMAIN bag)
  /\ bag \in [DOMAIN bag -> Nat \ {0}]
  /\ DOMAIN bag \subseteq Past
HistoryOK == GoodBag(history)

LEMMA Quotient ==
  ASSUME NEW a \in Int, NEW b \in Int, b > 0
  PROVE  a \div b \in Int
OBVIOUS

\* The share of a in b, in points.
LEMMA Share ==
  ASSUME NEW a \in Nat, NEW b \in Nat, a <= b, b > 0
  PROVE  (Unit * a) \div b \in 0..Unit
<1>1. Unit \in Nat  BY PolicyAssumption
<1> DEFINE u == Unit * a
           s == u \div b
<1>2. u \in Nat /\ u <= Unit * b
  <2>1. Unit * b - Unit * a = Unit * (b - a) /\ b - a \in Nat  BY <1>1
  <2>2. \A x, y \in Nat : x * y \in Nat  OBVIOUS
  <2> QED  BY <1>1, <2>1, <2>2
<1> HIDE DEF u
<1>3. s \in Int /\ b * s <= u /\ u < b * (s + 1)
  BY <1>2
<1> HIDE DEF s
<1>4. s >= 0
  <2>1. SUFFICES ASSUME s + 1 <= 0 PROVE FALSE
    BY <1>3
  <2>2. b * (s + 1) <= 0  BY <1>3, <2>1
  <2> QED  BY <1>2, <1>3, <2>2
<1>5. s <= Unit
  <2>1. SUFFICES ASSUME s >= Unit + 1 PROVE FALSE
    BY <1>1, <1>3
  <2>2. b * (s - Unit - 1) >= 0  BY <1>1, <1>3, <2>1
  <2>3. b * (s - Unit - 1) = b * s - Unit * b - b  BY <1>1, <1>3
  <2>4. b * s \in Int /\ Unit * b \in Int  BY <1>1, <1>3
  <2> QED  BY <1>2, <1>3, <2>2, <2>3, <2>4
<1>6. s \in 0..Unit  BY <1>1, <1>3, <1>4, <1>5
<1> QED  BY <1>6 DEF s, u

LEMMA Least ==
  ASSUME NEW T \in SUBSET Nat, T # {}
  PROVE  Min(T) \in T /\ \A y \in T : Min(T) <= y
<1> DEFINE less == {p \in Nat \X Nat : p[1] < p[2]}
<1>1. IsWellFoundedOn(less, Nat)
  <2>1. less = OpToRel(<, Nat)
    BY DEF OpToRel
  <2> QED BY <2>1, NatLessThanWellFounded
<1>2. \A x, y \in Nat : <<y, x>> \in less <=> y < x
  OBVIOUS
<1> HIDE DEF less
<1>3. PICK x \in T : \A y \in T : <<y, x>> \notin less
  BY <1>1, WFMin
<1>4. \A y \in T : x \in Nat /\ y \in Nat /\ ~(y < x)
  BY <1>2, <1>3
<1>5. \A y \in T : x <= y
  BY <1>4
<1> QED BY <1>5 DEF Min

LEMMA Powers ==
  ASSUME NEW n \in Nat
  PROVE  2 ^ n \in Int /\ 2 ^ n > 0
<1>1. IsFiniteSet(1..n) /\ Cardinality(1..n) = n
  BY FS_Interval
<1>2. IsFiniteSet(SUBSET (1..n)) /\ Cardinality(SUBSET (1..n)) = 2 ^ n
  BY <1>1, FS_SUBSET
<1>3. Cardinality(SUBSET (1..n)) \in Nat /\ Cardinality(SUBSET (1..n)) # 0
  BY <1>2, FS_CardinalityType, FS_EmptySet
<1> QED BY <1>2, <1>3

\* Ratings of whole numbers.
LEMMA Ratings ==
  ASSUME NEW valid \in SUBSET Models, NEW p \in [valid -> Int], NEW out \in SUBSET Models
  PROVE  Rated(p) \in Marking /\ Filtered(p, out) \in Marking /\ ZeroExcluded(p) \in Marking
<1>1. p \in UNION {[S -> Int] : S \in SUBSET Models}
  OBVIOUS
<1>2. {m \in DOMAIN p : p[m] = 0} \in SUBSET Models
  OBVIOUS
<1> QED BY <1>1, <1>2 DEF Rated, Filtered, ZeroExcluded, Marking

\* Ratings on the scale.
LEMMA Scales ==
  ASSUME NEW valid \in SUBSET Models, NEW p \in [valid -> 0..Unit], NEW out \in SUBSET valid
  PROVE  /\ Rated(p) \in Sound /\ ZeroExcluded(p) \in Sound
         /\ (\A m \in out : p[m] = 0) => Filtered(p, out) \in Sound
<1>1. p \in [valid -> Int]
  BY PolicyAssumption
<1>2. Rated(p) \in Marking /\ Filtered(p, out) \in Marking /\ ZeroExcluded(p) \in Marking
  BY <1>1, Ratings
<1>3. \A m \in DOMAIN p : p[m] \in 0..Unit
  OBVIOUS
<1>4. Scaled(Rated(p)) /\ Scaled(ZeroExcluded(p))
  BY <1>3 DEF Scaled, OnScale, Rated, Filtered, ZeroExcluded
<1>5. (\A m \in out : p[m] = 0) => Scaled(Filtered(p, out))
  BY <1>3 DEF Scaled, OnScale, Filtered
<1> QED BY <1>2, <1>4, <1>5 DEF Sound

LEMMA FailedTypes == FailedRating \in Sound
<1>1. <<>> \in [{} -> Int] /\ DOMAIN <<>> = {}
  OBVIOUS
<1> QED BY <1>1 DEF FailedRating, Marking, Sound, Scaled, OnScale

LEMMA NotPending == Pending \notin Marking
BY DEF Pending, Marking

LEMMA ContextTypes ==
  ASSUME NEW valid \in SUBSET Models, NEW req, req.size \in Nat
  PROVE  ContextRating(req, valid) \in Sound
<1>1. ASSUME NEW m \in valid PROVE ContextPoint(req.size, Window[m]) \in 0..Unit
  <2> DEFINE room == Window[m]
             rest == 46 * room - 45 * req.size
  <2>1. room \in Nat /\ Unit \in Nat
    BY PolicyAssumption
  <2> HIDE DEF room
  <2>2. CASE room = 0 \/ 5 * req.size <= 4 * room \/ req.size >= room
    BY <2>1, <2>2 DEF ContextPoint, room
  <2>3. CASE ~ (room = 0 \/ 5 * req.size <= 4 * room \/ req.size >= room)
    <3>1. rest \in Nat /\ 10 * room \in Nat /\ rest <= 10 * room /\ 10 * room > 0
      BY <2>1, <2>3
    <3>2. (Unit * rest) \div (10 * room) \in 0..Unit
      <4> HIDE DEF rest
      <4> QED BY <3>1, Share
    <3> QED BY <2>3, <3>2 DEF ContextPoint, room
  <2> QED BY <2>2, <2>3 DEF room
<1>2. [m \in valid |-> ContextPoint(req.size, Window[m])] \in [valid -> 0..Unit]
  BY <1>1
<1> QED BY <1>2, Scales DEF ContextRating

LEMMA CapabilityTypes ==
  ASSUME NEW valid \in SUBSET Models, NEW req
  PROVE  CapabilityRating(req, valid) \in Sound
<1>1. [m \in valid |-> IF req.needs \cap Lacks[m] # {} THEN 0 ELSE Unit] \in [valid -> 0..Unit]
  BY PolicyAssumption
<1> QED BY <1>1, Scales DEF CapabilityRating

LEMMA CheapestTypes ==
  ASSUME NEW valid \in SUBSET Models
  PROVE  CheapestRating(valid) \in Sound
<1> DEFINE paid == {Cost[m] : m \in valid} \ {0}
           ceiling == IF \E m \in valid : Cost[m] = 0 THEN 1 ELSE 2
           point(m) == IF Cost[m] = 0 THEN Unit
                       ELSE (Unit * ceiling * Min(paid)) \div (2 * Cost[m])
<1>1. \A m \in valid : Cost[m] \in Nat
  BY PolicyAssumption
<1>2. ASSUME NEW m \in valid PROVE point(m) \in 0..Unit
  <2>1. CASE Cost[m] = 0
    BY <2>1, PolicyAssumption
  <2>2. CASE Cost[m] # 0
    <3>1. paid \in SUBSET Nat /\ paid # {}
      BY <1>1, <2>2
    <3>2. Cost[m] \in paid
      BY <2>2
    <3>3. Min(paid) \in Nat /\ Min(paid) <= Cost[m]
      <4> HIDE DEF paid
      <4> QED BY <3>1, <3>2, Least
    <3>4. ceiling \in {1, 2}
      OBVIOUS
    <3> HIDE DEF paid, ceiling
    <3>5. /\ ceiling * Min(paid) \in Nat /\ 2 * Cost[m] \in Nat /\ 2 * Cost[m] > 0
          /\ ceiling * Min(paid) <= 2 * Cost[m]
      BY <1>1, <2>2, <3>3, <3>4
    <3>6. Unit * ceiling * Min(paid) = Unit * (ceiling * Min(paid))
      BY <3>3, <3>4, PolicyAssumption
    <3>7. (Unit * (ceiling * Min(paid))) \div (2 * Cost[m]) \in 0..Unit
      BY <3>5, Share
    <3> QED BY <2>2, <3>6, <3>7
  <2> QED BY <2>1, <2>2
<1>3. CheapestRating(valid) = Rated([m \in valid |-> point(m)])
  BY DEF CheapestRating
<1> HIDE DEF point
<1>4. [m \in valid |-> point(m)] \in [valid -> 0..Unit]
  BY <1>2
<1> QED BY <1>3, <1>4, Scales

LEMMA PreferenceTypes ==
  ASSUME NEW valid \in SUBSET Models, NEW req
  PROVE  PreferenceRating(req, valid) \in Marking
<1>1. Bonus \in Int /\ Unit \div 2 \in Int
  BY PolicyAssumption
<1>2. [m \in valid |-> IF req.asks = NoModel THEN Unit \div 2
                       ELSE IF m = req.asks THEN Bonus ELSE 0] \in [valid -> Int]
  BY <1>1
<1> QED BY <1>2, Ratings DEF PreferenceRating

LEMMA IntentTypes ==
  ASSUME NEW valid \in SUBSET Models, NEW intents
  PROVE  IntentRating(intents, valid) \in Sound
<1> DEFINE allowed == IF intents = {} THEN valid ELSE UNION {Pool(i, valid) : i \in intents}
<1>1. [m \in valid |-> IF m \in allowed THEN Unit ELSE 0] \in [valid -> 0..Unit]
  BY PolicyAssumption
<1>2. IntentRating(intents, valid) = ZeroExcluded([m \in valid |-> IF m \in allowed THEN Unit ELSE 0])
  BY DEF IntentRating
<1> HIDE DEF allowed
<1> QED BY <1>1, <1>2, Scales

\* A weighted sum over calls of the history: more than nothing of any of them.
LEMMA Weighted ==
  ASSUME HistoryOK, NEW S \in SUBSET DOMAIN history, NEW v \in [S -> Int], \A c \in S : v[c] >= 0
  PROVE  /\ SumOf([c \in S |-> history[c] * v[c]]) \in Int
         /\ SumOf([c \in S |-> history[c] * v[c]]) >= 0
         /\ (\E c \in S : v[c] > 0) => SumOf([c \in S |-> history[c] * v[c]]) > 0
<1> DEFINE f == [c \in S |-> history[c] * v[c]]
<1>1. IsFiniteSet(S)
  BY FS_Subset DEF HistoryOK, GoodBag
<1>2. \A c \in S : history[c] \in Nat /\ history[c] > 0
  BY DEF HistoryOK, GoodBag
<1>3. \A c \in S : f[c] \in Int /\ f[c] >= 0 /\ (v[c] > 0 => f[c] > 0)
  <2>1. SUFFICES ASSUME NEW c \in S PROVE f[c] \in Int /\ f[c] >= 0 /\ (v[c] > 0 => f[c] > 0)
    OBVIOUS
  <2>2. history[c] \in Int /\ history[c] > 0 /\ v[c] \in Int /\ v[c] >= 0
    BY <1>2
  <2>3. f[c] = history[c] * v[c]
    OBVIOUS
  <2> QED BY <2>2, <2>3
<1>4. f \in [S -> Int]
  BY <1>3
<1> HIDE DEF f
<1>5. SumOf(f) \in Int /\ SumOf(f) >= 0 /\ ((\E c \in S : f[c] > 0) => SumOf(f) > 0)
  BY <1>1, <1>3, <1>4, SumsAbove
<1> QED BY <1>3, <1>5 DEF f

LEMMA DecayTypes ==
  ASSUME NEW c \in Past, c.age <= HealthWindow
  PROVE  Decay(c) \in Int /\ Decay(c) > 0
<1>1. HealthWindow - c.age \in Nat
  BY PolicyAssumption DEF Past
<1> QED BY <1>1, Powers DEF Decay

LEMMA Decayed ==
  ASSUME HistoryOK, NEW S \in SUBSET DOMAIN history, \A c \in S : c.age <= HealthWindow
  PROVE  /\ Total(S, history, Decay) \in Int /\ Total(S, history, Decay) >= 0
         /\ S # {} => Total(S, history, Decay) > 0
<1> DEFINE v == [c \in S |-> Decay(c)]
<1>1. \A c \in S : Decay(c) \in Int /\ Decay(c) > 0
  BY DecayTypes DEF HistoryOK, GoodBag
<1>2. v \in [S -> Int] /\ \A c \in S : v[c] >= 0 /\ v[c] > 0
  BY <1>1
<1>3. [c \in S |-> history[c] * Decay(c)] = [c \in S |-> history[c] * v[c]]
  OBVIOUS
<1>4. Total(S, history, Decay) = SumOf([c \in S |-> history[c] * v[c]])
  BY <1>3 DEF Total
<1> HIDE DEF v
<1> QED BY <1>2, <1>4, Weighted

LEMMA Counts ==
  ASSUME HistoryOK, NEW S \in SUBSET DOMAIN history
  PROVE  Count(S, history) \in Nat
<1> DEFINE v == [c \in S |-> 1]
<1>1. v \in [S -> Int] /\ \A c \in S : v[c] >= 0
  OBVIOUS
<1>2. [c \in S |-> history[c] * 1] = [c \in S |-> history[c] * v[c]]
  OBVIOUS
<1>3. Count(S, history) = SumOf([c \in S |-> history[c] * v[c]])
  BY <1>2 DEF Count, Total
<1> HIDE DEF v
<1>4. Count(S, history) \in Int /\ Count(S, history) >= 0
  BY <1>1, <1>3, Weighted
<1> QED BY <1>4

LEMMA HealthTypes ==
  ASSUME HistoryOK, NEW valid \in SUBSET Models
  PROVE  HealthRating(history, valid) \in Sound
<1>1. ASSUME NEW m \in valid PROVE HealthPoint(history, m) \in 0..Unit
  <2> DEFINE mine == {c \in Within(history, m, HealthWindow) : c.outcome # "blocked"}
             failed == {c \in mine : c.outcome = "error"}
             errors == Total(failed, history, Decay)
             all == Total(mine, history, Decay)
  <2>1. /\ mine \in SUBSET DOMAIN history /\ failed \in SUBSET DOMAIN history
        /\ \A c \in mine : c.age <= HealthWindow
        /\ \A c \in failed : c.age <= HealthWindow
    BY DEF Within
  <2>2. HealthPoint(history, m) = IF mine = {} THEN Unit
                                  ELSE IF 10 * errors >= 9 * all THEN 0
                                  ELSE Unit - (Unit * errors) \div (all + 2 * 2 ^ HealthWindow)
    BY DEF HealthPoint
  <2> HIDE DEF mine, failed
  <2>3. errors \in Int /\ errors >= 0 /\ all \in Int /\ all >= 0
    BY <2>1, Decayed
  <2> HIDE DEF errors, all
  <2>4. 2 ^ HealthWindow \in Int /\ 2 ^ HealthWindow > 0 /\ Unit \in Nat
    BY Powers, PolicyAssumption
  <2> DEFINE prior == all + 2 * 2 ^ HealthWindow
  <2>5. prior \in Nat /\ prior > 0 /\ all <= prior
    BY <2>3, <2>4
  <2> HIDE DEF prior
  <2>6. CASE mine = {} \/ 10 * errors >= 9 * all
    BY <2>2, <2>4, <2>6
  <2>7. CASE mine # {} /\ ~ (10 * errors >= 9 * all)
    <3>1. errors \in Nat /\ errors <= prior
      BY <2>3, <2>5, <2>7
    <3>2. (Unit * errors) \div prior \in 0..Unit
      BY <2>5, <3>1, Share
    <3>3. HealthPoint(history, m) = Unit - (Unit * errors) \div prior
      BY <2>2, <2>7 DEF prior
    <3> QED BY <2>4, <3>2, <3>3
  <2> QED BY <2>6, <2>7
<1>2. [m \in valid |-> HealthPoint(history, m)] \in [valid -> 0..Unit]
  BY <1>1
<1> QED BY <1>2, Scales DEF HealthRating

LEMMA LatencyTypes ==
  ASSUME HistoryOK, NEW m
  PROVE  Latency(history, m) \in Int
<1> DEFINE mine == {c \in Within(history, m, HealthWindow) : c.outcome # "error" /\ c.latency > 0}
           v == [c \in mine |-> Unit * c.latency * Decay(c)]
           late == SumOf([c \in mine |-> history[c] * v[c]])
           all == Total(mine, history, Decay)
<1>1. mine \in SUBSET DOMAIN history /\ \A c \in mine : c.age <= HealthWindow
  BY DEF Within
<1>2. [c \in mine |-> history[c] * (Unit * c.latency * Decay(c))] = [c \in mine |-> history[c] * v[c]]
  OBVIOUS
<1>3. Latency(history, m) = IF mine = {} THEN 0 ELSE late \div all
  BY <1>2 DEF Latency, Total
<1>4. ASSUME NEW c \in mine PROVE v[c] \in Int /\ v[c] >= 0
  <2>1. c \in Past /\ c.latency \in Nat
    BY <1>1 DEF HistoryOK, GoodBag, Past
  <2>2. Decay(c) \in Int /\ Decay(c) > 0 /\ Unit \in Nat
    BY <1>1, <2>1, DecayTypes, PolicyAssumption
  <2>3. Unit * c.latency \in Int /\ Unit * c.latency >= 0
    BY <2>1, <2>2
  <2>4. Unit * c.latency * Decay(c) \in Int /\ Unit * c.latency * Decay(c) >= 0
    BY <2>2, <2>3
  <2> QED BY <2>4
<1>5. v \in [mine -> Int]
  BY <1>4
<1> HIDE DEF mine, v
<1>6. late \in Int
  BY <1>1, <1>4, <1>5, Weighted
<1>7. all \in Int /\ (mine # {} => all > 0)
  BY <1>1, Decayed
<1> HIDE DEF late, all
<1> QED BY <1>3, <1>6, <1>7, Quotient

LEMMA PerformanceTypes ==
  ASSUME HistoryOK, NEW valid \in SUBSET Models
  PROVE  PerformanceRating(history, valid) \in Sound
<1> DEFINE known == {m \in valid : Latency(history, m) > 0}
           seen == {Latency(history, m) : m \in known}
           point(m) == IF m \notin known \/ Cardinality(known) < 2 THEN Unit
                       ELSE (Unit * Min(seen)) \div Latency(history, m)
<1>1. \A m \in valid : Latency(history, m) \in Int
  BY LatencyTypes
<1>2. PerformanceRating(history, valid) = Rated([m \in valid |-> point(m)])
  BY DEF PerformanceRating
<1>3. ASSUME NEW m \in valid PROVE point(m) \in 0..Unit
  <2>1. CASE m \notin known
    BY <2>1, PolicyAssumption
  <2>2. CASE m \in known
    <3>1. seen \in SUBSET Nat /\ seen # {}
      BY <1>1, <2>2
    <3>2. Latency(history, m) \in seen
      BY <2>2
    <3>3. Min(seen) \in Nat /\ Min(seen) <= Latency(history, m)
      <4> HIDE DEF seen
      <4> QED BY <3>1, <3>2, Least
    <3>4. Latency(history, m) \in Nat /\ Latency(history, m) > 0
      BY <1>1, <2>2
    <3> HIDE DEF seen, known
    <3>5. (Unit * Min(seen)) \div Latency(history, m) \in 0..Unit
      BY <3>3, <3>4, Share
    <3>6. Unit \in 0..Unit
      BY PolicyAssumption
    <3> QED BY <3>5, <3>6
  <2> QED BY <2>1, <2>2
<1> HIDE DEF point
<1>4. [m \in valid |-> point(m)] \in [valid -> 0..Unit]
  BY <1>3
<1> QED BY <1>2, <1>4, Scales

LEMMA RateTypes ==
  ASSUME HistoryOK, NEW valid \in SUBSET Models
  PROVE  RateRating(history, valid) \in Sound
<1> DEFINE over == {m \in valid \cap CallLimited : MaxCallsPerWindow > 0
                                                /\ Calls(history, m) >= MaxCallsPerWindow}
           busy == {Calls(history, m) : m \in (valid \cap CallLimited) \ over} \ {0}
           point(m) == IF m \notin CallLimited THEN Unit
                       ELSE IF m \in over THEN 0
                       ELSE IF Calls(history, m) = 0 THEN Unit
                       ELSE (Unit * Min(busy)) \div Calls(history, m)
<1>1. ASSUME NEW m PROVE Calls(history, m) \in Nat
  <2>1. Within(history, m, RateWindow) \in SUBSET DOMAIN history
    BY DEF Within
  <2> QED BY <2>1, Counts DEF Calls
<1>2. RateRating(history, valid) = Filtered([m \in valid |-> point(m)], over)
  BY DEF RateRating
<1>3. over \in SUBSET valid /\ over \subseteq CallLimited
  OBVIOUS
<1>4. ASSUME NEW m \in valid PROVE point(m) \in 0..Unit
  <2>1. CASE m \notin CallLimited \/ m \in over \/ Calls(history, m) = 0
    BY <2>1, PolicyAssumption
  <2>2. CASE m \in CallLimited /\ m \notin over /\ Calls(history, m) # 0
    <3>1. Calls(history, m) \in busy /\ busy \in SUBSET Nat
      BY <1>1, <2>2
    <3>2. Min(busy) \in Nat /\ Min(busy) <= Calls(history, m)
      <4> HIDE DEF busy
      <4> QED BY <3>1, Least
    <3>3. Calls(history, m) \in Nat /\ Calls(history, m) > 0
      BY <1>1, <2>2
    <3> HIDE DEF busy, over
    <3>4. (Unit * Min(busy)) \div Calls(history, m) \in 0..Unit
      BY <3>2, <3>3, Share
    <3> QED BY <2>2, <3>4
  <2> QED BY <2>1, <2>2
<1>5. [m \in valid |-> point(m)] \in [valid -> 0..Unit]
  BY <1>4
<1>6. \A m \in over : [n \in valid |-> point(n)][m] = 0
  BY <1>3
<1> HIDE DEF point, over
<1> QED BY <1>2, <1>3, <1>5, <1>6, Scales

LEMMA FairnessTypes ==
  ASSUME HistoryOK, NEW valid \in SUBSET Models
  PROVE  FairnessRating(history, valid) \in Sound
<1> DEFINE won == [m \in valid |-> Successes(history, m)]
           all == SumOf(won)
           point(m) == IF all = 0 THEN Unit ELSE Unit - (Unit * Successes(history, m)) \div all
<1>1. ASSUME NEW m PROVE Successes(history, m) \in Nat
  <2>1. {c \in Within(history, m, FairWindow) : c.outcome = "success"} \in SUBSET DOMAIN history
    BY DEF Within
  <2> QED BY <2>1, Counts DEF Successes
<1>2. IsFiniteSet(valid)
  BY RoutingAssumption, FS_Subset
<1>3. won \in [valid -> Int] /\ \A m \in valid : won[m] >= 0
  BY <1>1
<1>4. FairnessRating(history, valid) = Rated([m \in valid |-> point(m)])
  BY DEF FairnessRating
<1> HIDE DEF won
<1>5. all \in Int /\ all >= 0
  BY <1>2, <1>3, SumsAbove
<1>8. \A m \in valid : won[m] <= all
  BY <1>2, <1>3, SumsCover
<1>9. \A m \in valid : Successes(history, m) <= all
  BY <1>8 DEF won
<1> HIDE DEF all
<1>6. ASSUME NEW m \in valid PROVE point(m) \in 0..Unit
  <2>1. CASE all = 0
    BY <2>1, PolicyAssumption
  <2>2. CASE all # 0
    <3>1. Successes(history, m) \in Nat /\ all \in Nat /\ all > 0 /\ Unit \in Nat
      BY <1>1, <1>5, <2>2, PolicyAssumption
    <3>2. (Unit * Successes(history, m)) \div all \in 0..Unit
      BY <1>9, <3>1, Share
    <3> QED BY <2>2, <3>1, <3>2
  <2> QED BY <2>1, <2>2
<1> HIDE DEF point
<1>7. [m \in valid |-> point(m)] \in [valid -> 0..Unit]
  BY <1>6
<1> QED BY <1>4, <1>7, Scales

\* Whatever a policy finds, whenever it looks.
LEMMA FindingsTypes ==
  ASSUME HistoryOK, NEW valid \in SUBSET Models, NEW type \in Types \ (Instant \cup {"llm"})
  PROVE  Findings(type, valid) \subseteq Sound
<1>1. CASE type = "health"
  BY <1>1, HealthTypes DEF Findings
<1>2. CASE type = "performance"
  BY <1>2, PerformanceTypes DEF Findings
<1>3. CASE type = "rate-limit"
  BY <1>3, RateTypes DEF Findings
<1>4. CASE type = "fairness"
  BY <1>4, FairnessTypes DEF Findings
<1>5. CASE type = "semantic-intent"
  BY <1>5, IntentTypes DEF Findings
<1>6. CASE type = "budget-remaining"
  <2>1. \A p \in [valid -> {0, Unit \div 2, Unit}] : p \in [valid -> 0..Unit]
    <3>1. 0 \in 0..Unit /\ Unit \div 2 \in 0..Unit /\ Unit \in 0..Unit
      BY PolicyAssumption
    <3> QED BY <3>1
  <2>2. \A p \in [valid -> {0, Unit \div 2, Unit}] : Rated(p) \in Sound
    BY <2>1, Scales
  <2> QED BY <1>6, <2>2 DEF Findings
<1> QED BY <1>1, <1>2, <1>3, <1>4, <1>5, <1>6 DEF Types, Instant

LEMMA ArrivalTypes ==
  ASSUME NEW valid \in SUBSET Models, NEW type \in Types, NEW req, req.size \in Nat
  PROVE  /\ OnArrival(type, req, valid) \in Marking \cup {Pending}
         /\ OnArrival(type, req, valid) = Pending => type \notin Instant
         /\ OnArrival(type, req, valid) # Pending /\ type \in Computed
              => Scaled(OnArrival(type, req, valid))
<1>1. CASE type \in Instant
  <2>1. OnArrival(type, req, valid) \in Marking
    BY <1>1, ContextTypes, CapabilityTypes, CheapestTypes, PreferenceTypes
    DEF OnArrival, Instant, Sound
  <2>2. type \in Computed => OnArrival(type, req, valid) \in Sound
    BY <1>1, ContextTypes, CapabilityTypes, CheapestTypes DEF OnArrival, Instant, Computed
  <2> QED BY <2>1, <2>2, NotPending DEF Sound
<1>2. CASE type \notin Instant
  BY <1>2 DEF OnArrival, Instant
<1> QED BY <1>1, <1>2

-----------------------------------------------------------------------------
(* The invariant, action by action.                                          *)

CallsOK == call \in [Slots -> CallState] /\ \A r \in Slots : CallOK(call[r])
IInv    == HistoryOK /\ CallsOK /\ LoadOK

LEMMA CallMoves ==
  ASSUME CallsOK, NEW r \in Slots, NEW q, CallOK(q), Moves(r, q)
  PROVE  CallsOK'
<1>1. q \in CallState
  BY DEF CallOK
<1>2. call' = [call EXCEPT ![r] = q] /\ call \in [Slots -> CallState]
  BY DEF Moves, CallsOK
<1>3. call' \in [Slots -> CallState] /\ \A s \in Slots : call'[s] = IF s = r THEN q ELSE call[s]
  BY <1>1, <1>2
<1>4. \A s \in Slots : CallOK(call'[s])
  BY <1>3 DEF CallsOK
<1> QED BY <1>3, <1>4 DEF CallsOK

LEMMA IdleCall ==
  /\ CallOK(Idle) /\ CallOK([Idle EXCEPT !.phase = "broken"])
  /\ \A plan \in Seq(Models) : plan # <<>> => CallOK([Idle EXCEPT !.phase = "trying", !.plan = plan])
<1>1. <<>> \in Seq(Models) /\ <<>> \in Seq(Types) /\ <<>> \in Seq(Marking \cup {Pending})
      /\ DOMAIN <<>> = {}
  OBVIOUS
<1>2. NoProfile \in Profile /\ NoProfile.policies = <<>>
  BY <1>1 DEF NoProfile, Profile
<1>3. /\ Idle \in CallState /\ [Idle EXCEPT !.phase = "broken"] \in CallState
      /\ \A plan \in Seq(Models) : [Idle EXCEPT !.phase = "trying", !.plan = plan] \in CallState
  BY <1>1, <1>2 DEF Idle, CallState
<1> QED BY <1>1, <1>2, <1>3 DEF CallOK, Idle

LEMMA AdmittedTypes ==
  ASSUME NEW valid \in Admissions
  PROVE  /\ valid \in Seq(Models) /\ valid # <<>> /\ ToSet(valid) \in SUBSET Models
         /\ \A i, k \in DOMAIN valid : valid[i] = valid[k] => i = k
<1>1. PICK S \in SUBSET Models : valid \in SetToSeqs(S)
  BY RoutingAssumption DEF Lists, SetToAllKPermutations
<1>2. IsFiniteSet(S) /\ Cardinality(S) \in Nat
  BY RoutingAssumption, FS_Subset, FS_CardinalityType
<1>3. /\ valid \in [1..Cardinality(S) -> S]
      /\ \A i, k \in 1..Cardinality(S) : i # k => valid[i] # valid[k]
  BY <1>1 DEF SetToSeqs
<1>4. valid \in [1..Cardinality(S) -> Models] /\ DOMAIN valid = 1..Cardinality(S)
  BY <1>3
<1>5. valid \in Seq(Models)
  BY <1>2, <1>4
<1>6. valid # <<>>
  BY RoutingAssumption
<1> QED BY <1>3, <1>4, <1>5, <1>6 DEF ToSet

LEMMA ArriveKeeps ==
  ASSUME CallsOK, NEW r \in Slots, Arrive(r)
  PROVE  CallsOK'
<1>1. PICK req \in RequestKinds, valid \in Admissions : Bypass(r, req, valid) \/ Consult(r, req, valid)
  BY DEF Arrive
<1>2. CASE Bypass(r, req, valid)
  <2>1. Moves(r, [Idle EXCEPT !.phase = "trying", !.plan = valid])
    BY <1>2 DEF Bypass
  <2>2. CallOK([Idle EXCEPT !.phase = "trying", !.plan = valid])
    BY AdmittedTypes, IdleCall
  <2> QED BY <2>1, <2>2, CallMoves
<1>3. CASE Consult(r, req, valid)
  <2> DEFINE said(profile) == [i \in DOMAIN profile.policies |->
                                 OnArrival(profile.policies[i], req, ToSet(valid))]
             asked(profile) == [Idle EXCEPT !.phase = "judging", !.valid = valid,
                                  !.profile = profile, !.ratings = said(profile)]
  <2>1. PICK profile \in Profiles[r] : Moves(r, asked(profile))
    BY <1>3 DEF Consult
  <2>2. profile \in Profile /\ profile.policies \in Seq(Types)
    BY RoutingAssumption DEF Profile
  <2>3. req.size \in Nat
    BY RoutingAssumption DEF Request
  <2>4. \A i \in DOMAIN profile.policies :
          /\ said(profile)[i] \in Marking \cup {Pending}
          /\ said(profile)[i] = Pending => profile.policies[i] \notin Instant
          /\ said(profile)[i] # Pending /\ profile.policies[i] \in Computed
               => Scaled(said(profile)[i])
    <3>1. \A i \in DOMAIN profile.policies : profile.policies[i] \in Types
      BY <2>2
    <3> QED BY <2>3, <3>1, AdmittedTypes, ArrivalTypes
  <2>5. said(profile) \in Seq(Marking \cup {Pending}) /\ DOMAIN said(profile) = DOMAIN profile.policies
    <3>1. Len(profile.policies) \in Nat /\ DOMAIN profile.policies = 1..Len(profile.policies)
      BY <2>2
    <3>2. said(profile) \in [1..Len(profile.policies) -> Marking \cup {Pending}]
      BY <2>4, <3>1
    <3> QED BY <3>1, <3>2
  <2> HIDE DEF said
  <2>6. Idle \in CallState
    BY IdleCall DEF CallOK
  <2>7. /\ asked(profile) \in CallState /\ asked(profile).valid = valid
        /\ asked(profile).profile = profile /\ asked(profile).ratings = said(profile)
        /\ asked(profile).phase = "judging"
    BY <2>2, <2>5, <2>6, AdmittedTypes DEF CallState
  <2> HIDE DEF asked
  <2>8. CallOK(asked(profile))
    BY <2>4, <2>5, <2>7, AdmittedTypes DEF CallOK
  <2> QED BY <2>1, <2>8, CallMoves
<1> QED BY <1>1, <1>2, <1>3

\* A policy is heard.
LEMMA HeardOf ==
  ASSUME NEW q, CallOK(q), NEW i \in DOMAIN q.ratings, NEW x \in Marking,
         q.profile.policies[i] \in Computed => Scaled(x)
  PROVE  CallOK([q EXCEPT !.ratings[i] = x])
<1> DEFINE t == [q EXCEPT !.ratings[i] = x]
<1>1. q \in CallState /\ q.ratings \in Seq(Marking \cup {Pending})
  BY DEF CallOK, CallState
<1>2. [q.ratings EXCEPT ![i] = x] \in Seq(Marking \cup {Pending})
  BY <1>1
<1>3. t = [q EXCEPT !.ratings = [q.ratings EXCEPT ![i] = x]]
  BY <1>1 DEF CallState
<1>4. /\ t \in CallState /\ t.valid = q.valid /\ t.profile = q.profile /\ t.phase = q.phase
      /\ t.plan = q.plan /\ t.ratings = [q.ratings EXCEPT ![i] = x]
  BY <1>1, <1>2, <1>3 DEF CallState
<1> HIDE DEF t
<1>5. /\ DOMAIN t.ratings = DOMAIN q.ratings
      /\ \A k \in DOMAIN q.ratings : t.ratings[k] = IF k = i THEN x ELSE q.ratings[k]
  BY <1>1, <1>4
<1>6. CallOK(t)
  BY <1>4, <1>5, NotPending DEF CallOK
<1> QED BY <1>6 DEF t

LEMMA JudgeKeeps ==
  ASSUME HistoryOK, CallsOK, NEW r \in Slots, NEW i, Judge(r, i)
  PROVE  CallsOK'
<1> DEFINE q == call[r]
           type == q.profile.policies[i]
           valid == ToSet(q.valid)
<1>1. CallOK(q) /\ i \in DOMAIN q.ratings /\ q.ratings[i] = Pending /\ type # "llm"
  BY DEF CallsOK, Judge, Waits
<1>2. type \in Types \ (Instant \cup {"llm"})
  BY <1>1 DEF CallOK, CallState, Profile
<1>3. valid \in SUBSET Models
  BY <1>1 DEF CallOK, CallState, ToSet
<1>4. PICK x \in Findings(type, valid) \cup {FailedRating} : Moves(r, [q EXCEPT !.ratings[i] = x])
  BY DEF Judge
<1>5. x \in Marking /\ Scaled(x)
  BY <1>2, <1>3, FindingsTypes, FailedTypes DEF Sound
<1>6. CallOK([q EXCEPT !.ratings[i] = x])
  BY <1>1, <1>5, HeardOf
<1> QED BY <1>4, <1>6, CallMoves

-----------------------------------------------------------------------------
(* The history.                                                              *)

LEMMA BagsAdd ==
  ASSUME NEW A, NEW B, GoodBag(A), GoodBag(B)
  PROVE  GoodBag(A (+) B)
<1> DEFINE of(e, bag) == IF e \in DOMAIN bag THEN bag[e] ELSE 0
<1>1. A (+) B = [e \in DOMAIN A \cup DOMAIN B |-> of(e, A) + of(e, B)]
  BY DEF (+)
<1>2. \A e \in DOMAIN A \cup DOMAIN B : of(e, A) + of(e, B) \in Nat \ {0}
  <2>1. \A e \in DOMAIN A : A[e] \in Nat \ {0}
    BY DEF GoodBag
  <2>2. \A e \in DOMAIN B : B[e] \in Nat \ {0}
    BY DEF GoodBag
  <2> QED BY <2>1, <2>2
<1>3. IsFiniteSet(DOMAIN A \cup DOMAIN B)
  BY FS_Union DEF GoodBag
<1> HIDE DEF of
<1> QED BY <1>1, <1>2, <1>3 DEF GoodBag

LEMMA MadeGood ==
  ASSUME NEW m \in Models, NEW outcome \in {"success", "error", "blocked"}, NEW latency \in Nat
  PROVE  GoodBag(Made(m, outcome, latency))
<1> DEFINE c == [model |-> m, outcome |-> outcome, latency |-> latency, age |-> 0]
<1>1. c \in Past
  BY DEF Past
<1>2. Made(m, outcome, latency) = [e \in {c} |-> 1]
  BY DEF Made, SetToBag
<1> HIDE DEF c
<1>3. IsFiniteSet({c})
  BY FS_Singleton
<1> QED BY <1>1, <1>2, <1>3 DEF GoodBag

LEMMA AskedGood ==
  ASSUME NEW J, IsFiniteSet(J), NEW outcome \in {"success", "error", "blocked"},
         NEW latency \in Nat, NEW times \in Nat \ {0}
  PROVE  GoodBag(Asked(J, outcome, latency, times))
<1> DEFINE K == {n \in J : LlmModels[n] \in Models}
           c(j) == [model |-> LlmModels[j], outcome |-> outcome, latency |-> latency, age |-> 0]
           T == {c(j) : j \in K}
           f == [j \in K |-> c(j)]
<1>1. IsFiniteSet(K)
  BY FS_Subset
<1>2. T \subseteq Past
  BY DEF Past
<1>3. IsFiniteSet(T)
  <2>1. f \in Surjection(K, T)
    BY DEF Surjection
  <2> HIDE DEF f, K, T
  <2> QED BY <1>1, <2>1, FS_Surjection
<1>4. Asked(J, outcome, latency, times) = [e \in T |-> times]
  BY DEF Asked
<1> HIDE DEF T
<1> QED BY <1>2, <1>3, <1>4 DEF GoodBag

LEMMA AskLlmKeeps ==
  ASSUME HistoryOK, CallsOK, NEW r \in Slots, NEW i, AskLlm(r, i)
  PROVE  HistoryOK' /\ CallsOK'
<1> DEFINE q == call[r]
           n == Len(LlmModels)
           P(k) == IF k > n THEN {FailedRating}
                   ELSE {Rated(Restrict(p, DOMAIN p \cap ToSet(q.valid))) : p \in Answers}
<1>1. n \in Nat
  BY RoutingAssumption
<1>2. CallOK(q) /\ i \in DOMAIN q.ratings /\ q.profile.policies[i] \notin Computed
  BY DEF CallsOK, AskLlm, Waits, Computed
<1>0. PICK k \in 1..(n + 1), l \in Latencies :
        \E failed, unread \in SUBSET (1..(k - 1)), repairs \in 1..2 :
          /\ history' = history (+) Asked(failed, "error", 0, 1)
                                (+) Asked(unread \ failed, "success", l, 2)
                                (+) Asked(unread \cap failed, "success", l, 1)
                                (+) Asked({k} \cap DOMAIN LlmModels, "success", l, repairs)
          /\ \E x \in P(k) : Moves(r, [q EXCEPT !.ratings[i] = x])
  BY DEF AskLlm
<1>3. PICK failed \in SUBSET (1..(k - 1)), unread \in SUBSET (1..(k - 1)), repairs \in 1..2 :
        /\ history' = history (+) Asked(failed, "error", 0, 1)
                              (+) Asked(unread \ failed, "success", l, 2)
                              (+) Asked(unread \cap failed, "success", l, 1)
                              (+) Asked({k} \cap DOMAIN LlmModels, "success", l, repairs)
        /\ \E x \in P(k) : Moves(r, [q EXCEPT !.ratings[i] = x])
  BY <1>0
<1>4. k \in Nat /\ l \in Nat /\ repairs \in Nat \ {0}
  BY <1>1, PolicyAssumption
<1>5. /\ IsFiniteSet(failed) /\ IsFiniteSet(unread \ failed) /\ IsFiniteSet(unread \cap failed)
      /\ IsFiniteSet({k} \cap DOMAIN LlmModels)
  <2>1. IsFiniteSet(1..(k - 1)) /\ IsFiniteSet({k})
    <3>1. k - 1 \in Int
      BY <1>4
    <3>2. IsFiniteSet(1..(k - 1))
      BY <3>1, FS_Interval
    <3> QED BY <3>2, FS_Singleton
  <2>2. \A S \in SUBSET (1..(k - 1)) : IsFiniteSet(S)
    BY <2>1, FS_Subset
  <2>3. \A S \in SUBSET {k} : IsFiniteSet(S)
    BY <2>1, FS_Subset
  <2> QED BY <2>2, <2>3
<1>6. GoodBag(history')
  <2>1. /\ GoodBag(Asked(failed, "error", 0, 1))
        /\ GoodBag(Asked(unread \ failed, "success", l, 2))
        /\ GoodBag(Asked(unread \cap failed, "success", l, 1))
        /\ GoodBag(Asked({k} \cap DOMAIN LlmModels, "success", l, repairs))
    BY <1>4, <1>5, AskedGood
  <2> QED BY <1>3, <2>1, BagsAdd DEF HistoryOK
<1>7. P(k) \subseteq Marking
  <2>1. ASSUME NEW p \in Answers
        PROVE  Rated(Restrict(p, DOMAIN p \cap ToSet(q.valid))) \in Marking
    <3> DEFINE T == DOMAIN p \cap ToSet(q.valid)
    <3>1. DOMAIN p \subseteq Models /\ p \in [DOMAIN p -> Int]
      BY RoutingAssumption
    <3>2. T \in SUBSET Models
      BY <3>1
    <3>3. Restrict(p, T) \in [T -> Int]
      BY <3>1 DEF Restrict
    <3> HIDE DEF T
    <3>4. Rated(Restrict(p, T)) \in Marking
      BY <3>2, <3>3, Ratings
    <3> QED BY <3>4 DEF T
  <2> QED BY <2>1, FailedTypes DEF Sound
<1>8. PICK x \in P(k) : Moves(r, [q EXCEPT !.ratings[i] = x])
  BY <1>3
<1>9. CallOK([q EXCEPT !.ratings[i] = x])
  <2> HIDE DEF P
  <2> QED BY <1>2, <1>7, <1>8, HeardOf
<1>10. CallsOK'
  BY <1>8, <1>9, CallMoves
<1> QED BY <1>6, <1>10 DEF HistoryOK

LEMMA TickKeeps ==
  ASSUME HistoryOK, Tick
  PROVE  HistoryOK'
<1> DEFINE kept == {c \in DOMAIN history : c.age < Horizon}
           T == {Older(k) : k \in kept}
           f == [k \in kept |-> Older(k)]
           back(c) == [c EXCEPT !.age = @ - 1]
<1>1. history' = [c \in T |-> history[back(c)]]
  BY DEF Tick
<1>2. ASSUME NEW k \in kept PROVE Older(k) \in Past /\ back(Older(k)) = k
  <2>1. k \in Past
    BY DEF HistoryOK, GoodBag
  <2>2. /\ k.age \in Nat
        /\ k = [model |-> k.model, outcome |-> k.outcome, latency |-> k.latency, age |-> k.age]
    BY <2>1 DEF Past
  <2>3. Older(k) = [model |-> k.model, outcome |-> k.outcome, latency |-> k.latency, age |-> k.age + 1]
    BY <2>1 DEF Older, Past
  <2>4. Older(k) \in Past
    BY <2>1, <2>3 DEF Past
  <2>5. back(Older(k)) = [model |-> k.model, outcome |-> k.outcome, latency |-> k.latency,
                          age |-> (k.age + 1) - 1]
    BY <2>3
  <2>6. (k.age + 1) - 1 = k.age
    BY <2>2
  <2> QED BY <2>2, <2>4, <2>5, <2>6
<1>3. IsFiniteSet(kept)
  BY FS_Subset DEF HistoryOK, GoodBag
<1>4. IsFiniteSet(T)
  <2>1. f \in Surjection(kept, T)
    BY DEF Surjection
  <2> HIDE DEF f, kept, T
  <2> QED BY <1>3, <2>1, FS_Surjection
<1>5. T \subseteq Past
  BY <1>2
<1>6. \A c \in T : history[back(c)] \in Nat \ {0}
  <2>1. SUFFICES ASSUME NEW k \in kept PROVE history[back(Older(k))] \in Nat \ {0}
    OBVIOUS
  <2>2. back(Older(k)) = k
    BY <1>2
  <2>3. history[k] \in Nat \ {0}
    BY DEF HistoryOK, GoodBag
  <2> QED BY <2>2, <2>3
<1> HIDE DEF T, back
<1>7. GoodBag(history')
  BY <1>1, <1>4, <1>5, <1>6 DEF GoodBag
<1> QED BY <1>7 DEF HistoryOK

-----------------------------------------------------------------------------
(* Every step keeps the invariant.                                           *)

LEMMA Start == Init => IInv
<1> SUFFICES ASSUME Init PROVE IInv
  OBVIOUS
<1>1. HistoryOK
  <2>1. history = [e \in {} |-> 1]
    BY DEF Init, EmptyBag, SetToBag
  <2> QED BY <2>1, FS_EmptySet DEF HistoryOK, GoodBag
<1>2. CallsOK
  <2>1. call \in [Slots -> CallState] /\ \A r \in Slots : call[r] = Idle
    BY IdleCall DEF Init, CallOK
  <2> QED BY <2>1, IdleCall DEF CallsOK
<1>3. LoadOK
  BY DEF Init, NoTally, LoadOK
<1> QED BY <1>1, <1>2, <1>3 DEF IInv

LEMMA SelectKeeps ==
  ASSUME CallsOK, cursor \in Nat, NEW r \in Slots, Select(r)
  PROVE  CallsOK'
<1>1. PICK plan \in Orders(call[r]) : Moves(r, [Idle EXCEPT !.phase = "trying", !.plan = plan])
  BY DEF Select
<1>2. Heard(call[r]) /\ Left(call[r]) # {} /\ call[r].profile.selector # "round-robin"
  BY DEF Select, Judged, CallsOK, Heard
<1>3. plan \in Seq(Models) /\ plan # <<>>
  BY <1>2, PlanTypes
<1> QED BY <1>1, <1>3, IdleCall, CallMoves

LEMMA TakeTurnKeeps ==
  ASSUME CallsOK, LoadOK, NEW r \in Slots, TakeTurn(r)
  PROVE  CallsOK' /\ LoadOK'
<1> DEFINE S == Left(call[r])
           n == Cardinality(S)
<1>1. Heard(call[r])
  BY DEF TakeTurn, Judged, CallsOK, Heard
<1>2. S \in SUBSET Models /\ IsFiniteSet(S) /\ n \in Nat /\ n > 0 /\ S # {}
  <2>1. S \in SUBSET Models /\ IsFiniteSet(S)
    BY <1>1, LeftTypes DEF Heard
  <2>2. n \in Nat /\ n > 0
    BY <2>1, FS_CardinalityType DEF TakeTurn
  <2>3. S # {}
    BY <2>2, FS_EmptySet
  <2> QED BY <2>1, <2>2, <2>3
<1>3. cursor \in Nat /\ cursor' = NextCursor(n)
  BY DEF LoadOK, TakeTurn
<1>4. CASE cursor < n
  <2>1. PICK plan \in Orders(call[r]) :
          /\ Moves(r, [Idle EXCEPT !.phase = "trying", !.plan = plan])
          /\ tally' = Counted(S, plan[1])
    BY <1>4 DEF TakeTurn
  <2>2. plan \in Seq(Models) /\ plan # <<>> /\ plan[1] = Turn(S)
    BY <1>1, <1>2, <1>3, <1>4, PlanTypes DEF TakeTurn
  <2>3. CallsOK'
    BY <2>1, <2>2, IdleCall, CallMoves
  <2>4. tally' = Counted(S, Turn(S))
    BY <2>1, <2>2
  <2>5. LoadOK'
    <3> HIDE DEF S
    <3> QED BY <1>2, <1>3, <1>4, <2>4, TurnIsShared
  <2> QED BY <2>3, <2>5
<1>5. CASE ~(cursor < n)
  <2>1. Moves(r, [Idle EXCEPT !.phase = "broken"]) /\ tally' = NoTally
    BY <1>5 DEF TakeTurn
  <2>2. CallsOK'
    BY <2>1, IdleCall, CallMoves
  <2>3. cursor' \in Nat
    <3> HIDE DEF n
    <3> QED BY <1>2, <1>3 DEF NextCursor
  <2>4. LoadOK'
    BY <2>1, <2>3 DEF LoadOK, NoTally
  <2> QED BY <2>2, <2>4
<1> QED BY <1>4, <1>5

LEMMA Shorter ==
  ASSUME NEW s \in Seq(Models), s # <<>>, Len(s) # 1
  PROVE  Tail(s) # <<>>
<1>1. Len(s) \in Nat /\ Len(s) # 0
  OBVIOUS
<1>2. Len(s) - 1 \in Nat /\ Len(s) - 1 # 0
  BY <1>1
<1>3. Len(Tail(s)) = Len(s) - 1
  BY <1>1
<1>4. Len(<<>>) = 0
  OBVIOUS
<1> QED BY <1>2, <1>3, <1>4

LEMMA GoneKeeps ==
  ASSUME NEW q, CallOK(q), q.phase = "trying"
  PROVE  CallOK(Gone(q)) /\ Head(q.plan) \in Models
<1>1. q \in CallState /\ q.plan \in Seq(Models) /\ q.plan # <<>>
  BY DEF CallOK, CallState
<1>2. Head(q.plan) \in Models /\ Tail(q.plan) \in Seq(Models)
  BY <1>1
<1>3. CASE Len(q.plan) = 1
  BY <1>2, <1>3, IdleCall DEF Gone
<1>4. CASE Len(q.plan) # 1
  <2>1. Tail(q.plan) # <<>>
    BY <1>1, <1>4, Shorter
  <2> DEFINE t == [q EXCEPT !.plan = Tail(q.plan)]
  <2>2. /\ t \in CallState /\ t.valid = q.valid /\ t.profile = q.profile /\ t.phase = q.phase
        /\ t.plan = Tail(q.plan) /\ t.ratings = q.ratings
    BY <1>1, <1>2 DEF CallState
  <2>3. Gone(q) = t
    BY <1>4 DEF Gone
  <2> HIDE DEF t
  <2>4. CallOK(t)
    BY <2>1, <2>2 DEF CallOK
  <2> QED BY <1>2, <2>3, <2>4
<1> QED BY <1>3, <1>4

LEMMA HistoryGrows ==
  ASSUME HistoryOK, NEW m \in Models, NEW outcome \in {"success", "error", "blocked"},
         NEW latency \in Nat, history' = history (+) Made(m, outcome, latency)
  PROVE  HistoryOK'
<1>1. GoodBag(Made(m, outcome, latency))
  BY MadeGood
<1> QED BY <1>1, BagsAdd DEF HistoryOK

LEMMA Quiet ==
  /\ CallsOK /\ UNCHANGED call => CallsOK'
  /\ HistoryOK /\ UNCHANGED history => HistoryOK'
  /\ LoadOK /\ UNCHANGED <<cursor, tally>> => LoadOK'
BY DEF CallsOK, HistoryOK, LoadOK

LEMMA Step == IInv /\ [Next]_vars => IInv'
<1> SUFFICES ASSUME IInv, [Next]_vars PROVE IInv'
  OBVIOUS
<1> USE DEF IInv
<1>1. cursor \in Nat
  BY DEF LoadOK
<1>2. ASSUME NEW r \in Slots, Arrive(r) PROVE IInv'
  BY <1>2, ArriveKeeps, Quiet DEF Arrive
<1>3. ASSUME NEW r \in Slots, NEW i, Judge(r, i) PROVE IInv'
  BY <1>3, JudgeKeeps, Quiet DEF Judge
<1>4. ASSUME NEW r \in Slots, NEW i, AskLlm(r, i) PROVE IInv'
  BY <1>4, AskLlmKeeps, Quiet DEF AskLlm
<1>5. ASSUME NEW r \in Slots, RefuseAll(r) PROVE IInv'
  BY <1>5, IdleCall, CallMoves, Quiet DEF RefuseAll
<1>6. ASSUME NEW r \in Slots, Select(r) PROVE IInv'
  BY <1>1, <1>6, SelectKeeps, Quiet DEF Select
<1>7. ASSUME NEW r \in Slots, TakeTurn(r) PROVE IInv'
  BY <1>7, TakeTurnKeeps, Quiet DEF TakeTurn
<1>8. ASSUME NEW r \in Slots, Break(r) PROVE IInv'
  BY <1>8, IdleCall, CallMoves, Quiet DEF Break
<1>9. ASSUME NEW r \in Slots, Answered(r) PROVE IInv'
  <2>1. Head(call[r].plan) \in Models
    BY <1>9, GoneKeeps DEF Answered, CallsOK
  <2>2. PICK l \in Latencies : history' = history (+) Made(Head(call[r].plan), "success", l)
    BY <1>9 DEF Answered
  <2>3. l \in Nat
    BY PolicyAssumption
  <2>4. HistoryOK'
    BY <2>1, <2>2, <2>3, HistoryGrows
  <2> QED BY <1>9, <2>4, IdleCall, CallMoves, Quiet DEF Answered
<1>10. ASSUME NEW r \in Slots, Failed(r) PROVE IInv'
  <2>1. Head(call[r].plan) \in Models /\ CallOK(Gone(call[r]))
    BY <1>10, GoneKeeps DEF Failed, CallsOK
  <2>2. HistoryOK'
    BY <1>10, <2>1, HistoryGrows DEF Failed
  <2> QED BY <1>10, <2>1, <2>2, CallMoves, Quiet DEF Failed
<1>11. ASSUME NEW r \in Slots, PassedOver(r) PROVE IInv'
  <2>1. CallOK(Gone(call[r]))
    BY <1>11, GoneKeeps DEF PassedOver, CallsOK
  <2> QED BY <1>11, <2>1, CallMoves, Quiet DEF PassedOver
<1>12. CASE Blocked
  <2>1. HistoryOK'
    BY <1>12, HistoryGrows, RoutingAssumption DEF Blocked
  <2> QED BY <1>12, <2>1, Quiet DEF Blocked
<1>13. CASE Tick
  BY <1>13, TickKeeps, Quiet DEF Tick
<1>14. CASE UNCHANGED vars
  BY <1>14, Quiet DEF vars
<1> QED
  BY <1>2, <1>3, <1>4, <1>5, <1>6, <1>7, <1>8, <1>9, <1>10, <1>11, <1>12, <1>13, <1>14
  DEF Next, Steps

LEMMA Inductive == Spec => []IInv
BY Start, Step, PTL DEF Spec

\* The round robin never favours: while the same models are left none of them
\* has had two turns more than another, however the requests overlap.
THEOREM TurnsAreShared == Spec => []EvenLoad
<1>1. IInv => EvenLoad
  <2>1. SUFFICES ASSUME LoadOK, NEW m \in tally.of, NEW n \in tally.of
                 PROVE  tally.turns[m] <= tally.turns[n] + 1
    BY DEF IInv, EvenLoad
  <2>2. tally.turns[m] \in {0, 1} /\ tally.turns[n] \in {0, 1}
    BY <2>1 DEF LoadOK
  <2> QED BY <2>2
<1> QED BY <1>1, Inductive, PTL

\* Whatever the history, the prices, the windows and the limits, the points a
\* policy computes are between nothing and Unit, and it excludes no model it
\* gives anything: the weighted mean compares like with like.
THEOREM ComputedStaysOnScale == Spec => []ComputedOnScale
<1>1. IInv => ComputedOnScale
  <2>1. SUFFICES ASSUME CallsOK, NEW r \in Slots, NEW i \in DOMAIN call[r].ratings,
                        call[r].ratings[i] # Pending, call[r].profile.policies[i] \in Computed
                 PROVE  Scaled(call[r].ratings[i])
    BY DEF IInv, ComputedOnScale, Scaled
  <2> QED BY <2>1 DEF CallsOK, CallOK
<1> QED BY <1>1, Inductive, PTL

\* Only a selection takes a call that is judged to its candidates.
LEMMA WhoSelects ==
  ASSUME IInv, Next, NEW r \in Slots, call[r].phase = "judging", call'[r].phase = "trying"
  PROVE  Select(r) \/ TakeTurn(r)
<1>1. ASSUME NEW s, NEW q, Moves(s, q), s # r PROVE call'[r] = call[r]
  <2>1. call \in [Slots -> CallState]
    BY DEF IInv, CallsOK
  <2> QED BY <1>1, <2>1 DEF Moves
<1>2. ASSUME NEW q, Moves(r, q) PROVE call'[r] = q
  <2>1. call \in [Slots -> CallState]
    BY DEF IInv, CallsOK
  <2> QED BY <1>2, <2>1 DEF Moves
<1>3. call'[r] # call[r]
  OBVIOUS
<1>4. ASSUME NEW s \in Slots, s # r, Arrive(s) \/ Steps(s) PROVE FALSE
  <2>1. \E q : Moves(s, q)
    BY <1>4 DEF Arrive, Bypass, Consult, Steps, Judge, AskLlm, RefuseAll, Select, TakeTurn, Break,
                Answered, Failed, PassedOver
  <2> QED BY <1>1, <1>3, <1>4, <2>1
<1>5. ~Arrive(r) /\ ~Break(r) /\ ~Answered(r) /\ ~Failed(r) /\ ~PassedOver(r)
  BY DEF Arrive, Break, Answered, Failed, PassedOver
<1>6. ~RefuseAll(r)
  <2>1. Idle.phase = "idle"
    BY DEF Idle
  <2> QED BY <1>2, <2>1 DEF RefuseAll
<1>7. ASSUME NEW i, Judge(r, i) \/ AskLlm(r, i) PROVE FALSE
  <2>1. \E x : Moves(r, [call[r] EXCEPT !.ratings[i] = x])
    BY <1>7 DEF Judge, AskLlm
  <2>2. call[r] \in CallState
    BY DEF IInv, CallsOK
  <2>3. \A x : [call[r] EXCEPT !.ratings[i] = x].phase = call[r].phase
    BY <2>2 DEF CallState
  <2> QED BY <1>2, <2>1, <2>3
<1>8. ~Blocked /\ ~Tick
  BY <1>3 DEF Blocked, Tick
<1> QED BY <1>4, <1>5, <1>6, <1>7, <1>8 DEF Next, Steps

\* Argmax tries first what the policies that were heard agree is better,
\* whatever their weights, their abstentions and their failures.
THEOREM AgreementCounts == Spec => BetterIsAhead
<1> DEFINE Honours(r) ==
      (/\ call[r].phase = "judging" /\ call'[r].phase = "trying"
       /\ call[r].profile.selector = "argmax")
      => \A m, n \in Left(call[r]) : Better(call[r], m, n) => Ahead(call'[r].plan, m, n)
<1>1. IInv /\ [Next]_vars => [\A r \in Slots : Honours(r)]_vars
  <2>1. SUFFICES ASSUME IInv, Next, NEW r \in Slots, call[r].phase = "judging",
                        call'[r].phase = "trying", call[r].profile.selector = "argmax",
                        NEW m \in Left(call[r]), NEW n \in Left(call[r]), Better(call[r], m, n)
                 PROVE  Ahead(call'[r].plan, m, n)
    BY DEF vars
  <2>2. Select(r)
    BY <2>1, WhoSelects DEF TakeTurn
  <2>3. PICK plan \in Orders(call[r]) : Moves(r, [Idle EXCEPT !.phase = "trying", !.plan = plan])
    BY <2>2 DEF Select
  <2>4. plan \in Argmax(call[r])
    BY <2>1, <2>3 DEF Orders
  <2>5. Heard(call[r])
    BY <2>1, <2>2 DEF Select, Judged, IInv, CallsOK, Heard
  <2>6. Ahead(plan, m, n)
    BY <2>1, <2>4, <2>5, ArgmaxHonours
  <2>7. call'[r].plan = plan
    <3>1. call \in [Slots -> CallState]
      BY <2>1 DEF IInv, CallsOK
    <3> QED BY <2>3, <3>1 DEF Moves, Idle
  <2> QED BY <2>6, <2>7
<1> QED BY <1>1, Inductive, PTL DEF Spec, BetterIsAhead
=============================================================================
