------------------------ MODULE AllocationPlan_proofs -----------------------
(***************************************************************************)
(* The plan is max-min fair for any bindings, tiers, limits and inputs:    *)
(* the search finds the largest level whose credits the budget pays for,   *)
(* filling to it leaves nobody above one who may still rise, and the rest  *)
(* goes, one credit each, to the first who stand at the level.             *)
(***************************************************************************)
EXTENDS AllocationPlan, Totals_proofs, FunctionTheorems

\* There are finitely many bindings, in every tier.
LEMMA BindingsFinite ==
  /\ IsFiniteSet(Bindings) /\ Bindings # {}
  /\ \A t \in Tiers : Members(t) \subseteq Bindings /\ IsFiniteSet(Members(t))
<1>1. IsFiniteSet(DOMAIN Order) /\ DOMAIN Order = 1..Len(Order) /\ Len(Order) \in Nat
  BY PlanAssumption, FS_Interval
<1>2. Order \in Surjection(DOMAIN Order, Bindings)
  BY PlanAssumption DEF Surjection, Bindings
<1>3. IsFiniteSet(Bindings)
  BY <1>1, <1>2, FS_Surjection
<1>4. \A t \in Tiers : Members(t) \subseteq Bindings
  BY DEF Members
<1>5. Bindings # {}
  <2>1. Len(Order) # 0
    BY PlanAssumption
  <2>2. Order[1] \in Bindings
    BY <1>1, <2>1 DEF Bindings
  <2>3. QED
    BY <2>2
<1>6. QED
  BY <1>3, <1>4, <1>5, FS_Subset

\* There are finitely many tiers.
LEMMA TiersFinite == IsFiniteSet(Tiers)
<1>1. TierOf \in Surjection(Bindings, Tiers)
  BY PlanAssumption DEF Surjection
<1>2. QED
  BY <1>1, BindingsFinite, FS_Surjection

\* A binding is a member of its own tier.
LEMMA TierOfBinding == \A b \in Bindings : TierOf[b] \in Tiers /\ b \in Members(TierOf[b])
BY PlanAssumption DEF Members

\* A binding has a place in the order.
LEMMA PositionType == \A b \in Bindings : Position(b) \in 1..Len(Order) /\ Len(Order) \in Nat \ {0}
<1>1. DOMAIN Order = 1..Len(Order) /\ Len(Order) \in Nat
  BY PlanAssumption
<1>2. ASSUME NEW b \in Bindings PROVE Position(b) \in DOMAIN Order
  <2>1. \E i \in DOMAIN Order : Order[i] = b
    BY DEF Bindings
  <2>2. QED
    BY <2>1 DEF Position
<1>3. QED
  BY <1>1, <1>2

\* A set of numbered things has one with the smallest number.
LEMMA LeastOf ==
  ASSUME NEW S, S # {}, NEW f, \A x \in S : f[x] \in Nat
  PROVE  \E x \in S : \A y \in S : f[x] <= f[y]
<1> DEFINE T == {f[x] : x \in S}
<1>1. T \in SUBSET Nat /\ T # {}
  OBVIOUS
<1>2. PICK n \in T : \A m \in T : n <= m
  BY <1>1, LeastNatural
<1>3. QED
  BY <1>2

-----------------------------------------------------------------------------
(* The order of registration, and the first of a set in it *)

\* The order of the bindings is total and strict.
LEMMA BeforeIsOrder ==
  /\ \A b, c \in Bindings : Before(b, c) \/ Before(c, b) \/ b = c
  /\ \A b, c, d \in Bindings : Before(b, c) /\ Before(c, d) => Before(b, d)
  /\ \A b, c \in Bindings : Before(b, c) => ~Before(c, b) /\ b # c
<1>1. ASSUME NEW b \in Bindings PROVE Position(b) \in Int /\ Order[Position(b)] = b
  <2>1. \E i \in DOMAIN Order : Order[i] = b
    BY DEF Bindings
  <2>2. Order[Position(b)] = b
    BY <2>1 DEF Position
  <2>3. QED
    BY <2>2, PositionType
<1>2. \A b, c \in Bindings : Position(b) = Position(c) => b = c
  BY <1>1
<1>3. QED
  BY <1>1, <1>2 DEF Before

\* The first n of a set are n of them or all, and stand before the others.
LEMMA FirstOfFacts ==
  ASSUME NEW E \in SUBSET Bindings, NEW n \in Nat
  PROVE  /\ FirstOf(n, E) \subseteq E /\ IsFiniteSet(FirstOf(n, E)) /\ Cardinality(FirstOf(n, E)) \in Nat
         /\ Cardinality(FirstOf(n, E)) <= n
         /\ FirstOf(n, E) = E \/ Cardinality(FirstOf(n, E)) = n
         /\ \A b \in FirstOf(n, E), x \in E \ FirstOf(n, E) : Before(b, x)
<1> DEFINE below(b) == {e \in E : Before(e, b)}
           rank == [b \in E |-> Cardinality(below(b))]
           m == Cardinality(E)
           F == FirstOf(n, E)
<1>0. IsFiniteSet(E) /\ m \in Nat
  BY BindingsFinite, FS_Subset, FS_CardinalityType
<1>1. ASSUME NEW b \in E PROVE IsFiniteSet(below(b)) /\ rank[b] \in 0..(m - 1)
  <2>1. below(b) \subseteq E \ {b}
    BY BeforeIsOrder
  <2>2. IsFiniteSet(E \ {b}) /\ Cardinality(E \ {b}) = m - 1
    BY <1>0, FS_RemoveElement
  <2>3. IsFiniteSet(below(b)) /\ Cardinality(below(b)) <= Cardinality(E \ {b})
    BY <2>1, <2>2, FS_Subset
  <2>4. Cardinality(below(b)) \in Nat
    BY <2>3, FS_CardinalityType
  <2>5. QED
    BY <1>0, <2>2, <2>3, <2>4
<1>2. ASSUME NEW b \in E, NEW c \in E, Before(b, c) PROVE rank[b] < rank[c]
  <2>1. below(b) \cup {b} \subseteq below(c) /\ b \notin below(b)
    BY <1>2, BeforeIsOrder
  <2>2. Cardinality(below(b) \cup {b}) = Cardinality(below(b)) + 1
    BY <1>1, <2>1, FS_AddElement
  <2>3. Cardinality(below(b) \cup {b}) <= Cardinality(below(c))
    BY <1>1, <2>1, FS_Subset
  <2>4. rank[b] \in Int /\ rank[c] \in Int
    BY <1>1
  <2>5. QED
    BY <2>2, <2>3, <2>4
<1>3. F = {b \in E : rank[b] < n}
  BY DEF FirstOf
<1>4. F \subseteq E /\ IsFiniteSet(F) /\ Cardinality(F) \in Nat
  BY <1>0, <1>3, FS_Subset, FS_CardinalityType
<1>r. \A b \in E : rank[b] \in 0..(m - 1) /\ rank[b] \in Nat /\ rank[b] < m
  <2>1. ASSUME NEW b \in E PROVE rank[b] \in 0..(m - 1) /\ rank[b] \in Nat /\ rank[b] < m
    <3>1. rank[b] \in 0..(m - 1)
      BY <1>1
    <3> HIDE DEF rank, m
    <3>2. QED
      BY <1>0, <3>1
  <2>2. QED
    BY <2>1
<1> HIDE DEF rank, m, F
<1>5. ASSUME NEW b \in F, NEW x \in E \ F PROVE Before(b, x)
  <2>1. b \in E /\ rank[b] < n /\ ~(rank[x] < n)
    BY <1>3
  <2>2. rank[b] \in Int /\ rank[x] \in Int
    BY <1>r, <2>1
  <2>3. ~Before(x, b)
    BY <1>2, <2>1, <2>2
  <2>4. x # b
    BY <2>1
  <2>5. QED
    BY <2>1, <2>3, <2>4, BeforeIsOrder
<1>6. rank \in Injection(E, 0..(m - 1))
  <2>1. rank \in [E -> 0..(m - 1)]
    BY <1>1 DEF rank
  <2>2. ASSUME NEW b \in E, NEW c \in E, rank[b] = rank[c] PROVE b = c
    <3>1. rank[b] \in Int /\ rank[c] \in Int
      BY <1>r
    <3>2. ~Before(b, c) /\ ~Before(c, b)
      BY <1>2, <2>2, <3>1
    <3>3. QED
      BY <3>2, BeforeIsOrder
  <2>3. QED
    BY <2>1, <2>2 DEF Injection, IsInjective
<1>7. rank \in Surjection(E, 0..(m - 1))
  <2>1. IsFiniteSet(0..(m - 1)) /\ Cardinality(0..(m - 1)) = m
    BY <1>0, FS_Interval
  <2>2. QED
    BY <1>6, <2>1, FS_Injection DEF m
<1>8. (n >= m => F = E) /\ (n < m => Cardinality(F) = n)
  <2>1. CASE n >= m
    <3>1. \A b \in E : rank[b] < n
      BY <1>0, <1>r, <2>1
    <3>2. QED
      BY <1>0, <1>3, <2>1, <3>1
  <2>2. CASE n < m
    <3> DEFINE g == [b \in F |-> rank[b]]
    <3>1. g \in Injection(F, 0..(n - 1))
      <4>1. ASSUME NEW b \in F PROVE g[b] \in 0..(n - 1)
        <5>1. b \in E /\ rank[b] < n
          BY <1>3
        <5>2. rank[b] \in Nat
          BY <1>r, <5>1
        <5>3. QED
          BY <5>1, <5>2
      <4>2. g \in [F -> 0..(n - 1)]
        BY <4>1
      <4>3. ASSUME NEW b \in F, NEW c \in F, g[b] = g[c] PROVE b = c
        BY <1>4, <1>6, <4>3 DEF Injection, IsInjective
      <4>4. QED
        BY <4>2, <4>3 DEF Injection, IsInjective
    <3>2. g \in Surjection(F, 0..(n - 1))
      <4>1. ASSUME NEW k \in 0..(n - 1) PROVE \E b \in F : g[b] = k
        <5>1. k \in 0..(m - 1) /\ k < n
          BY <1>0, <2>2
        <5>2. PICK b \in E : rank[b] = k
          BY <1>7, <5>1 DEF Surjection
        <5>3. b \in F
          BY <1>3, <5>1, <5>2
        <5>4. QED
          BY <5>2, <5>3
      <4>2. QED
        BY <3>1, <4>1 DEF Injection, Surjection
    <3>3. IsFiniteSet(0..(n - 1)) /\ Cardinality(0..(n - 1)) = n
      BY FS_Interval
    <3>4. Cardinality(F) = Cardinality(0..(n - 1))
      BY <3>1, <3>2, <3>3, FS_Injection
    <3>5. QED
      BY <1>0, <2>2, <3>3, <3>4
  <2>3. QED
    BY <1>0, <2>1, <2>2
<1>9. Cardinality(F) <= n
  <2>1. CASE n >= m
    BY <1>0, <1>8, <2>1 DEF m
  <2>2. CASE n < m
    BY <1>8, <2>2
  <2>3. QED
    BY <1>0, <2>1, <2>2
<1>10. QED
  BY <1>0, <1>4, <1>5, <1>8, <1>9 DEF F

-----------------------------------------------------------------------------
(* The binary search *)

\* The interval that is left, and the function the search computes on it.
Middle(p) == p[1] + (p[2] - p[1] + 1) \div 2
Bounds(lo, hi) == (lo..hi) \X (lo..hi)
Halve(f, fits, p) ==
  IF p[1] >= p[2] THEN p[1]
  ELSE IF Middle(p) \in fits THEN f[<<Middle(p), p[2]>>] ELSE f[<<p[1], Middle(p) - 1>>]
Search(lo, hi, fits) == CHOOSE f : f = [p \in Bounds(lo, hi) |-> Halve(f, fits, p)]

\* LargestLevel is the binary search, after a look at the upper end
\* (waterFill, allocateGlobal).
LEMMA LargestIsSearch ==
  ASSUME NEW lo, NEW hi, NEW fits
  PROVE  LargestLevel(lo, hi, fits) = IF hi \in fits THEN hi ELSE Search(lo, hi, fits)[<<lo, hi>>]
BY Zenon DEF LargestLevel, Search, Halve, Middle, Bounds

\* The middle is in the upper part, and either half is a smaller search.
LEMMA MiddleIsBetween ==
  ASSUME NEW lo \in Int, NEW hi \in Int, NEW p \in Bounds(lo, hi), p[1] < p[2]
  PROVE  /\ p[1] \in Int /\ p[2] \in Int /\ Middle(p) \in Int
         /\ p[1] < Middle(p) /\ Middle(p) <= p[2]
         /\ <<Middle(p), p[2]>> \in Bounds(lo, hi) /\ <<p[1], Middle(p) - 1>> \in Bounds(lo, hi)
<1>1. p[1] \in lo..hi /\ p[2] \in lo..hi
  BY DEF Bounds
<1>2. Middle(p) \in Int /\ p[1] < Middle(p) /\ Middle(p) <= p[2]
  BY <1>1 DEF Middle
<1>3. Middle(p) \in lo..hi /\ Middle(p) - 1 \in lo..hi
  BY <1>1, <1>2
<1>4. QED
  BY <1>1, <1>2, <1>3 DEF Bounds

\* The search is a function: every call is of a shorter interval.
LEMMA SearchUnfolds ==
  ASSUME NEW lo \in Int, NEW hi \in Int, NEW fits
  PROVE  \A p \in Bounds(lo, hi) : Search(lo, hi, fits)[p] = Halve(Search(lo, hi, fits), fits, p)
<1> DEFINE D == Bounds(lo, hi)
           Solves(f, k) == DOMAIN f = D /\ f = [p \in D |-> f[p]]
                           /\ \A p \in D : p[2] - p[1] <= k => f[p] = Halve(f, fits, p)
           Bad == {k \in Nat : ~\E f : Solves(f, k)}
<1>0. \A p \in D : p[1] \in Int /\ p[2] \in Int /\ p[2] - p[1] <= hi - lo
  BY DEF Bounds
<1>1. Bad = {}
  <2>1. SUFFICES ASSUME Bad # {} PROVE FALSE
    OBVIOUS
  <2>2. PICK k \in Bad : \A j \in Bad : k <= j
    <3> HIDE DEF Solves
    <3>1. QED
      BY <2>1, LeastNatural
  <2>3. CASE k = 0
    <3> DEFINE f == [p \in D |-> p[1]]
    <3>1. Solves(f, 0)
      BY <1>0 DEF Halve
    <3>2. QED
      BY <2>3, <3>1
  <2>4. CASE k # 0
    <3>1. k - 1 \in Nat /\ k - 1 \notin Bad
      <4> HIDE DEF Solves
      <4>1. k - 1 \in Nat /\ ~(k <= k - 1)
        BY <2>4
      <4>2. QED
        BY <2>2, <4>1
    <3>2. PICK f : Solves(f, k - 1)
      BY <3>1
    <3> DEFINE g == [p \in D |-> IF p[2] - p[1] <= k - 1 THEN f[p] ELSE Halve(f, fits, p)]
    <3>3. ASSUME NEW p \in D, p[2] - p[1] <= k PROVE g[p] = Halve(f, fits, p) /\ Halve(g, fits, p) = Halve(f, fits, p)
      <4>1. g[p] = Halve(f, fits, p)
        BY <3>2
      <4>2. CASE p[1] >= p[2]
        BY <4>1, <4>2 DEF Halve
      <4>3. CASE p[1] < p[2]
        <5> DEFINE u == <<Middle(p), p[2]>>
                   v == <<p[1], Middle(p) - 1>>
        <5>1. /\ p[1] \in Int /\ p[2] \in Int /\ Middle(p) \in Int
              /\ p[1] < Middle(p) /\ Middle(p) <= p[2] /\ u \in D /\ v \in D
          BY <4>3, MiddleIsBetween
        <5>2. u[2] - u[1] <= k - 1 /\ v[2] - v[1] <= k - 1
          BY <3>1, <3>3, <5>1
        <5>3. g[u] = f[u] /\ g[v] = f[v]
          BY <5>1, <5>2
        <5>4. QED
          BY <4>1, <5>3 DEF Halve
      <4>4. QED
        BY <1>0, <4>1, <4>2, <4>3
    <3>4. Solves(g, k)
      BY <3>3
    <3>5. QED
      BY <3>4
  <2>5. QED
    BY <2>3, <2>4
<1>2. \E f : f = [p \in D |-> Halve(f, fits, p)]
  <2>1. CASE lo <= hi
    <3>1. hi - lo \in Nat /\ hi - lo \notin Bad
      BY <1>1, <2>1
    <3>2. PICK f : Solves(f, hi - lo)
      BY <3>1
    <3>3. \A p \in D : f[p] = Halve(f, fits, p)
      BY <1>0, <3>2
    <3>4. QED
      BY <3>2, <3>3
  <2>2. CASE hi < lo
    <3> DEFINE f == [p \in D |-> 0]
    <3>1. D = {}
      BY <2>2 DEF Bounds
    <3>2. f = [p \in D |-> Halve(f, fits, p)]
      BY <3>1
    <3>3. QED
      BY <3>2
  <2>3. QED
    BY <2>1, <2>2
<1>3. Search(lo, hi, fits) = [p \in D |-> Halve(Search(lo, hi, fits), fits, p)]
  BY <1>2, Zenon DEF Search
<1>4. QED
  BY <1>3

\* The level found fits and, unless it is the highest, the next does not.
LEMMA LargestLevelFits ==
  ASSUME NEW lo \in Int, NEW hi \in Int, lo <= hi, NEW fits, lo \in fits
  PROVE  LET l == LargestLevel(lo, hi, fits)
         IN  l \in lo..hi /\ l \in fits /\ (l # hi => l + 1 \notin fits)
<1> DEFINE D == Bounds(lo, hi)
           f == Search(lo, hi, fits)
           Good(p) == /\ f[p] \in p[1]..p[2] /\ f[p] \in fits
                      /\ f[p] # hi => f[p] + 1 \notin fits
           Kept(p) == p[1] <= p[2] /\ p[1] \in fits /\ (p[2] # hi => p[2] + 1 \notin fits)
           Bad == {k \in Nat : \E p \in D : p[2] - p[1] = k /\ Kept(p) /\ ~Good(p)}
<1>0. \A p \in D : p[1] \in Int /\ p[2] \in Int /\ f[p] = Halve(f, fits, p)
  <2>1. \A p \in D : p[1] \in Int /\ p[2] \in Int
    BY DEF Bounds
  <2>2. QED
    BY <2>1, SearchUnfolds
<1> HIDE DEF f
<1>1. Bad = {}
  <2>1. SUFFICES ASSUME Bad # {} PROVE FALSE
    OBVIOUS
  <2>2. PICK k \in Bad : \A j \in Bad : k <= j
    <3> HIDE DEF Good, Kept
    <3>1. QED
      BY <2>1, LeastNatural
  <2>3. PICK p \in D : p[2] - p[1] = k /\ Kept(p) /\ ~Good(p)
    OBVIOUS
  <2>4. p[1] \in Int /\ p[2] \in Int /\ f[p] = Halve(f, fits, p)
    BY <1>0
  <2>5. CASE p[1] >= p[2]
    <3>1. f[p] = p[1] /\ p[1] = p[2]
      BY <2>3, <2>4, <2>5 DEF Halve
    <3>2. QED
      BY <2>3, <2>4, <3>1
  <2>6. CASE p[1] < p[2]
    <3> DEFINE u == <<Middle(p), p[2]>>
               v == <<p[1], Middle(p) - 1>>
    <3>1. /\ Middle(p) \in Int /\ p[1] < Middle(p) /\ Middle(p) <= p[2] /\ u \in D /\ v \in D
      BY <2>6, MiddleIsBetween
    <3>2. ASSUME NEW q \in D, q[2] - q[1] < k, Kept(q) PROVE Good(q)
      <4>1. q[2] - q[1] \in Nat
        BY <1>0, <3>2
      <4>2. q[2] - q[1] \notin Bad
        <5> HIDE DEF Good, Kept
        <5>1. ~(k <= q[2] - q[1])
          BY <3>2, <4>1
        <5>2. QED
          BY <2>2, <5>1
      <4>3. QED
        BY <3>2, <4>1, <4>2
    <3>3. CASE Middle(p) \in fits
      <4>1. Kept(u) /\ u[2] - u[1] < k /\ f[p] = f[u]
        BY <2>3, <2>4, <2>6, <3>1, <3>3 DEF Halve
      <4>2. Good(u)
        BY <3>1, <3>2, <4>1
      <4>3. Good(p)
        BY <2>4, <3>1, <4>1, <4>2
      <4>4. QED
        BY <2>3, <4>3
    <3>4. CASE Middle(p) \notin fits
      <4>1. Kept(v) /\ v[2] - v[1] < k /\ f[p] = f[v]
        BY <2>3, <2>4, <2>6, <3>1, <3>4 DEF Halve
      <4>2. Good(v)
        BY <3>1, <3>2, <4>1
      <4>3. Good(p)
        BY <2>4, <3>1, <4>1, <4>2
      <4>4. QED
        BY <2>3, <4>3
    <3>5. QED
      BY <3>3, <3>4
  <2>7. QED
    BY <2>4, <2>5, <2>6
<1>2. CASE hi \in fits
  <2>1. LargestLevel(lo, hi, fits) = hi
    BY <1>2, LargestIsSearch
  <2>2. hi \in lo..hi
    OBVIOUS
  <2>3. QED
    BY <1>2, <2>1, <2>2
<1>3. CASE hi \notin fits
  <2> DEFINE p == <<lo, hi>>
  <2>1. p \in D /\ p[1] = lo /\ p[2] = hi /\ hi - lo \in Nat
    BY DEF Bounds
  <2>2. Kept(p)
    BY <2>1
  <2>3. Good(p)
    BY <1>1, <2>1, <2>2
  <2>4. LargestLevel(lo, hi, fits) = f[p]
    BY <1>3, LargestIsSearch DEF f
  <2>5. QED
    BY <2>1, <2>3, <2>4
<1>4. QED
  BY <1>2, <1>3

-----------------------------------------------------------------------------
(* Filling to a level *)

\* Bindings with a floor and a ceiling.
IsCandidates(c) ==
  /\ DOMAIN c \in SUBSET Bindings
  /\ c = [b \in DOMAIN c |-> c[b]]
  /\ \A b \in DOMAIN c : c[b] \in [floor : Nat, ceiling : Nat]

\* How far a candidate can be filled, how far a level fills it, and the
\* candidates that the next level fills further.
Top(c, b) == Greater(c[b].floor, c[b].ceiling)
LevelFill(c, l) == [b \in DOMAIN c |-> Greater(c[b].floor, Lesser(c[b].ceiling, l))]
Rising(c, l) == {b \in DOMAIN c : c[b].floor <= l /\ l < c[b].ceiling}

\* What filling promises, without the algorithm: everybody between floor and
\* ceiling, the budget spent or everybody at the top, and nobody raised above
\* one that may still rise, but for one credit and an earlier place.
IsFill(w, c, budget) ==
  /\ w \in [DOMAIN c -> Nat]
  /\ \A b \in DOMAIN c : c[b].floor <= w[b] /\ w[b] <= Top(c, b)
  /\ Spent(w, Floors(c)) \in Nat /\ Spent(w, Floors(c)) <= budget
  /\ Spent(w, Floors(c)) = budget \/ \A b \in DOMAIN c : w[b] = Top(c, b)
  /\ \A b, x \in DOMAIN c : w[b] > c[b].floor /\ w[x] < c[x].ceiling =>
       w[b] <= w[x] \/ (w[b] = w[x] + 1 /\ Before(b, x))

\* What candidates are made of, whichever tier they come from.
LEMMA CandidateTypes ==
  ASSUME NEW c, IsCandidates(c)
  PROVE  /\ IsFiniteSet(DOMAIN c) /\ DOMAIN c \subseteq Bindings
         /\ Floors(c) \in [DOMAIN c -> Nat] /\ \A b \in DOMAIN c : Floors(c)[b] = c[b].floor
         /\ \A b \in DOMAIN c : c[b].floor \in Nat /\ c[b].ceiling \in Nat /\ Top(c, b) \in Nat
<1>1. IsFiniteSet(DOMAIN c) /\ DOMAIN c \subseteq Bindings
  BY BindingsFinite, FS_Subset DEF IsCandidates
<1>2. \A b \in DOMAIN c : c[b].floor \in Nat /\ c[b].ceiling \in Nat
  BY DEF IsCandidates
<1>3. QED
  BY <1>1, <1>2 DEF Floors, Top, Greater

\* A level fills every candidate up to it, between its floor and its ceiling
\* (waterFill).
LEMMA LevelFillTypes ==
  ASSUME NEW c, IsCandidates(c), NEW l \in Int
  PROVE  /\ LevelFill(c, l) \in [DOMAIN c -> Nat]
         /\ \A b \in DOMAIN c : LevelFill(c, l)[b] = Greater(c[b].floor, Lesser(c[b].ceiling, l))
BY CandidateTypes DEF LevelFill, Greater, Lesser

\* What a function with the candidates' domain holds above the floors.
LEMMA SpentOf ==
  ASSUME NEW c, IsCandidates(c), NEW w \in [DOMAIN c -> Nat]
  PROVE  /\ Spent(w, Floors(c)) = Total(w, DOMAIN c) - Total(Floors(c), DOMAIN c)
         /\ Total(w, DOMAIN c) \in Int /\ Total(Floors(c), DOMAIN c) \in Int
         /\ Spent(w, Floors(c)) \in Int
<1>1. DOMAIN w = DOMAIN c
  OBVIOUS
<1>2. Total(w, DOMAIN c) \in Int /\ Total(Floors(c), DOMAIN c) \in Int
  BY CandidateTypes, TotalInt
<1>3. QED
  BY <1>1, <1>2 DEF Spent

\* A larger filling spends more.
LEMMA SpentGrows ==
  ASSUME NEW c, IsCandidates(c), NEW v \in [DOMAIN c -> Nat], NEW w \in [DOMAIN c -> Nat],
         \A b \in DOMAIN c : v[b] <= w[b]
  PROVE  Spent(v, Floors(c)) <= Spent(w, Floors(c))
<1>1. Total(v, DOMAIN c) <= Total(w, DOMAIN c)
  BY CandidateTypes, TotalMonotone
<1>2. QED
  BY <1>1, SpentOf

\* A filling that takes nothing back spends a natural number of credits.
LEMMA SpentIsNat ==
  ASSUME NEW c, IsCandidates(c), NEW w \in [DOMAIN c -> Nat], \A b \in DOMAIN c : c[b].floor <= w[b]
  PROVE  Spent(w, Floors(c)) \in Nat
<1>1. Floors(c) \in [DOMAIN c -> Nat] /\ \A b \in DOMAIN c : Floors(c)[b] <= w[b]
  BY CandidateTypes
<1>2. Spent(Floors(c), Floors(c)) <= Spent(w, Floors(c))
  BY <1>1, SpentGrows
<1>3. Spent(Floors(c), Floors(c)) = 0 /\ Spent(w, Floors(c)) \in Int
  BY <1>1, SpentOf
<1>4. QED
  BY <1>2, <1>3

\* The credits of a level are what its filling spends (creditsAtLevel).
LEMMA CreditsAreGrowth ==
  ASSUME NEW c, IsCandidates(c), NEW l \in Int
  PROVE  /\ CreditsAtLevel(c, l) = Spent(LevelFill(c, l), Floors(c))
         /\ CreditsAtLevel(c, l) \in Nat
<1> DEFINE D == DOMAIN c
           k == [b \in DOMAIN c |-> Greater(0, Lesser(c[b].ceiling, l) - c[b].floor)]
           w == LevelFill(c, l)
           f == Floors(c)
<1>1. w \in [D -> Nat] /\ f \in [D -> Nat] /\ IsFiniteSet(D)
  BY LevelFillTypes, CandidateTypes
<1>2. ASSUME NEW b \in D PROVE f[b] \in Int /\ k[b] \in Int /\ w[b] = f[b] + k[b] /\ f[b] = c[b].floor /\ k[b] \in Nat
  <2>1. c[b].floor \in Nat /\ c[b].ceiling \in Nat /\ f[b] = c[b].floor
    BY CandidateTypes
  <2>2. w[b] = Greater(c[b].floor, Lesser(c[b].ceiling, l))
    BY LevelFillTypes
  <2>3. k[b] = Greater(0, Lesser(c[b].ceiling, l) - c[b].floor)
    OBVIOUS
  <2>4. QED
    BY <2>1, <2>2, <2>3 DEF Greater, Lesser
<1>3. CreditsAtLevel(c, l) = Total(k, D)
  BY DEF CreditsAtLevel
<1>4. Spent(w, f) = Total(w, D) - Total(f, D) /\ Total(w, D) \in Int /\ Total(f, D) \in Int
  BY <1>1, SpentOf
<1> HIDE DEF k, w, f, D
<1>5. Total(w, D) = Total(f, D) + Total(k, D)
  BY <1>1, <1>2, TotalLinear
<1>6. Total(k, D) \in Nat
  BY <1>1, <1>2, TotalNat
<1>7. Spent(w, f) = Total(k, D)
  BY <1>4, <1>5, <1>6
<1>8. QED
  BY <1>3, <1>6, <1>7 DEF w, f

\* One level more costs one credit for each that is at the level and below its
\* ceiling.
LEMMA CreditsStep ==
  ASSUME NEW c, IsCandidates(c), NEW l \in Int
  PROVE  CreditsAtLevel(c, l + 1) = CreditsAtLevel(c, l) + Cardinality(Rising(c, l))
<1> DEFINE D == DOMAIN c
           v == LevelFill(c, l)
           w == LevelFill(c, l + 1)
           X == Rising(c, l)
<1>1. v \in [D -> Nat] /\ w \in [D -> Nat] /\ IsFiniteSet(D) /\ X \in SUBSET D
  BY LevelFillTypes, CandidateTypes DEF Rising
<1>2. ASSUME NEW b \in D PROVE v[b] \in Int /\ w[b] = v[b] + (IF b \in X THEN 1 ELSE 0)
  <2>1. c[b].floor \in Nat /\ c[b].ceiling \in Nat
    BY CandidateTypes
  <2>2. /\ v[b] = Greater(c[b].floor, Lesser(c[b].ceiling, l))
        /\ w[b] = Greater(c[b].floor, Lesser(c[b].ceiling, l + 1))
    BY LevelFillTypes
  <2>3. b \in X <=> c[b].floor <= l /\ l < c[b].ceiling
    BY DEF Rising
  <2> HIDE DEF v, w, X
  <2>4. QED
    BY <2>1, <2>2, <2>3 DEF Greater, Lesser
<1>3. /\ CreditsAtLevel(c, l) = Total(v, D) - Total(Floors(c), D)
      /\ CreditsAtLevel(c, l + 1) = Total(w, D) - Total(Floors(c), D)
      /\ Total(Floors(c), D) \in Int
  BY <1>1, CreditsAreGrowth, SpentOf
<1>4. (\A b \in D : v[b] \in Int) /\ (\A b \in X : w[b] = v[b] + 1) /\ \A b \in D \ X : w[b] = v[b]
  <2> HIDE DEF D, v, w, X
  <2>1. QED
    BY <1>1, <1>2
<1> HIDE DEF D, v, w, X
<1>5. Total(w, D) = Total(v, D) + Cardinality(X) /\ Total(v, D) \in Int /\ Cardinality(X) \in Nat
  BY <1>1, <1>4, TotalRaise
<1>6. CreditsAtLevel(c, l + 1) = CreditsAtLevel(c, l) + Cardinality(X)
  BY <1>3, <1>5
<1>7. QED
  BY <1>6 DEF X

\* Filling to a level that fits, and either to the top of everybody or as high
\* as fits, keeps what filling promises.
LEMMA FillToIsFill ==
  ASSUME NEW c, IsCandidates(c), NEW budget \in Nat, NEW l \in Int, CreditsAtLevel(c, l) <= budget,
         (\A b \in DOMAIN c : c[b].ceiling <= l) \/ CreditsAtLevel(c, l + 1) > budget
  PROVE  IsFill(FillTo(c, budget, l), c, budget)
<1> DEFINE D == DOMAIN c
           v == LevelFill(c, l)
           E == Rising(c, l)
           n == budget - Spent(v, Floors(c))
           X == FirstOf(n, E)
           w == FillTo(c, budget, l)
<1>1. /\ v \in [D -> Nat] /\ \A b \in D : v[b] = Greater(c[b].floor, Lesser(c[b].ceiling, l))
      /\ IsFiniteSet(D) /\ D \subseteq Bindings
      /\ \A b \in D : c[b].floor \in Nat /\ c[b].ceiling \in Nat
  BY LevelFillTypes, CandidateTypes
<1>2. ASSUME NEW b \in D
      PROVE  /\ (v[b] = l /\ v[b] < c[b].ceiling) <=> (c[b].floor <= l /\ l < c[b].ceiling)
             /\ c[b].floor <= v[b] /\ v[b] <= Top(c, b)
             /\ v[b] > c[b].floor => v[b] <= l
             /\ v[b] < c[b].ceiling => v[b] >= l
             /\ c[b].ceiling <= l => v[b] = Top(c, b)
  <2>1. v[b] = Greater(c[b].floor, Lesser(c[b].ceiling, l)) /\ c[b].floor \in Nat /\ c[b].ceiling \in Nat
    BY <1>1
  <2> HIDE DEF v
  <2>2. QED
    BY <2>1 DEF Greater, Lesser, Top
<1>3. E = {b \in D : v[b] = l /\ v[b] < c[b].ceiling} /\ E \subseteq D
  BY <1>2 DEF Rising
<1>4. n = budget - CreditsAtLevel(c, l) /\ n \in Nat
  BY CreditsAreGrowth
<1>5. /\ X \subseteq E /\ Cardinality(X) \in Nat /\ Cardinality(X) <= n
      /\ X = E \/ Cardinality(X) = n
      /\ \A b \in X, x \in E \ X : Before(b, x)
  <2>1. E \in SUBSET Bindings
    BY <1>1, <1>3
  <2> HIDE DEF n, E
  <2>2. QED
    BY <1>4, <2>1, FirstOfFacts
<1>6. w = [b \in D |-> v[b] + (IF b \in X THEN 1 ELSE 0)]
  <2>1. {b \in DOMAIN c : v[b] = l /\ v[b] < c[b].ceiling} = E
    BY <1>3
  <2>2. DOMAIN v = D
    BY <1>1
  <2>3. w = TopUp(c, v, budget, l)
    BY DEF FillTo, LevelFill
  <2>4. w = HandOut(v, X)
    BY <2>1, <2>3 DEF TopUp
  <2>5. QED
    BY <2>2, <2>4 DEF HandOut
<1> HIDE DEF v, E, n, X, w
<1>7. /\ w \in [D -> Nat] /\ (\A b \in X : w[b] = v[b] + 1) /\ (\A b \in D \ X : w[b] = v[b])
  BY <1>1, <1>3, <1>5, <1>6
<1>8. \A b \in X : v[b] = l /\ l + 1 <= c[b].ceiling /\ c[b].ceiling <= Top(c, b) /\ Top(c, b) \in Nat
  <2>1. ASSUME NEW b \in X PROVE v[b] = l /\ l + 1 <= c[b].ceiling /\ c[b].ceiling <= Top(c, b) /\ Top(c, b) \in Nat
    <3>1. b \in D /\ v[b] = l /\ v[b] < c[b].ceiling
      BY <1>3, <1>5
    <3>2. c[b].floor \in Nat /\ c[b].ceiling \in Nat
      BY <1>1, <3>1
    <3>3. QED
      BY <3>1, <3>2 DEF Top, Greater
  <2>2. QED
    BY <2>1
<1>9. ASSUME NEW b \in D PROVE c[b].floor <= w[b] /\ w[b] <= Top(c, b)
  <2>1. c[b].floor \in Nat /\ v[b] \in Nat /\ c[b].floor <= v[b] /\ v[b] <= Top(c, b)
    BY <1>1, <1>2
  <2>2. CASE b \in X
    BY <1>1, <1>7, <1>8, <2>1, <2>2
  <2>3. CASE b \notin X
    BY <1>7, <2>1, <2>3
  <2>4. QED
    BY <2>2, <2>3
<1>10. Spent(w, Floors(c)) = Spent(v, Floors(c)) + Cardinality(X) /\ Spent(v, Floors(c)) \in Int
  <2>1. X \in SUBSET D /\ \A b \in D : v[b] \in Int
    BY <1>1, <1>3, <1>5
  <2>2. Total(w, D) = Total(v, D) + Cardinality(X) /\ Total(v, D) \in Int
    <3> HIDE DEF D
    <3>1. QED
      BY <1>1, <1>7, <2>1, TotalRaise
  <2>3. QED
    BY <1>1, <1>5, <1>7, <2>2, SpentOf
<1>11. Spent(w, Floors(c)) \in Nat /\ Spent(w, Floors(c)) <= budget
  <2>1. Spent(w, Floors(c)) \in Nat
    BY <1>7, <1>9, SpentIsNat
  <2>2. QED
    BY <1>5, <1>10, <2>1 DEF n
<1>12. Spent(w, Floors(c)) = budget \/ \A b \in D : w[b] = Top(c, b)
  <2>1. CASE Cardinality(X) = n
    BY <1>10, <2>1 DEF n
  <2>2. CASE X = E /\ \A b \in D : c[b].ceiling <= l
    <3>1. \A b \in D : ~(l < c[b].ceiling)
      BY <1>1, <2>2
    <3>2. E = {}
      BY <1>3, <3>1
    <3>3. \A b \in D : w[b] = v[b] /\ v[b] = Top(c, b)
      BY <1>2, <1>7, <2>2, <3>2
    <3>4. QED
      BY <3>3
  <2>3. CASE X = E /\ CreditsAtLevel(c, l + 1) > budget
    <3>1. CreditsAtLevel(c, l + 1) = CreditsAtLevel(c, l) + Cardinality(E) /\ CreditsAtLevel(c, l) \in Nat
      BY CreditsStep, CreditsAreGrowth DEF E
    <3>2. Cardinality(E) > n
      BY <1>4, <1>5, <2>3, <3>1
    <3>3. QED
      BY <1>4, <1>5, <2>3, <3>2
  <2>4. QED
    BY <1>5, <2>1, <2>2, <2>3
<1>13. ASSUME NEW b \in D, NEW x \in D, w[b] > c[b].floor, w[x] < c[x].ceiling
       PROVE  w[b] <= w[x] \/ (w[b] = w[x] + 1 /\ Before(b, x))
  <2>1. /\ c[b].floor \in Nat /\ c[x].floor \in Nat /\ c[x].ceiling \in Nat
        /\ v[b] \in Nat /\ v[x] \in Nat /\ w[b] \in Nat /\ w[x] \in Nat
    BY <1>1, <1>7
  <2>2. w[x] >= l /\ (x \notin X => w[x] = v[x]) /\ (x \in X => w[x] = l + 1)
    <3>1. CASE x \in X
      BY <1>7, <1>8, <3>1
    <3>2. CASE x \notin X
      <4>1. w[x] = v[x]
        BY <1>7, <3>2
      <4>2. QED
        BY <1>2, <1>13, <3>2, <4>1
    <3>3. QED
      BY <3>1, <3>2
  <2>3. CASE b \notin X
    <3>1. w[b] = v[b] /\ v[b] <= l
      BY <1>2, <1>7, <1>13, <2>3
    <3>2. QED
      BY <2>1, <2>2, <3>1
  <2>4. CASE b \in X
    <3>1. w[b] = l + 1
      BY <1>7, <1>8, <2>4
    <3>2. CASE w[x] >= l + 1
      BY <2>1, <3>1, <3>2
    <3>3. CASE w[x] = l
      <4>1. x \notin X /\ v[x] = l
        BY <2>1, <2>2, <3>3
      <4>2. x \in E
        BY <1>3, <1>13, <3>3, <4>1
      <4>3. Before(b, x)
        BY <1>5, <2>4, <4>1, <4>2
      <4>4. QED
        BY <2>1, <3>1, <3>3, <4>3
    <3>4. QED
      BY <2>1, <2>2, <3>2, <3>3
  <2>5. QED
    BY <2>3, <2>4
<1>14. QED
  BY <1>7, <1>9, <1>11, <1>12, <1>13 DEF IsFill, w

\* Candidates under a limit are candidates (waterFill).
LEMMA CappedTypes ==
  ASSUME NEW c, IsCandidates(c), NEW limit \in Nat
  PROVE  /\ IsCandidates(Capped(c, limit)) /\ DOMAIN Capped(c, limit) = DOMAIN c
         /\ Floors(Capped(c, limit)) = Floors(c)
         /\ \A b \in DOMAIN c : /\ Capped(c, limit)[b].floor = c[b].floor
                                /\ Capped(c, limit)[b].ceiling = Lesser(c[b].ceiling, limit)
<1> DEFINE k == Capped(c, limit)
<1>1. k = [b \in DOMAIN c |-> [c[b] EXCEPT !.ceiling = Lesser(@, limit)]] /\ DOMAIN k = DOMAIN c
  BY DEF Capped
<1>2. ASSUME NEW b \in DOMAIN c
      PROVE  /\ k[b] \in [floor : Nat, ceiling : Nat] /\ k[b].floor = c[b].floor
             /\ k[b].ceiling = Lesser(c[b].ceiling, limit)
  <2>1. c[b] \in [floor : Nat, ceiling : Nat]
    BY DEF IsCandidates
  <2>2. k[b] = [c[b] EXCEPT !.ceiling = Lesser(@, limit)]
    BY <1>1
  <2>3. QED
    BY <2>1, <2>2 DEF Lesser
<1>3. IsCandidates(k)
  BY <1>1, <1>2 DEF IsCandidates
<1>4. Floors(k) = Floors(c)
  BY <1>1, <1>2 DEF Floors
<1>5. QED
  BY <1>1, <1>2, <1>3, <1>4

\* waterFill keeps what filling promises, with the ceilings at the limit.
LEMMA WaterFillIsFill ==
  ASSUME NEW c, IsCandidates(c), NEW budget \in Nat \ {0}, NEW limit \in Nat
  PROVE  IsFill(WaterFill(c, budget, limit), Capped(c, limit), budget)
<1> DEFINE k == Capped(c, limit)
           D == DOMAIN c
           A == Range(Floors(c))
           Z == {0} \cup Range(Ceilings(k))
           lo == Min(A)
           hi == Max(Z)
           fits == {l \in lo..hi : CreditsAtLevel(k, l) <= budget}
           l == LargestLevel(lo, hi, fits)
<1>1. /\ IsCandidates(k) /\ DOMAIN k = D /\ Floors(k) = Floors(c) /\ IsFiniteSet(D) /\ D \subseteq Bindings
      /\ \A b \in D : k[b].floor \in Nat /\ k[b].ceiling \in Nat
  BY CappedTypes, CandidateTypes
<1>e. CASE D = {}
  <2>1. WaterFill(c, budget, limit) = c
    BY <1>e DEF WaterFill
  <2>2. c \in [D -> Nat]
    BY <1>e DEF IsCandidates
  <2>3. Spent(c, Floors(k)) = 0
    <3>1. DOMAIN c = {}
      BY <1>e
    <3>2. QED
      BY <3>1, TotalEmpty DEF Spent
  <2> HIDE DEF k
  <2>4. QED
    BY <1>1, <1>e, <2>1, <2>2, <2>3 DEF IsFill, k
<1> SUFFICES ASSUME D # {} PROVE IsFill(WaterFill(c, budget, limit), Capped(c, limit), budget)
  BY <1>e
<1>2. WaterFill(c, budget, limit) = FillFrom(k, budget, lo, hi)
  BY DEF WaterFill
<1> HIDE DEF k
<1>3. lo \in Nat /\ \A b \in D : lo <= k[b].floor
  <2>1. Floors(c) \in Surjection(D, A) /\ Floors(c) \in [D -> Nat]
    BY CandidateTypes DEF Surjection, Range
  <2>2. IsFiniteSet(A) /\ A \in SUBSET Int /\ A # {} /\ A \in SUBSET Nat
    BY <1>1, <2>1, FS_Surjection DEF Range
  <2>3. \A b \in D : k[b].floor \in A
    BY <1>1, <2>1 DEF Range, Floors
  <2> HIDE DEF A
  <2>4. Min(A) \in A /\ \A y \in A : Min(A) <= y
    BY <2>2, MinMax
  <2>5. QED
    BY <2>2, <2>3, <2>4
<1>4. hi \in Nat /\ \A b \in D : k[b].ceiling <= hi
  <2> DEFINE R == Range(Ceilings(k))
  <2>1. Ceilings(k) \in Surjection(D, R) /\ Ceilings(k) \in [D -> Nat] /\ \A b \in D : Ceilings(k)[b] = k[b].ceiling
    BY <1>1 DEF Surjection, Range, Ceilings
  <2>2. IsFiniteSet(R) /\ R \in SUBSET Nat
    BY <1>1, <2>1, FS_Surjection DEF Range
  <2>3. \A b \in D : k[b].ceiling \in R
    BY <1>1, <2>1 DEF Range
  <2>4. Z = R \cup {0}
    OBVIOUS
  <2> HIDE DEF R, Z
  <2>5. IsFiniteSet(Z) /\ Z \in SUBSET Int /\ Z # {} /\ Z \in SUBSET Nat
    BY <2>2, <2>4, FS_AddElement
  <2>6. Max(Z) \in Z /\ \A y \in Z : y <= Max(Z)
    BY <2>5, MinMax
  <2>7. QED
    BY <2>3, <2>4, <2>5, <2>6
<1>5. CASE hi < lo
  <2> DEFINE w == Floors(k)
  <2>1. WaterFill(c, budget, limit) = w
    BY <1>2, <1>5 DEF FillFrom
  <2>2. w \in [D -> Nat] /\ \A b \in D : w[b] = k[b].floor /\ w[b] = Top(k, b) /\ k[b].floor >= k[b].ceiling
    <3>1. w \in [D -> Nat] /\ \A b \in D : w[b] = k[b].floor
      BY <1>1, CandidateTypes
    <3>2. \A b \in D : k[b].floor >= k[b].ceiling
      <4>1. ASSUME NEW b \in D PROVE k[b].floor >= k[b].ceiling
        <5> HIDE DEF lo, hi
        <5>1. QED
          BY <1>1, <1>3, <1>4, <1>5
      <4>2. QED
        BY <4>1
    <3>3. QED
      BY <1>1, <3>1, <3>2 DEF Top, Greater
  <2>3. Spent(w, Floors(k)) = 0
    BY <1>1, <2>2, SpentOf
  <2> HIDE DEF w
  <2>4. IsFill(w, k, budget)
    BY <1>1, <2>2, <2>3 DEF IsFill
  <2>5. QED
    BY <2>1, <2>4 DEF k
<1>6. CASE lo <= hi
  <2>1. WaterFill(c, budget, limit) = FillTo(k, budget, l)
    <3> HIDE DEF lo, hi
    <3>1. ~(budget <= 0) /\ ~(hi < lo)
      BY <1>3, <1>4, <1>6
    <3>2. QED
      BY <1>2, <3>1 DEF FillFrom
  <2> HIDE DEF lo, hi
  <2>2. CreditsAtLevel(k, lo) = 0
    <3> DEFINE v == LevelFill(k, lo)
               f == Floors(k)
    <3>1. v \in [D -> Nat] /\ f \in [D -> Nat]
      BY <1>1, <1>3, LevelFillTypes, CandidateTypes
    <3>2. \A b \in D : v[b] = f[b]
      <4>1. ASSUME NEW b \in D PROVE v[b] = f[b]
        <5>1. v[b] = Greater(k[b].floor, Lesser(k[b].ceiling, lo)) /\ f[b] = k[b].floor
          BY <1>1, <1>3, LevelFillTypes, CandidateTypes
        <5> HIDE DEF v, f
        <5>2. QED
          BY <1>1, <1>3, <5>1 DEF Greater, Lesser
      <4>2. QED
        BY <4>1
    <3>3. v = f
      BY <3>1, <3>2
    <3>4. Spent(f, f) = 0
      BY <1>1, <3>1, SpentOf
    <3>5. QED
      BY <1>1, <1>3, <3>3, <3>4, CreditsAreGrowth
  <2>3. lo \in fits
    BY <1>3, <1>4, <1>6, <2>2
  <2>4. l \in lo..hi /\ l \in fits /\ (l # hi => l + 1 \notin fits)
    <3> HIDE DEF fits
    <3>1. QED
      BY <1>3, <1>4, <1>6, <2>3, LargestLevelFits
  <2> HIDE DEF l
  <2>5. l \in Int /\ CreditsAtLevel(k, l) <= budget
    BY <1>3, <1>4, <2>4
  <2>6. (\A b \in D : k[b].ceiling <= l) \/ CreditsAtLevel(k, l + 1) > budget
    <3>1. CASE l = hi
      BY <1>4, <3>1
    <3>2. CASE l # hi
      <4>1. l + 1 \in lo..hi /\ l + 1 \notin fits
        BY <1>3, <1>4, <2>4, <3>2
      <4>2. CreditsAtLevel(k, l + 1) \in Nat
        BY <1>1, <2>5, CreditsAreGrowth
      <4>3. QED
        BY <4>1, <4>2
    <3>3. QED
      BY <3>1, <3>2
  <2>7. IsFill(FillTo(k, budget, l), k, budget)
    BY <1>1, <2>5, <2>6, FillToIsFill
  <2>8. QED
    BY <2>1, <2>7 DEF k
<1>7. QED
  <2> HIDE DEF lo, hi
  <2>1. QED
    BY <1>3, <1>4, <1>5, <1>6

-----------------------------------------------------------------------------
(* The candidates of a plan, and what a plan gives them *)

\* A binding that wants more is a candidate between what runs and what it
\* asks for, within the budget (allocationCandidates).
LEMMA CandidateFacts ==
  ASSUME NEW act \in [Bindings -> Nat], NEW dem \in [Bindings -> Nat], NEW budget \in Nat \ {0}, NEW c,
         DOMAIN c \in SUBSET Bindings, \A x \in DOMAIN c : dem[x] > act[x],
         c = [b \in DOMAIN c |-> Candidate(b, act, dem, budget)]
  PROVE  /\ IsCandidates(c)
         /\ \A b \in DOMAIN c :
              /\ c[b].floor = act[b] /\ c[b].ceiling \in Nat /\ act[b] < c[b].ceiling
              /\ c[b].ceiling <= dem[b] /\ c[b].ceiling - act[b] <= budget
              /\ c[b].ceiling < dem[b] => c[b].ceiling = act[b] + budget
<1>2. ASSUME NEW b \in DOMAIN c
      PROVE  /\ c[b] \in [floor : Nat, ceiling : Nat]
             /\ c[b].floor = act[b] /\ c[b].ceiling \in Nat /\ act[b] < c[b].ceiling
             /\ c[b].ceiling <= dem[b] /\ c[b].ceiling - act[b] <= budget
             /\ c[b].ceiling < dem[b] => c[b].ceiling = act[b] + budget
  <2>1. b \in Bindings /\ dem[b] > act[b] /\ act[b] \in Nat /\ dem[b] \in Nat
    OBVIOUS
  <2>2. c[b] = [floor |-> act[b], ceiling |-> act[b] + Lesser(dem[b] - act[b], budget)]
    BY DEF Candidate
  <2>3. QED
    BY <2>1, <2>2 DEF Lesser
<1>3. IsCandidates(c)
  BY <1>2 DEF IsCandidates
<1>4. QED
  BY <1>2, <1>3

\* What a binding may be given: nothing, or up to what it is owed.
GivesOwed(d, S, act, dem, hld) ==
  \A b \in S : d[b] = act[b] \/ (~hld /\ d[b] > act[b] /\ d[b] <= dem[b])

\* What a plan gives a set of bindings that are given what they are owed.
LEMMA GivenFacts ==
  ASSUME NEW S \in SUBSET Bindings, NEW act \in [Bindings -> Nat], NEW dem \in [Bindings -> Nat],
         NEW hld \in BOOLEAN, NEW d \in [Bindings -> Nat], GivesOwed(d, S, act, dem, hld)
  PROVE  /\ Total(act, S) \in Nat /\ Total(d, S) \in Nat /\ Total(d, S) - Total(act, S) \in Nat
         /\ Total(Headroom(act, dem, hld), S) \in Nat
         /\ Total(d, S) - Total(act, S) <= Total(Headroom(act, dem, hld), S)
         /\ (\A b \in S : ~hld => d[b] >= dem[b]) =>
              Total(d, S) - Total(act, S) = Total(Headroom(act, dem, hld), S)
         /\ \A b \in S : d[b] - act[b] <= Total(d, S) - Total(act, S)
         /\ \A b, x \in S : b # x => (d[b] - act[b]) + (d[x] - act[x]) <= Total(d, S) - Total(act, S)
<1> DEFINE h == Headroom(act, dem, hld)
           a == [b \in S |-> act[b] + h[b]]
<1>1. IsFiniteSet(S)
  BY BindingsFinite, FS_Subset
<1>2. \A b \in S : act[b] \in Nat /\ d[b] \in Nat /\ dem[b] \in Nat
  OBVIOUS
<1>3. \A b \in S : h[b] = (IF hld \/ dem[b] <= act[b] THEN 0 ELSE dem[b] - act[b]) /\ h[b] \in Nat
  BY <1>2 DEF Headroom
<1> HIDE DEF h
<1>4. \A b \in S : /\ act[b] \in Int /\ d[b] \in Int /\ act[b] <= d[b] /\ d[b] <= a[b] /\ a[b] = act[b] + h[b]
                   /\ h[b] \in Int /\ a[b] \in Int
  <2>1. ASSUME NEW b \in S
        PROVE  /\ act[b] \in Int /\ d[b] \in Int /\ act[b] <= d[b] /\ d[b] <= a[b] /\ a[b] = act[b] + h[b]
               /\ h[b] \in Int /\ a[b] \in Int
    <3>1. d[b] = act[b] \/ (~hld /\ d[b] > act[b] /\ d[b] <= dem[b])
      BY DEF GivesOwed
    <3>2. QED
      BY <1>2, <1>3, <3>1
  <2>2. QED
    BY <2>1
<1>5. Total(act, S) \in Nat /\ Total(d, S) \in Nat /\ Total(h, S) \in Nat
  BY <1>1, <1>2, <1>3, TotalNat
<1>6. /\ Total(d, S) - Total(act, S) \in Nat
      /\ \A b \in S : d[b] - act[b] <= Total(d, S) - Total(act, S)
      /\ \A b, x \in S : b # x => (d[b] - act[b]) + (d[x] - act[x]) <= Total(d, S) - Total(act, S)
  BY <1>1, <1>4, TotalGrowth
<1> HIDE DEF a
<1>7. Total(a, S) = Total(act, S) + Total(h, S)
  BY <1>1, <1>4, TotalLinear
<1>8. Total(d, S) <= Total(a, S)
  BY <1>1, <1>4, TotalMonotone
<1>9. Total(d, S) - Total(act, S) <= Total(h, S)
  BY <1>5, <1>7, <1>8
<1>10. ASSUME \A b \in S : ~hld => d[b] >= dem[b]
       PROVE  Total(d, S) - Total(act, S) = Total(h, S)
  <2>1. ASSUME NEW b \in S PROVE d[b] = a[b]
    <3>1. d[b] = act[b] \/ (~hld /\ d[b] > act[b] /\ d[b] <= dem[b])
      BY DEF GivesOwed
    <3>2. QED
      BY <1>2, <1>3, <1>4, <1>10, <3>1
  <2>2. Total(d, S) = Total(a, S)
    BY <1>1, <1>4, <2>1, TotalSame
  <2>3. QED
    BY <1>5, <1>7, <2>2
<1>11. QED
  BY <1>5, <1>6, <1>9, <1>10 DEF h

\* What a plan that raises only candidates gives is what their filling spends.
LEMMA GivenIsSpent ==
  ASSUME NEW S \in SUBSET Bindings, NEW act \in [Bindings -> Nat], NEW d \in [Bindings -> Nat],
         NEW c, IsCandidates(c), DOMAIN c \in SUBSET S, NEW w \in [DOMAIN c -> Nat],
         \A b \in DOMAIN c : d[b] = w[b] /\ c[b].floor = act[b],
         \A b \in S \ DOMAIN c : d[b] = act[b]
  PROVE  Total(d, S) - Total(act, S) = Spent(w, Floors(c))
<1> DEFINE D == DOMAIN c
<1>1. IsFiniteSet(S) /\ IsFiniteSet(D)
  BY BindingsFinite, FS_Subset
<1>2. Floors(c) \in [D -> Nat] /\ \A b \in D : Floors(c)[b] = c[b].floor
  BY CandidateTypes
<1>3. \A b \in D : /\ d[b] \in Int /\ act[b] \in Int
                   /\ d[b] = w[b] /\ act[b] = Floors(c)[b]
  BY <1>2
<1>4. /\ \A b \in S : act[b] \in Int /\ d[b] \in Int
      /\ \A b \in S \ D : act[b] = d[b]
  OBVIOUS
<1>5. Spent(w, Floors(c)) = Total(w, D) - Total(Floors(c), D)
  BY SpentOf
<1>6. D \in SUBSET S
  OBVIOUS
<1> HIDE DEF D
<1>7. Total(d, S) - Total(act, S) = Total(d, D) - Total(act, D)
  BY <1>1, <1>4, <1>6, TotalDifference
<1>8. Total(d, D) = Total(w, D) /\ Total(act, D) = Total(Floors(c), D)
  BY <1>1, <1>3, TotalSame
<1>9. QED
  BY <1>5, <1>7, <1>8

-----------------------------------------------------------------------------
(* Tiers that are independent *)

\* A limit no ceiling exceeds changes nothing.
LEMMA HighLimitFill ==
  ASSUME NEW c, IsCandidates(c), NEW budget \in Nat \ {0}
  PROVE  IsFill(WaterFill(c, budget, Max({0} \cup Range(Ceilings(c)))), c, budget)
<1> DEFINE R == Range(Ceilings(c))
           Z == {0} \cup R
           D == DOMAIN c
           limit == Max(Z)
<1>1. IsFiniteSet(D) /\ \A b \in D : c[b].floor \in Nat /\ c[b].ceiling \in Nat
  BY CandidateTypes
<1>2. Ceilings(c) \in Surjection(D, R) /\ Ceilings(c) \in [D -> Nat] /\ \A b \in D : Ceilings(c)[b] = c[b].ceiling
  BY <1>1 DEF Surjection, Range, Ceilings
<1>3. IsFiniteSet(R) /\ R \in SUBSET Nat
  BY <1>1, <1>2, FS_Surjection DEF Range
<1>4. \A b \in D : c[b].ceiling \in R
  BY <1>1, <1>2 DEF Range
<1>5. limit \in Nat /\ \A b \in D : c[b].ceiling <= limit
  <2>1. Z = R \cup {0}
    OBVIOUS
  <2> HIDE DEF R, Z
  <2>2. IsFiniteSet(Z) /\ Z \in SUBSET Int /\ Z # {} /\ Z \in SUBSET Nat
    BY <1>3, <2>1, FS_AddElement
  <2>3. Max(Z) \in Z /\ \A y \in Z : y <= Max(Z)
    BY <2>2, MinMax
  <2>4. QED
    BY <1>4, <2>1, <2>2, <2>3
<1> HIDE DEF limit
<1>6. Capped(c, limit) = c
  <2>1. \A b \in D : [c[b] EXCEPT !.ceiling = Lesser(@, limit)] = c[b]
    <3>1. ASSUME NEW b \in D PROVE [c[b] EXCEPT !.ceiling = Lesser(@, limit)] = c[b]
      <4>1. c[b] \in [floor : Nat, ceiling : Nat]
        BY DEF IsCandidates
      <4>2. Lesser(c[b].ceiling, limit) = c[b].ceiling
        BY <1>1, <1>5 DEF Lesser
      <4>3. QED
        BY <4>1, <4>2
    <3>2. QED
      BY <3>1
  <2>2. Capped(c, limit) = [b \in D |-> c[b]]
    BY <2>1 DEF Capped
  <2>3. QED
    BY <2>2 DEF IsCandidates
<1>7. IsFill(WaterFill(c, budget, limit), Capped(c, limit), budget)
  BY <1>5, WaterFillIsFill
<1>8. QED
  BY <1>6, <1>7 DEF limit

\* The budget of a tier is what its parallelism leaves free.
LEMMA BudgetType ==
  ASSUME NEW t \in Tiers, NEW act \in [Bindings -> Nat]
  PROVE  /\ TierBudget(t, act) \in Int /\ Parallelism[t] \in Nat /\ Total(act, Members(t)) \in Nat
         /\ TierBudget(t, act) = Parallelism[t] - Total(act, Members(t))
         /\ Free(Parallelism[t], act, Members(t)) = Greater(0, TierBudget(t, act))
<1>1. Total(act, Members(t)) \in Nat
  BY BindingsFinite, TotalNat
<1>2. Parallelism[t] \in Nat
  BY PlanAssumption
<1>3. QED
  BY <1>1, <1>2 DEF TierBudget, Free

\* A tier of its own is shared fairly.
LEMMA TierIsFair ==
  ASSUME NEW t \in Tiers, NEW act \in [Bindings -> Nat], NEW dem \in [Bindings -> Nat], NEW hld \in BOOLEAN,
         NEW d, d = AllocateTier(t, act, dem, hld)
  PROVE  /\ \A b \in Members(t) : d[b] \in Nat
         /\ GivesOwed(d, Members(t), act, dem, hld)
         /\ Total(d, Members(t)) - Total(act, Members(t)) = TierShare(t, act, dem, hld)
         /\ \A b, x \in Members(t) : d[b] > act[b] /\ ~hld /\ d[x] < dem[x] =>
              d[b] <= d[x] \/ (d[b] = d[x] + 1 /\ Before(b, x))
<1> DEFINE M == Members(t)
           budget == TierBudget(t, act)
           h == Headroom(act, dem, hld)
           e == [b \in Bindings |-> IF b \in M THEN d[b] ELSE act[b]]
<1>1. /\ budget \in Int /\ Free(Parallelism[t], act, M) = Greater(0, budget)
      /\ M \subseteq Bindings /\ IsFiniteSet(M)
  BY BudgetType, BindingsFinite
<1>2. TierShare(t, act, dem, hld) = Lesser(Greater(0, budget), Total(h, M))
  BY <1>1 DEF TierShare
<1>3. \A b \in M : act[b] \in Nat /\ dem[b] \in Nat
  BY <1>1
<1>4. CASE budget <= 0
  <2>1. \A b \in M : d[b] = act[b]
    BY <1>4 DEF AllocateTier
  <2>2. GivesOwed(act, M, act, dem, hld)
    BY DEF GivesOwed
  <2>3. Total(h, M) \in Nat /\ Total(act, M) \in Nat
    BY <1>1, <2>2, GivenFacts
  <2>4. Total(d, M) = Total(act, M)
    BY <1>1, <1>3, <2>1, TotalSame
  <2>5. TierShare(t, act, dem, hld) = 0
    BY <1>1, <1>2, <1>4, <2>3 DEF Lesser, Greater
  <2>6. QED
    BY <1>3, <2>1, <2>3, <2>4, <2>5 DEF GivesOwed
<1>5. CASE budget > 0
  <2> DEFINE c == Candidates(M, act, dem, hld, budget)
             D == DOMAIN c
             w == WaterFill(c, budget, Max({0} \cup Range(Ceilings(c))))
  <2>1. budget \in Nat \ {0} /\ M \in SUBSET Bindings
    BY <1>1, <1>5
  <2>2. /\ IsCandidates(c) /\ D = {x \in M : ~hld /\ dem[x] > act[x]}
        /\ \A b \in D :
             /\ c[b].floor = act[b] /\ c[b].ceiling \in Nat /\ act[b] < c[b].ceiling
             /\ c[b].ceiling <= dem[b] /\ c[b].ceiling - act[b] <= budget
             /\ c[b].ceiling < dem[b] => c[b].ceiling = act[b] + budget
    <3>1. D = {x \in M : ~hld /\ dem[x] > act[x]} /\ c = [b \in D |-> Candidate(b, act, dem, budget)]
      BY DEF Candidates
    <3>2. DOMAIN c \in SUBSET Bindings /\ \A x \in DOMAIN c : dem[x] > act[x]
      BY <1>1, <3>1
    <3> HIDE DEF M, budget, c
    <3>3. QED
      BY <2>1, <3>1, <3>2, CandidateFacts
  <2>3. IsFill(w, c, budget)
    <3> HIDE DEF c, budget
    <3>1. QED
      BY <2>1, <2>2, HighLimitFill
  <2>4. d = Overlay([b \in M |-> act[b]], w)
    BY <1>1, <1>5 DEF AllocateTier
  <2> HIDE DEF c, w
  <2>5. /\ w \in [D -> Nat] /\ Spent(w, Floors(c)) \in Nat /\ Spent(w, Floors(c)) <= budget
        /\ \A b \in D : act[b] <= w[b] /\ w[b] <= c[b].ceiling
        /\ Spent(w, Floors(c)) = budget \/ \A b \in D : w[b] = c[b].ceiling
        /\ \A b, x \in D : w[b] > act[b] /\ w[x] < c[x].ceiling =>
             w[b] <= w[x] \/ (w[b] = w[x] + 1 /\ Before(b, x))
    <3>1. \A b \in D : Top(c, b) = c[b].ceiling /\ c[b].floor = act[b]
      BY <1>1, <2>2 DEF Top, Greater
    <3>2. QED
      BY <2>3, <3>1 DEF IsFill
  <2>6. /\ \A b \in D : d[b] = w[b] /\ d[b] \in Nat
        /\ \A b \in M \ D : d[b] = act[b]
        /\ D \in SUBSET M
    BY <2>2, <2>4, <2>5 DEF Overlay
  <2>7. (\A b \in M : d[b] \in Nat) /\ e \in [Bindings -> Nat] /\ \A b \in M : e[b] = d[b]
    BY <1>1, <1>3, <2>6
  <2> HIDE DEF e
  <2>8. GivesOwed(d, M, act, dem, hld) /\ GivesOwed(e, M, act, dem, hld)
    <3>1. ASSUME NEW b \in M PROVE d[b] = act[b] \/ (~hld /\ d[b] > act[b] /\ d[b] <= dem[b])
      <4>1. CASE b \notin D
        BY <2>6, <4>1
      <4>2. CASE b \in D
        BY <1>3, <2>2, <2>5, <2>6, <4>2
      <4>3. QED
        BY <4>1, <4>2
    <3>2. QED
      BY <2>7, <3>1 DEF GivesOwed
  <2>9. Total(e, M) - Total(act, M) = Spent(w, Floors(c))
    <3>1. \A b \in D : e[b] = w[b] /\ c[b].floor = act[b]
      BY <2>2, <2>6, <2>7
    <3>2. \A b \in M \ D : e[b] = act[b]
      BY <2>6, <2>7
    <3> HIDE DEF M
    <3>3. QED
      BY <1>1, <2>2, <2>5, <2>6, <2>7, <3>1, <3>2, GivenIsSpent
  <2>10. /\ Total(act, M) \in Nat /\ Total(e, M) \in Nat /\ Total(h, M) \in Nat
         /\ Total(e, M) - Total(act, M) <= Total(h, M)
         /\ (\A b \in M : ~hld => e[b] >= dem[b]) => Total(e, M) - Total(act, M) = Total(h, M)
         /\ \A b \in M : e[b] - act[b] <= Total(e, M) - Total(act, M)
         /\ \A b, x \in M : b # x => (e[b] - act[b]) + (e[x] - act[x]) <= Total(e, M) - Total(act, M)
    <3> HIDE DEF M
    <3>1. QED
      BY <1>1, <2>7, <2>8, GivenFacts
  <2>11. Total(d, M) = Total(e, M)
    <3> HIDE DEF M
    <3>1. QED
      BY <1>1, <2>7, TotalSame
  <2> HIDE DEF M, h, budget
  <2>12. Total(e, M) - Total(act, M) = Lesser(Greater(0, budget), Total(h, M))
    <3>1. CASE Spent(w, Floors(c)) = budget
      BY <1>1, <1>5, <2>9, <2>10, <3>1 DEF Lesser, Greater
    <3>2. CASE \A b \in D : w[b] = c[b].ceiling
      <4>1. CASE \E b \in D : c[b].ceiling < dem[b]
        <5>1. PICK b \in D : c[b].ceiling < dem[b]
          BY <4>1
        <5>2. e[b] - act[b] = budget /\ b \in M
          BY <1>1, <1>3, <2>2, <2>6, <2>7, <3>2, <5>1
        <5>3. budget <= Spent(w, Floors(c))
          BY <2>9, <2>10, <5>2
        <5>4. QED
          BY <1>1, <1>5, <2>5, <2>9, <2>10, <5>3 DEF Lesser, Greater
      <4>2. CASE \A b \in D : ~(c[b].ceiling < dem[b])
        <5>1. ASSUME NEW b \in M, ~hld PROVE e[b] >= dem[b]
          <6>1. CASE b \in D
            BY <1>3, <2>2, <2>6, <2>7, <3>2, <4>2, <6>1
          <6>2. CASE b \notin D
            BY <1>3, <2>2, <2>6, <2>7, <5>1, <6>2
          <6>3. QED
            BY <6>1, <6>2
        <5>2. Total(e, M) - Total(act, M) = Total(h, M)
          BY <2>10, <5>1
        <5>3. QED
          BY <1>1, <1>5, <2>5, <2>9, <2>10, <5>2 DEF Lesser, Greater
      <4>3. QED
        BY <4>1, <4>2
    <3>3. QED
      BY <2>5, <3>1, <3>2
  <2>13. ASSUME NEW b \in M, NEW x \in M, d[b] > act[b], ~hld, d[x] < dem[x]
         PROVE  d[b] <= d[x] \/ (d[b] = d[x] + 1 /\ Before(b, x))
    <3>1. b \in D /\ x \in D
      <4>1. act[b] \in Nat /\ act[x] \in Nat /\ dem[x] \in Nat /\ d[x] \in Nat
        BY <1>3, <2>7
      <4>2. b \in D
        BY <2>6, <2>13, <4>1
      <4>3. x \in D
        BY <2>2, <2>6, <2>13, <4>1
      <4>4. QED
        BY <4>2, <4>3
    <3>2. CASE w[x] < c[x].ceiling
      BY <2>5, <2>6, <2>13, <3>1, <3>2
    <3>3. CASE w[x] = c[x].ceiling
      <4>1. e[x] - act[x] = budget
        BY <1>1, <1>3, <2>2, <2>6, <2>7, <2>13, <3>1, <3>3
      <4>2. b = x
        <5>1. SUFFICES ASSUME b # x PROVE FALSE
          OBVIOUS
        <5>2. (e[b] - act[b]) + budget <= Total(e, M) - Total(act, M)
          BY <2>10, <4>1, <5>1
        <5>3. e[b] > act[b] /\ act[b] \in Nat /\ e[b] \in Nat
          BY <1>3, <2>7, <2>13
        <5>4. QED
          BY <1>1, <2>5, <2>9, <5>2, <5>3
      <4>3. QED
        BY <2>7, <4>2
    <3>4. QED
      BY <2>2, <2>5, <3>1, <3>2, <3>3
  <2>14. QED
    BY <1>2, <2>7, <2>8, <2>11, <2>12, <2>13 DEF M, h, budget
<1>6. QED
  <2> HIDE DEF M, h, budget, e
  <2>1. QED
    BY <1>1, <1>4, <1>5 DEF M

\* Without a global limit every tier is filled on its own, and the plan is
\* max-min fair (allocateTier).
LEMMA ApartIsFair ==
  ASSUME ~(Global > 0), NEW act \in [Bindings -> Nat], NEW dem \in [Bindings -> Nat], NEW hld \in BOOLEAN,
         NEW d, d = Allocated(act, dem, hld)
  PROVE  d \in [Bindings -> Nat] /\ MaxMinFair(d, act, dem, hld)
<1> DEFINE tier(t) == AllocateTier(t, act, dem, hld)
<1>1. d = [b \in Bindings |-> tier(TierOf[b])[b]]
  BY DEF Allocated
<1>2. ASSUME NEW t \in Tiers
      PROVE  /\ \A b \in Members(t) : d[b] = tier(t)[b] /\ d[b] \in Nat
             /\ GivesOwed(d, Members(t), act, dem, hld)
             /\ Total(d, Members(t)) - Total(act, Members(t)) = TierShare(t, act, dem, hld)
             /\ \A b, x \in Members(t) : d[b] > act[b] /\ ~hld /\ d[x] < dem[x] =>
                  d[b] <= d[x] \/ (d[b] = d[x] + 1 /\ Before(b, x))
  <2> DEFINE g == tier(t)
  <2>1. g = AllocateTier(t, act, dem, hld)
    OBVIOUS
  <2>2. \A b \in Members(t) : d[b] = g[b]
    BY <1>1 DEF Members
  <2> HIDE DEF g
  <2>3. /\ \A b \in Members(t) : g[b] \in Nat
        /\ GivesOwed(g, Members(t), act, dem, hld)
        /\ Total(g, Members(t)) - Total(act, Members(t)) = TierShare(t, act, dem, hld)
        /\ \A b, x \in Members(t) : g[b] > act[b] /\ ~hld /\ g[x] < dem[x] =>
             g[b] <= g[x] \/ (g[b] = g[x] + 1 /\ Before(b, x))
    BY <2>1, TierIsFair
  <2>4. Total(g, Members(t)) = Total(d, Members(t))
    <3>1. \A b \in Members(t) : g[b] \in Int /\ g[b] = d[b]
      BY <2>2, <2>3
    <3>2. QED
      BY <3>1, BindingsFinite, TotalSame
  <2>5. GivesOwed(d, Members(t), act, dem, hld)
    BY <2>2, <2>3 DEF GivesOwed
  <2>6. QED
    BY <2>2, <2>3, <2>4, <2>5 DEF g
<1> HIDE DEF tier
<1>3. d \in [Bindings -> Nat]
  BY <1>1, <1>2, TierOfBinding
<1>4. \A b \in Bindings : d[b] = act[b] \/ (~hld /\ d[b] > act[b] /\ d[b] <= dem[b])
  BY <1>2, TierOfBinding DEF GivesOwed
<1>5. ASSUME NEW t \in Tiers
      PROVE  /\ Total(d, Members(t)) - Total(act, Members(t)) <= TierShare(t, act, dem, hld)
             /\ Total(d, Members(t)) - Total(act, Members(t)) = TierShare(t, act, dem, hld)
  <2>1. Total(d, Members(t)) \in Int /\ Total(act, Members(t)) \in Int
    BY <1>3, BindingsFinite, TotalInt
  <2>2. QED
    BY <1>2, <2>1
<1>6. ASSUME NEW b \in Bindings, NEW x \in Bindings, d[b] > act[b], ~hld, d[x] < dem[x], TierOf[b] = TierOf[x]
      PROVE  d[b] <= d[x] \/ (d[b] = d[x] + 1 /\ Before(b, x))
  <2>1. b \in Members(TierOf[b]) /\ x \in Members(TierOf[b]) /\ TierOf[b] \in Tiers
    BY <1>6, TierOfBinding
  <2>2. QED
    BY <1>2, <1>6, <2>1
<1>7. QED
  BY <1>3, <1>4, <1>5, <1>6 DEF MaxMinFair

-----------------------------------------------------------------------------
(* Tiers that share the instance's limit *)

\* The candidates of a tier within the instance's budget.
TierCandidates(c, t, budget, act, dem, hld) ==
  /\ IsCandidates(c) /\ DOMAIN c = {x \in Members(t) : ~hld /\ dem[x] > act[x]}
  /\ \A b \in DOMAIN c :
       /\ c[b].floor = act[b] /\ c[b].ceiling \in Nat /\ act[b] < c[b].ceiling
       /\ c[b].ceiling <= dem[b]
       /\ c[b].ceiling < dem[b] => c[b].ceiling = act[b] + Lesser(budget, TierBudget(t, act))

\* What a plan adds to what runs, and where a level takes a candidate.
Given(d, act, S) == Total(d, S) - Total(act, S)
Goal(c, b, l) == Greater(c[b].floor, Lesser(c[b].ceiling, l))

\* A tier raised to the common level as far as its own budget goes.
TierRaised(r, c, t, l, act) ==
  /\ \A b \in Members(t) \ DOMAIN c : r[b] = act[b]
  /\ \A b \in DOMAIN c : act[b] <= r[b] /\ r[b] <= Goal(c, b, l)
  /\ Given(r, act, Members(t)) = Lesser(TierBudget(t, act), CreditsAtLevel(c, l))
  /\ Given(r, act, Members(t)) = TierBudget(t, act) \/ \A b \in DOMAIN c : r[b] = Goal(c, b, l)
  /\ \A b, x \in DOMAIN c : r[b] > act[b] /\ r[x] < Lesser(c[x].ceiling, l) =>
       r[b] <= r[x] \/ (r[b] = r[x] + 1 /\ Before(b, x))

\* One tier raised to the shared level within its budget (allocateGlobal).
LEMMA RaisedTier ==
  ASSUME NEW t \in Tiers, NEW act \in [Bindings -> Nat], NEW dem \in [Bindings -> Nat], NEW hld \in BOOLEAN,
         NEW budget \in Nat \ {0}, TierBudget(t, act) > 0, NEW l \in Nat,
         NEW c, TierCandidates(c, t, budget, act, dem, hld), NEW r \in [Bindings -> Nat],
         \A b \in Members(t) : r[b] = Overlay(act, WaterFill(c, TierBudget(t, act), l))[b]
  PROVE  TierRaised(r, c, t, l, act)
<1> DEFINE M == Members(t)
           D == DOMAIN c
           k == Capped(c, l)
           tb == TierBudget(t, act)
           w == WaterFill(c, tb, l)
           v == LevelFill(c, l)
<1>1. tb \in Nat \ {0} /\ M \in SUBSET Bindings
  BY BudgetType, BindingsFinite
<1>2. /\ IsCandidates(c) /\ D \in SUBSET M /\ D \subseteq Bindings
      /\ \A b \in D : c[b].floor = act[b] /\ c[b].ceiling \in Nat /\ act[b] < c[b].ceiling /\ act[b] \in Nat
  BY <1>1 DEF TierCandidates
<1>3. /\ IsCandidates(k) /\ DOMAIN k = D /\ Floors(k) = Floors(c)
      /\ \A b \in D : k[b].floor = act[b] /\ k[b].ceiling = Lesser(c[b].ceiling, l)
  BY <1>2, CappedTypes
<1>4. IsFill(w, k, tb)
  <2> HIDE DEF tb
  <2>1. QED
    BY <1>1, <1>2, WaterFillIsFill
<1>5. \A b \in D : Top(k, b) = Goal(c, b, l) /\ Goal(c, b, l) \in Nat
  <2>1. ASSUME NEW b \in D PROVE Top(k, b) = Goal(c, b, l) /\ Goal(c, b, l) \in Nat
    <3>1. /\ k[b].floor = c[b].floor /\ k[b].ceiling = Lesser(c[b].ceiling, l)
          /\ c[b].floor \in Nat /\ c[b].ceiling \in Nat
      BY <1>2, <1>3
    <3> HIDE DEF k
    <3>2. QED
      BY <3>1 DEF Top, Goal, Greater, Lesser
  <2>2. QED
    BY <2>1
<1>6. \A b \in M : r[b] = IF b \in DOMAIN w THEN w[b] ELSE act[b]
  <2>1. DOMAIN act = Bindings
    OBVIOUS
  <2>2. QED
    BY <1>1, <2>1 DEF Overlay
<1> HIDE DEF k, w, tb
<1>7. /\ w \in [D -> Nat] /\ Spent(w, Floors(c)) \in Nat /\ Spent(w, Floors(c)) <= tb
      /\ \A b \in D : act[b] <= w[b] /\ w[b] <= Goal(c, b, l)
      /\ Spent(w, Floors(c)) = tb \/ \A b \in D : w[b] = Goal(c, b, l)
      /\ \A b, x \in D : w[b] > act[b] /\ w[x] < Lesser(c[x].ceiling, l) =>
           w[b] <= w[x] \/ (w[b] = w[x] + 1 /\ Before(b, x))
  BY <1>3, <1>4, <1>5 DEF IsFill
<1>8. (\A b \in D : r[b] = w[b]) /\ \A b \in M \ D : r[b] = act[b]
  BY <1>2, <1>6, <1>7
<1>9. Total(r, M) - Total(act, M) = Spent(w, Floors(c))
  <2>1. \A b \in D : r[b] = w[b] /\ c[b].floor = act[b]
    BY <1>2, <1>8
  <2> HIDE DEF M
  <2>2. QED
    BY <1>1, <1>2, <1>7, <1>8, <2>1, GivenIsSpent
<1>10. /\ CreditsAtLevel(c, l) = Spent(v, Floors(c)) /\ CreditsAtLevel(c, l) \in Nat
       /\ v \in [D -> Nat] /\ \A b \in D : v[b] = Goal(c, b, l)
  BY <1>2, CreditsAreGrowth, LevelFillTypes DEF Goal
<1> HIDE DEF v
<1>11. Spent(w, Floors(c)) = Lesser(tb, CreditsAtLevel(c, l))
  <2>1. Spent(w, Floors(c)) <= Spent(v, Floors(c))
    BY <1>2, <1>7, <1>10, SpentGrows
  <2>2. CASE Spent(w, Floors(c)) = tb
    BY <1>1, <1>10, <2>1, <2>2 DEF Lesser
  <2>3. CASE \A b \in D : w[b] = Goal(c, b, l)
    <3>1. w = v
      BY <1>7, <1>10, <2>3
    <3>2. QED
      BY <1>1, <1>7, <1>10, <3>1 DEF Lesser
  <2>4. QED
    BY <1>7, <2>2, <2>3
<1>12. QED
  BY <1>7, <1>8, <1>9, <1>11 DEF TierRaised, Given, tb

\* The sum over the instance is the sum of the tiers' sums.
LEMMA GivenByTier ==
  ASSUME NEW act \in [Bindings -> Nat], NEW d \in [Bindings -> Nat]
  PROVE  /\ Given(d, act, Bindings) = Total([t \in Tiers |-> Given(d, act, Members(t))], Tiers)
         /\ Given(d, act, Bindings) \in Int /\ \A t \in Tiers : Given(d, act, Members(t)) \in Int
<1> DEFINE g == [t \in Tiers |-> Given(d, act, Members(t))]
           p == [t \in Tiers |-> Total(act, Members(t))]
           q == [t \in Tiers |-> Total(d, Members(t))]
           m == [t \in Tiers |-> Members(t)]
<1>0. \A t \in Tiers : Total(act, Members(t)) \in Int /\ Total(d, Members(t)) \in Int
  BY BindingsFinite, TotalInt
<1>1. \A t \in Tiers : p[t] \in Int /\ g[t] \in Int /\ q[t] = p[t] + g[t]
  BY <1>0 DEF Given
<1>2. /\ \A t \in Tiers : m[t] = {b \in Bindings : TierOf[b] = t}
      /\ \A t \in Tiers : p[t] = Total(act, m[t])
      /\ \A t \in Tiers : q[t] = Total(d, m[t])
  BY DEF Members
<1>3. \A b \in Bindings : TierOf[b] \in Tiers /\ act[b] \in Int /\ d[b] \in Int
  BY TierOfBinding
<1> HIDE DEF p, q, m
<1>4. Total(p, Tiers) = Total(act, Bindings) /\ Total(q, Tiers) = Total(d, Bindings)
  <2>1. IsFiniteSet(Bindings) /\ IsFiniteSet(Tiers)
    BY BindingsFinite, TiersFinite
  <2>2. \A b \in Bindings : TierOf[b] \in Tiers
    BY <1>3
  <2>3. (\A b \in Bindings : act[b] \in Int) /\ \A b \in Bindings : d[b] \in Int
    BY <1>3
  <2>4. Total(p, Tiers) = Total(act, Bindings)
    BY <1>2, <2>1, <2>2, <2>3, TotalParts
  <2>5. Total(q, Tiers) = Total(d, Bindings)
    BY <1>2, <2>1, <2>2, <2>3, TotalParts
  <2>6. QED
    BY <2>4, <2>5
<1>5. Total(q, Tiers) = Total(p, Tiers) + Total(g, Tiers) /\ Total(g, Tiers) \in Int
  <2> HIDE DEF g
  <2>1. QED
    BY <1>1, TiersFinite, TotalLinear, TotalInt
<1>6. Total(act, Bindings) \in Int /\ Total(d, Bindings) \in Int
  BY <1>3, BindingsFinite, TotalInt
<1>7. Given(d, act, Bindings) = Total(g, Tiers)
  <2> HIDE DEF g
  <2>1. QED
    BY <1>4, <1>5, <1>6 DEF Given
<1>8. QED
  BY <1>1, <1>5, <1>7

\* The tiers with credit left.
Rich(act) == {t \in Tiers : TierBudget(t, act) > 0}

\* All tiers with credit raised to one level, each within its own budget.
RaisedTogether(r, cand, l, budget, act, dem, hld) ==
  /\ \A t \in Rich(act) : TierCandidates(cand[t], t, budget, act, dem, hld) /\ TierRaised(r, cand[t], t, l, act)
  /\ \A t \in Tiers \ Rich(act) : \A b \in Members(t) : r[b] = act[b]

\* Who stands at the level and wants more, how much its tier has left, and who
\* is offered one credit more.
Eligible(r, l, dem, hld) == {b \in Bindings : ~hld /\ r[b] = l /\ r[b] < dem[b]}
Waiting(t, r, l, dem, hld) == Eligible(r, l, dem, hld) \cap Members(t)
Room(t, r, act) == TierBudget(t, act) - Given(r, act, Members(t))
Chosen(r, l, act, dem, hld) ==
  UNION {FirstOf(Room(t, r, act), Waiting(t, r, l, dem, hld)) : t \in Rich(act)}

\* Every tier raised to the shared level: none is given more than its budget,
\* and a tier without one nothing (allocateGlobal).
LEMMA RaisedFacts ==
  ASSUME NEW act \in [Bindings -> Nat], NEW dem \in [Bindings -> Nat], NEW hld \in BOOLEAN,
         NEW budget \in Nat \ {0}, NEW l \in Nat, NEW cand, NEW r \in [Bindings -> Nat],
         RaisedTogether(r, cand, l, budget, act, dem, hld)
  PROVE  /\ GivesOwed(r, Bindings, act, dem, hld)
         /\ \A t \in Rich(act) :
              /\ TierBudget(t, act) \in Nat \ {0} /\ Room(t, r, act) \in Nat
              /\ Given(r, act, Members(t)) \in Nat /\ Given(r, act, Members(t)) <= TierBudget(t, act)
              /\ CreditsAtLevel(cand[t], l) \in Nat
         /\ \A t \in Tiers \ Rich(act) : Given(r, act, Members(t)) = 0
<1>1. ASSUME NEW t \in Rich(act)
      PROVE  /\ TierBudget(t, act) \in Nat \ {0} /\ Room(t, r, act) \in Nat
             /\ Given(r, act, Members(t)) \in Nat /\ Given(r, act, Members(t)) <= TierBudget(t, act)
             /\ CreditsAtLevel(cand[t], l) \in Nat
             /\ GivesOwed(r, Members(t), act, dem, hld)
  <2> DEFINE c == cand[t]
  <2>1. TierCandidates(c, t, budget, act, dem, hld) /\ TierRaised(r, c, t, l, act)
    BY DEF RaisedTogether
  <2>2. t \in Tiers /\ TierBudget(t, act) \in Nat \ {0}
    BY BudgetType DEF Rich
  <2>3. IsCandidates(c)
    BY <2>1 DEF TierCandidates
  <2> HIDE DEF c
  <2>4. CreditsAtLevel(c, l) \in Nat
    BY <2>3, CreditsAreGrowth
  <2>5. Given(r, act, Members(t)) = Lesser(TierBudget(t, act), CreditsAtLevel(c, l))
    BY <2>1 DEF TierRaised
  <2>6. ASSUME NEW b \in Members(t) PROVE r[b] = act[b] \/ (~hld /\ r[b] > act[b] /\ r[b] <= dem[b])
    <3>1. b \in Bindings /\ r[b] \in Nat /\ act[b] \in Nat /\ dem[b] \in Nat
      BY DEF Members
    <3>2. CASE b \notin DOMAIN c
      BY <2>1, <3>2 DEF TierRaised
    <3>3. CASE b \in DOMAIN c
      <4>1. ~hld /\ c[b].floor = act[b] /\ c[b].ceiling \in Nat /\ act[b] < c[b].ceiling /\ c[b].ceiling <= dem[b]
        BY <2>1, <3>3 DEF TierCandidates
      <4>2. act[b] <= r[b] /\ r[b] <= Goal(c, b, l)
        BY <2>1, <3>3 DEF TierRaised
      <4>3. QED
        BY <3>1, <4>1, <4>2 DEF Goal, Greater, Lesser
    <3>4. QED
      BY <3>2, <3>3
  <2>7. Given(r, act, Members(t)) \in Nat /\ Given(r, act, Members(t)) <= TierBudget(t, act)
    BY <2>2, <2>4, <2>5 DEF Lesser
  <2>8. Room(t, r, act) \in Nat
    BY <2>2, <2>7 DEF Room
  <2>9. QED
    BY <2>2, <2>4, <2>6, <2>7, <2>8 DEF GivesOwed, c
<1>2. ASSUME NEW t \in Tiers \ Rich(act)
      PROVE  Given(r, act, Members(t)) = 0 /\ GivesOwed(r, Members(t), act, dem, hld)
  <2>1. \A b \in Members(t) : act[b] \in Int /\ act[b] = r[b]
    BY DEF RaisedTogether, Members
  <2>2. Total(act, Members(t)) = Total(r, Members(t)) /\ Total(act, Members(t)) \in Int
    BY <2>1, BindingsFinite, TotalSame, TotalInt
  <2>3. QED
    BY <2>1, <2>2 DEF Given, GivesOwed
<1>3. GivesOwed(r, Bindings, act, dem, hld)
  <2>1. ASSUME NEW b \in Bindings PROVE r[b] = act[b] \/ (~hld /\ r[b] > act[b] /\ r[b] <= dem[b])
    <3>1. TierOf[b] \in Tiers /\ b \in Members(TierOf[b])
      BY TierOfBinding
    <3>2. GivesOwed(r, Members(TierOf[b]), act, dem, hld)
      BY <1>1, <1>2, <3>1
    <3>3. QED
      BY <3>1, <3>2 DEF GivesOwed
  <2>2. QED
    BY <2>1 DEF GivesOwed
<1>4. QED
  BY <1>1, <1>2, <1>3

\* Whom the rest goes to, tier by tier: the first in order that the tier has
\* room for.
IsChosen(U, r, l, act, dem, hld) ==
  /\ U \in SUBSET Bindings /\ \A b \in U : ~hld /\ r[b] = l /\ l < dem[b] /\ TierOf[b] \in Rich(act)
  /\ \A t \in Rich(act) :
       /\ U \cap Members(t) \subseteq Waiting(t, r, l, dem, hld)
       /\ Cardinality(U \cap Members(t)) \in Nat /\ Cardinality(U \cap Members(t)) <= Room(t, r, act)
       /\ U \cap Members(t) = Waiting(t, r, l, dem, hld) \/ Cardinality(U \cap Members(t)) = Room(t, r, act)
       /\ \A b \in U \cap Members(t), x \in Waiting(t, r, l, dem, hld) \ U : Before(b, x)
  /\ \A t \in Tiers \ Rich(act) : U \cap Members(t) = {}

\* The rest is offered to the first of each tier.
LEMMA ChosenFacts ==
  ASSUME NEW act \in [Bindings -> Nat], NEW dem \in [Bindings -> Nat], NEW hld \in BOOLEAN,
         NEW budget \in Nat \ {0}, NEW l \in Nat, NEW cand, NEW r \in [Bindings -> Nat],
         RaisedTogether(r, cand, l, budget, act, dem, hld)
  PROVE  IsChosen(Chosen(r, l, act, dem, hld), r, l, act, dem, hld)
<1> DEFINE W(t) == Waiting(t, r, l, dem, hld)
           F(t) == FirstOf(Room(t, r, act), W(t))
           U == Chosen(r, l, act, dem, hld)
<1>1. ASSUME NEW t \in Rich(act)
      PROVE  /\ F(t) \subseteq W(t) /\ Cardinality(F(t)) \in Nat /\ Cardinality(F(t)) <= Room(t, r, act)
             /\ F(t) = W(t) \/ Cardinality(F(t)) = Room(t, r, act)
             /\ \A b \in F(t), x \in W(t) \ F(t) : Before(b, x)
  <2> DEFINE E == W(t)
             n == Room(t, r, act)
  <2>1. E \in SUBSET Bindings /\ n \in Nat
    BY RaisedFacts DEF Waiting, Eligible
  <2> HIDE DEF E, n
  <2>2. /\ FirstOf(n, E) \subseteq E /\ Cardinality(FirstOf(n, E)) \in Nat /\ Cardinality(FirstOf(n, E)) <= n
        /\ FirstOf(n, E) = E \/ Cardinality(FirstOf(n, E)) = n
        /\ \A b \in FirstOf(n, E), x \in E \ FirstOf(n, E) : Before(b, x)
    BY <2>1, FirstOfFacts
  <2>3. QED
    BY <2>2 DEF E, n
<1>2. U = UNION {F(t) : t \in Rich(act)}
  BY DEF Chosen
<1> HIDE DEF F, U
<1>3. \A t \in Tiers : W(t) \subseteq Members(t) /\ \A b \in W(t) : b \in Bindings /\ ~hld /\ r[b] = l /\ l < dem[b]
  BY DEF Waiting, Eligible
<1>4. \A t \in Tiers : \A b \in Members(t) : TierOf[b] = t
  BY DEF Members
<1>5. Rich(act) \subseteq Tiers
  BY DEF Rich
<1> HIDE DEF W
<1>6. ASSUME NEW t \in Rich(act) PROVE U \cap Members(t) = F(t)
  <2>1. F(t) \subseteq U /\ F(t) \subseteq Members(t)
    BY <1>1, <1>2, <1>3, <1>5
  <2>2. ASSUME NEW b \in U, b \in Members(t) PROVE b \in F(t)
    <3>1. PICK u \in Rich(act) : b \in F(u)
      BY <1>2
    <3>2. TierOf[b] = u /\ TierOf[b] = t
      BY <1>1, <1>3, <1>4, <1>5, <2>2, <3>1
    <3>3. QED
      BY <3>1, <3>2
  <2>3. QED
    BY <2>1, <2>2
<1>7. ASSUME NEW b \in U PROVE b \in Bindings /\ ~hld /\ r[b] = l /\ l < dem[b] /\ TierOf[b] \in Rich(act)
  <2>1. PICK u \in Rich(act) : b \in F(u)
    BY <1>2
  <2>2. b \in W(u) /\ u \in Tiers
    BY <1>1, <1>5, <2>1
  <2>3. QED
    BY <1>3, <1>4, <2>2
<1>8. \A t \in Tiers \ Rich(act) : U \cap Members(t) = {}
  BY <1>4, <1>7
<1>9. ASSUME NEW t \in Rich(act)
      PROVE  /\ U \cap Members(t) \subseteq W(t)
             /\ Cardinality(U \cap Members(t)) \in Nat /\ Cardinality(U \cap Members(t)) <= Room(t, r, act)
             /\ U \cap Members(t) = W(t) \/ Cardinality(U \cap Members(t)) = Room(t, r, act)
             /\ \A b \in U \cap Members(t), x \in W(t) \ U : Before(b, x)
  <2>1. U \cap Members(t) = F(t)
    BY <1>6
  <2>2. W(t) \ U \subseteq W(t) \ F(t)
    BY <2>1
  <2>3. QED
    BY <1>1, <2>1, <2>2
<1>10. QED
  BY <1>7, <1>8, <1>9 DEF W, U, IsChosen

\* The rest handed out to those chosen, as far as the instance's budget goes.
RestHandedOut(d, r, Y, cand, l, budget, act, dem, hld) ==
  /\ RaisedTogether(r, cand, l, budget, act, dem, hld)
  /\ Given(r, act, Bindings) <= budget
  /\ Y = FirstOf(budget - Given(r, act, Bindings), Chosen(r, l, act, dem, hld))
  /\ d = HandOut(r, Y)

\* What each tier and the instance hold once the rest is handed out.
IsHandedOut(d, r, Y, U, budget, act, dem, hld) ==
  /\ d \in [Bindings -> Nat] /\ Y \subseteq U
  /\ \A b \in Bindings : d[b] = r[b] + (IF b \in Y THEN 1 ELSE 0)
  /\ GivesOwed(d, Bindings, act, dem, hld)
  /\ \A b \in Y, x \in U \ Y : Before(b, x)
  /\ Given(d, act, Bindings) \in Nat /\ Given(d, act, Bindings) <= budget
  /\ Given(d, act, Bindings) = budget \/ Y = U
  /\ \A t \in Rich(act) :
       /\ Given(d, act, Members(t)) \in Nat /\ Given(d, act, Members(t)) <= TierBudget(t, act)
       /\ Cardinality(Y \cap Members(t)) \in Nat
       /\ Given(d, act, Members(t)) = Given(r, act, Members(t)) + Cardinality(Y \cap Members(t))
  /\ \A t \in Tiers \ Rich(act) : Given(d, act, Members(t)) = 0

\* Handing out the rest keeps every tier and the instance within budget.
LEMMA HandedOutFacts ==
  ASSUME NEW act \in [Bindings -> Nat], NEW dem \in [Bindings -> Nat], NEW hld \in BOOLEAN,
         NEW budget \in Nat \ {0}, NEW l \in Nat, NEW cand, NEW r \in [Bindings -> Nat], NEW Y, NEW d,
         RestHandedOut(d, r, Y, cand, l, budget, act, dem, hld)
  PROVE  IsHandedOut(d, r, Y, Chosen(r, l, act, dem, hld), budget, act, dem, hld)
<1> DEFINE n == budget - Given(r, act, Bindings)
           U == Chosen(r, l, act, dem, hld)
<1>1. /\ RaisedTogether(r, cand, l, budget, act, dem, hld) /\ Given(r, act, Bindings) <= budget
      /\ Y = FirstOf(n, U) /\ d = HandOut(r, Y)
  BY DEF RestHandedOut
<1>2. /\ U \in SUBSET Bindings /\ \A b \in U : ~hld /\ r[b] = l /\ l < dem[b] /\ TierOf[b] \in Rich(act)
      /\ \A t \in Rich(act) : /\ Cardinality(U \cap Members(t)) \in Nat
                             /\ Cardinality(U \cap Members(t)) <= Room(t, r, act)
      /\ \A t \in Tiers \ Rich(act) : U \cap Members(t) = {}
  <2>1. IsChosen(U, r, l, act, dem, hld)
    BY <1>1, ChosenFacts
  <2>2. QED
    BY <2>1 DEF IsChosen
<1>3. n \in Nat /\ Given(r, act, Bindings) \in Int
  <2>1. Given(r, act, Bindings) \in Int
    BY GivenByTier
  <2>2. QED
    BY <1>1, <2>1
<1> HIDE DEF n, U
<1>4. /\ Y \subseteq U /\ IsFiniteSet(Y) /\ Cardinality(Y) \in Nat /\ Cardinality(Y) <= n
      /\ Y = U \/ Cardinality(Y) = n
      /\ \A b \in Y, x \in U \ Y : Before(b, x)
  BY <1>1, <1>2, <1>3, FirstOfFacts
<1>5. \A b \in Bindings : d[b] = r[b] + (IF b \in Y THEN 1 ELSE 0)
  BY <1>1 DEF HandOut
<1>6. d \in [Bindings -> Nat]
  BY <1>1 DEF HandOut
<1>7. ASSUME NEW S \in SUBSET Bindings
      PROVE  /\ Given(d, act, S) = Given(r, act, S) + Cardinality(Y \cap S)
             /\ Given(r, act, S) \in Int /\ Cardinality(Y \cap S) \in Nat
  <2> DEFINE X == Y \cap S
  <2>1. IsFiniteSet(S) /\ X \in SUBSET S /\ \A b \in S : r[b] \in Int
    BY BindingsFinite, FS_Subset
  <2>2. (\A b \in X : d[b] = r[b] + 1) /\ \A b \in S \ X : d[b] = r[b]
    BY <1>5
  <2> HIDE DEF X
  <2>3. Total(d, S) = Total(r, S) + Cardinality(X) /\ Total(r, S) \in Int /\ Cardinality(X) \in Nat
    BY <2>1, <2>2, TotalRaise
  <2>4. Total(act, S) \in Int
    BY <2>1, TotalInt
  <2>5. QED
    BY <2>3, <2>4 DEF Given, X
<1>8. GivesOwed(r, Bindings, act, dem, hld)
  BY <1>1, RaisedFacts
<1>9. GivesOwed(d, Bindings, act, dem, hld)
  <2>1. ASSUME NEW b \in Bindings PROVE d[b] = act[b] \/ (~hld /\ d[b] > act[b] /\ d[b] <= dem[b])
    <3>1. r[b] = act[b] \/ (~hld /\ r[b] > act[b] /\ r[b] <= dem[b])
      BY <1>8 DEF GivesOwed
    <3>2. r[b] \in Nat /\ act[b] \in Nat /\ dem[b] \in Nat
      OBVIOUS
    <3>3. CASE b \in Y
      BY <1>2, <1>4, <1>5, <3>1, <3>2, <3>3
    <3>4. CASE b \notin Y
      BY <1>5, <3>1, <3>2, <3>4
    <3>5. QED
      BY <3>3, <3>4
  <2>2. QED
    BY <2>1 DEF GivesOwed
<1>10. /\ Given(d, act, Bindings) \in Nat /\ Given(d, act, Bindings) <= budget
       /\ Given(d, act, Bindings) = budget \/ Y = U
  <2>1. Given(d, act, Bindings) = Given(r, act, Bindings) + Cardinality(Y)
    <3>1. Y \cap Bindings = Y
      BY <1>2, <1>4
    <3>2. QED
      BY <1>7, <3>1
  <2>2. Given(d, act, Bindings) \in Nat
    BY <1>6, <1>9, GivenFacts DEF Given
  <2>3. QED
    BY <1>3, <1>4, <2>1, <2>2 DEF n
<1>11. ASSUME NEW t \in Rich(act)
       PROVE  /\ Given(d, act, Members(t)) \in Nat /\ Given(d, act, Members(t)) <= TierBudget(t, act)
              /\ Cardinality(Y \cap Members(t)) \in Nat
              /\ Given(d, act, Members(t)) = Given(r, act, Members(t)) + Cardinality(Y \cap Members(t))
  <2>1. /\ TierBudget(t, act) \in Nat /\ Given(r, act, Members(t)) \in Nat
        /\ Room(t, r, act) = TierBudget(t, act) - Given(r, act, Members(t))
    BY <1>1, RaisedFacts DEF Room
  <2>2. Members(t) \in SUBSET Bindings
    BY BindingsFinite DEF Rich
  <2>3. IsFiniteSet(U \cap Members(t))
    BY <1>2, BindingsFinite, FS_Subset
  <2>4. Cardinality(Y \cap Members(t)) <= Cardinality(U \cap Members(t))
    BY <1>4, <2>3, FS_Subset
  <2>5. QED
    BY <1>2, <1>7, <2>1, <2>2, <2>4
<1>12. ASSUME NEW t \in Tiers \ Rich(act) PROVE Given(d, act, Members(t)) = 0
  <2>1. Given(r, act, Members(t)) = 0
    BY <1>1, RaisedFacts
  <2>2. Y \cap Members(t) = {} /\ Members(t) \in SUBSET Bindings
    BY <1>2, <1>4, BindingsFinite
  <2>3. Cardinality(Y \cap Members(t)) = 0
    BY <2>2, FS_EmptySet
  <2>4. QED
    BY <1>7, <2>1, <2>2, <2>3
<1>13. QED
  BY <1>4, <1>5, <1>6, <1>9, <1>10, <1>11, <1>12 DEF IsHandedOut, U

\* No higher level fits the instance's budget.
HighestLevel(cand, l, budget, act) ==
  \/ \A t \in Rich(act) : \A b \in DOMAIN cand[t] : cand[t][b].ceiling <= l
  \/ Total([t \in Rich(act) |-> Lesser(TierBudget(t, act), CreditsAtLevel(cand[t], l + 1))], Rich(act)) > budget

\* A tier is never given more than its share.
LEMMA WithinShare ==
  ASSUME NEW act \in [Bindings -> Nat], NEW dem \in [Bindings -> Nat], NEW hld \in BOOLEAN,
         NEW d \in [Bindings -> Nat], GivesOwed(d, Bindings, act, dem, hld), NEW t \in Tiers,
         t \in Rich(act) => Given(d, act, Members(t)) <= TierBudget(t, act),
         t \notin Rich(act) => Given(d, act, Members(t)) = 0
  PROVE  /\ Given(d, act, Members(t)) \in Nat /\ TierShare(t, act, dem, hld) \in Nat
         /\ Given(d, act, Members(t)) <= TierShare(t, act, dem, hld)
         /\ t \notin Rich(act) => TierShare(t, act, dem, hld) = 0
         /\ t \in Rich(act) => TierShare(t, act, dem, hld) <= TierBudget(t, act)
         /\ (\A b \in Members(t) : ~hld => d[b] >= dem[b]) =>
              TierShare(t, act, dem, hld) <= Given(d, act, Members(t))
<1> DEFINE M == Members(t)
           h == Total(Headroom(act, dem, hld), M)
<1>1. M \in SUBSET Bindings /\ GivesOwed(d, M, act, dem, hld)
  BY BindingsFinite DEF GivesOwed
<1>2. /\ Given(d, act, M) \in Nat /\ h \in Nat /\ Given(d, act, M) <= h
      /\ (\A b \in M : ~hld => d[b] >= dem[b]) => Given(d, act, M) = h
  BY <1>1, GivenFacts DEF Given
<1>3. TierBudget(t, act) \in Int /\ (t \in Rich(act) <=> TierBudget(t, act) > 0)
  BY BudgetType DEF Rich
<1>4. TierShare(t, act, dem, hld) = Lesser(Greater(0, TierBudget(t, act)), h)
  BY BudgetType DEF TierShare
<1> HIDE DEF M, h
<1>5. QED
  BY <1>2, <1>3, <1>4 DEF Lesser, Greater, M

\* One level more costs a tier no more than what it was offered.
LEMMA NextLevelCost ==
  ASSUME NEW act \in [Bindings -> Nat], NEW dem \in [Bindings -> Nat], NEW hld \in BOOLEAN,
         NEW budget \in Nat \ {0}, NEW l \in Nat, NEW cand, NEW r \in [Bindings -> Nat],
         RaisedTogether(r, cand, l, budget, act, dem, hld), NEW U, IsChosen(U, r, l, act, dem, hld),
         NEW t \in Rich(act)
  PROVE  /\ Given(r, act, Members(t)) \in Nat /\ Cardinality(U \cap Members(t)) \in Nat
         /\ Lesser(TierBudget(t, act), CreditsAtLevel(cand[t], l + 1))
              <= Given(r, act, Members(t)) + Cardinality(U \cap Members(t))
         /\ Lesser(TierBudget(t, act), CreditsAtLevel(cand[t], l + 1)) \in Int
<1> DEFINE c == cand[t]
           W == Waiting(t, r, l, dem, hld)
           g == Given(r, act, Members(t))
           tb == TierBudget(t, act)
           X == U \cap Members(t)
           R == Rising(c, l)
<1>1. TierCandidates(c, t, budget, act, dem, hld) /\ TierRaised(r, c, t, l, act)
  BY DEF RaisedTogether
<1>2. /\ tb \in Nat \ {0} /\ Room(t, r, act) = tb - g /\ g \in Nat /\ g <= tb /\ CreditsAtLevel(c, l) \in Nat
  BY RaisedFacts DEF Room
<1>3. Cardinality(X) \in Nat /\ (X = W \/ Cardinality(X) = tb - g)
  BY <1>2 DEF IsChosen
<1>4. IsCandidates(c) /\ l + 1 \in Int
  BY <1>1 DEF TierCandidates
<1> HIDE DEF c, W, g, tb, X, R
<1>5. CreditsAtLevel(c, l + 1) = CreditsAtLevel(c, l) + Cardinality(R) /\ CreditsAtLevel(c, l + 1) \in Nat
  BY <1>4, CreditsStep, CreditsAreGrowth DEF R
<1>6. CASE g = tb \/ Cardinality(X) = tb - g
  BY <1>2, <1>3, <1>5, <1>6 DEF Lesser, c, g, tb, X
<1>7. CASE g # tb /\ X = W
  <2>1. (\A b \in DOMAIN c : r[b] = Goal(c, b, l)) /\ g = Lesser(tb, CreditsAtLevel(c, l))
    BY <1>1, <1>7 DEF TierRaised, g, tb
  <2>2. g = CreditsAtLevel(c, l)
    BY <1>2, <1>7, <2>1 DEF Lesser
  <2>3. ASSUME NEW b \in R PROVE b \in W
    <3>1. b \in DOMAIN c /\ c[b].floor <= l /\ l < c[b].ceiling
      BY DEF R, Rising
    <3>2. ~hld /\ b \in Members(t) /\ c[b].floor = act[b] /\ c[b].ceiling \in Nat /\ c[b].ceiling <= dem[b]
      BY <1>1, <3>1 DEF TierCandidates
    <3>3. b \in Bindings /\ act[b] \in Nat /\ dem[b] \in Nat
      BY <3>2 DEF Members
    <3>4. r[b] = l /\ l < dem[b]
      BY <2>1, <3>1, <3>2, <3>3 DEF Goal, Greater, Lesser
    <3>5. QED
      BY <3>2, <3>3, <3>4 DEF W, Waiting, Eligible
  <2>4. IsFiniteSet(W)
    BY BindingsFinite, FS_Subset DEF W, Waiting, Eligible
  <2>5. Cardinality(R) <= Cardinality(X) /\ Cardinality(R) \in Nat
    BY <1>7, <2>3, <2>4, FS_Subset, FS_CardinalityType
  <2>6. QED
    BY <1>2, <1>3, <1>5, <2>2, <2>5 DEF Lesser, c, g, tb, X
<1>8. QED
  BY <1>3, <1>6, <1>7

\* The rest was handed out, at the highest level, and credits are left.
LeavesCredits(d, r, Y, U, cand, l, budget, act, dem, hld) ==
  /\ RaisedTogether(r, cand, l, budget, act, dem, hld) /\ IsChosen(U, r, l, act, dem, hld)
  /\ IsHandedOut(d, r, Y, U, budget, act, dem, hld) /\ HighestLevel(cand, l, budget, act)
  /\ Given(d, act, Bindings) # budget

\* Unless the instance's budget is spent, everybody is at the ceiling or in a
\* tier that is spent.
LEMMA AllAtCeiling ==
  ASSUME NEW act \in [Bindings -> Nat], NEW dem \in [Bindings -> Nat], NEW hld \in BOOLEAN,
         NEW budget \in Nat \ {0}, NEW l \in Nat, NEW cand, NEW r \in [Bindings -> Nat], NEW Y, NEW d, NEW U,
         LeavesCredits(d, r, Y, U, cand, l, budget, act, dem, hld)
  PROVE  \A v \in Rich(act) : \A b \in DOMAIN cand[v] : cand[v][b].ceiling <= l
<1>0. /\ RaisedTogether(r, cand, l, budget, act, dem, hld) /\ IsChosen(U, r, l, act, dem, hld)
      /\ IsHandedOut(d, r, Y, U, budget, act, dem, hld) /\ HighestLevel(cand, l, budget, act)
      /\ Given(d, act, Bindings) # budget
  BY DEF LeavesCredits
<1> USE <1>0
<1> SUFFICES ASSUME NEW v \in Rich(act), NEW b \in DOMAIN cand[v] PROVE cand[v][b].ceiling <= l
  OBVIOUS
<1> DEFINE T == Rich(act)
           s == [t \in T |-> Lesser(TierBudget(t, act), CreditsAtLevel(cand[t], l + 1))]
           g == [t \in Tiers |-> Given(d, act, Members(t))]
<1>1. SUFFICES ASSUME Total(s, T) > budget PROVE FALSE
  BY DEF HighestLevel
<1>2. IsFiniteSet(T) /\ T \subseteq Tiers
  BY TiersFinite, FS_Subset DEF Rich
<1>3. Y = U /\ d \in [Bindings -> Nat] /\ Given(d, act, Bindings) \in Nat /\ Given(d, act, Bindings) <= budget
  BY DEF IsHandedOut
<1>4. ASSUME NEW t \in T PROVE s[t] \in Int /\ g[t] \in Int /\ s[t] <= g[t]
  <2>1. Given(d, act, Members(t)) = Given(r, act, Members(t)) + Cardinality(U \cap Members(t))
    BY <1>3 DEF IsHandedOut
  <2>2. QED
    BY <1>2, <2>1, NextLevelCost
<1>5. Given(d, act, Bindings) = Total(g, Tiers) /\ \A t \in Tiers : g[t] \in Int
  BY <1>3, GivenByTier
<1>6. \A t \in Tiers \ T : g[t] = 0
  BY DEF IsHandedOut
<1> HIDE DEF T, s, g
<1>7. Total(s, T) <= Total(g, T) /\ Total(s, T) \in Int /\ Total(g, T) \in Int
  BY <1>2, <1>4, TotalMonotone, TotalInt
<1>8. Total(g, Tiers) = Total(g, T)
  <2> DEFINE z == [t \in Tiers |-> 0]
  <2>1. \A t \in Tiers : z[t] \in Int /\ z[t] = 0
    OBVIOUS
  <2> HIDE DEF z
  <2>2. \A t \in Tiers : z[t] \in Int /\ g[t] \in Int
    BY <1>5, <2>1
  <2>3. \A t \in Tiers \ T : z[t] = g[t]
    BY <1>6, <2>1
  <2>4. Total(g, Tiers) - Total(z, Tiers) = Total(g, T) - Total(z, T)
    BY <1>2, <2>2, <2>3, TiersFinite, TotalDifference
  <2>5. Total(z, Tiers) = 0 /\ Total(z, T) = 0
    BY <1>2, <2>1, TiersFinite, TotalZero
  <2>6. Total(g, Tiers) \in Int
    BY <2>2, TiersFinite, TotalInt
  <2>7. QED
    BY <1>7, <2>4, <2>5, <2>6
<1>9. QED
  BY <1>1, <1>3, <1>5, <1>7, <1>8

\* Unless the instance's budget is spent, every tier is given its share.
LEMMA ShareIsGiven ==
  ASSUME NEW act \in [Bindings -> Nat], NEW dem \in [Bindings -> Nat], NEW hld \in BOOLEAN,
         NEW budget \in Nat \ {0}, NEW l \in Nat, NEW cand, NEW r \in [Bindings -> Nat], NEW Y, NEW d,
         RaisedTogether(r, cand, l, budget, act, dem, hld), NEW U, IsChosen(U, r, l, act, dem, hld),
         IsHandedOut(d, r, Y, U, budget, act, dem, hld), HighestLevel(cand, l, budget, act),
         Given(d, act, Bindings) # budget, NEW t \in Tiers
  PROVE  Given(d, act, Members(t)) = TierShare(t, act, dem, hld)
<1> DEFINE M == Members(t)
           tb == TierBudget(t, act)
           c == cand[t]
<1>1. /\ d \in [Bindings -> Nat] /\ GivesOwed(d, Bindings, act, dem, hld) /\ Y = U
      /\ t \in Rich(act) => Given(d, act, M) \in Nat /\ Given(d, act, M) <= tb
      /\ t \notin Rich(act) => Given(d, act, M) = 0
      /\ Given(d, act, Bindings) \in Nat /\ Given(d, act, Bindings) < budget
      /\ \A b \in Bindings : d[b] >= r[b]
  <2>1. \A b \in Bindings : d[b] = r[b] + (IF b \in Y THEN 1 ELSE 0) /\ r[b] \in Nat
    BY DEF IsHandedOut
  <2>2. \A b \in Bindings : d[b] >= r[b]
    BY <2>1
  <2>3. /\ Given(d, act, Bindings) \in Nat /\ Given(d, act, Bindings) <= budget
        /\ Given(d, act, Bindings) = budget \/ Y = U
        /\ d \in [Bindings -> Nat] /\ GivesOwed(d, Bindings, act, dem, hld)
    BY DEF IsHandedOut
  <2>4. /\ t \in Rich(act) => Given(d, act, M) \in Nat /\ Given(d, act, M) <= tb
        /\ t \notin Rich(act) => Given(d, act, M) = 0
    BY DEF IsHandedOut
  <2>5. QED
    BY <2>2, <2>3, <2>4
<1>2. /\ Given(d, act, M) \in Nat /\ TierShare(t, act, dem, hld) \in Nat
      /\ Given(d, act, M) <= TierShare(t, act, dem, hld)
      /\ t \notin Rich(act) => TierShare(t, act, dem, hld) = 0
      /\ t \in Rich(act) => TierShare(t, act, dem, hld) <= tb
      /\ (\A b \in M : ~hld => d[b] >= dem[b]) => TierShare(t, act, dem, hld) <= Given(d, act, M)
  BY <1>1, WithinShare
<1>3. CASE t \notin Rich(act)
  BY <1>1, <1>2, <1>3
<1>4. CASE t \in Rich(act) /\ Given(d, act, M) = tb
  <2>1. tb \in Int
    BY BudgetType
  <2>2. QED
    BY <1>2, <1>4, <2>1
<1>5. CASE t \in Rich(act) /\ Given(d, act, M) # tb
  <2>1. TierCandidates(c, t, budget, act, dem, hld) /\ TierRaised(r, c, t, l, act)
    BY <1>5 DEF RaisedTogether
  <2>2. \A b \in DOMAIN c : c[b].ceiling <= l
    <3>1. t \in Rich(act)
      BY <1>5
    <3>2. LeavesCredits(d, r, Y, U, cand, l, budget, act, dem, hld)
      BY DEF LeavesCredits
    <3>3. QED
      BY <3>1, <3>2, AllAtCeiling
  <2>3. /\ tb \in Nat \ {0} /\ Given(r, act, M) \in Nat /\ Cardinality(U \cap M) \in Nat
        /\ Given(d, act, M) = Given(r, act, M) + Cardinality(U \cap M)
    <3>1. tb \in Nat \ {0} /\ Given(r, act, M) \in Nat
      BY <1>5, RaisedFacts
    <3>2. QED
      BY <1>1, <1>5, <3>1 DEF IsHandedOut
  <2>4. Given(r, act, M) # tb
    BY <1>1, <1>5, <2>3
  <2>5. \A b \in DOMAIN c : r[b] = Goal(c, b, l)
    BY <2>1, <2>4 DEF TierRaised
  <2>6. ASSUME NEW b \in M, ~hld PROVE d[b] >= dem[b]
    <3>1. b \in Bindings /\ act[b] \in Nat /\ dem[b] \in Nat /\ d[b] \in Nat /\ r[b] \in Nat /\ d[b] >= r[b]
      BY <1>1 DEF Members
    <3>2. d[b] >= act[b]
      BY <1>1, <3>1 DEF GivesOwed
    <3>3. CASE dem[b] <= act[b]
      BY <3>1, <3>2, <3>3
    <3>4. CASE dem[b] > act[b]
      <4>1. b \in DOMAIN c
        BY <2>1, <2>6, <3>4 DEF TierCandidates
      <4>2. /\ c[b].floor = act[b] /\ c[b].ceiling \in Nat /\ act[b] < c[b].ceiling /\ c[b].ceiling <= dem[b]
            /\ c[b].ceiling < dem[b] => c[b].ceiling = act[b] + Lesser(budget, tb)
        BY <2>1, <4>1 DEF TierCandidates
      <4>3. r[b] = c[b].ceiling
        BY <2>2, <2>5, <3>1, <4>1, <4>2 DEF Goal, Greater, Lesser
      <4>4. CASE c[b].ceiling = dem[b]
        BY <3>1, <4>3, <4>4
      <4>5. CASE c[b].ceiling < dem[b]
        <5>1. d[b] - act[b] <= Given(d, act, Bindings)
          BY <1>1, <3>1, GivenFacts DEF Given
        <5>2. d[b] - act[b] <= Given(d, act, M)
          <6>1. M \in SUBSET Bindings /\ GivesOwed(d, M, act, dem, hld)
            BY <1>1, BindingsFinite DEF GivesOwed
          <6>2. QED
            BY <1>1, <6>1, GivenFacts DEF Given
        <5> HIDE DEF M, tb, c
        <5>3. QED
          BY <1>1, <1>2, <1>5, <2>3, <3>1, <4>2, <4>3, <4>5, <5>1, <5>2 DEF Lesser
      <4>6. QED
        BY <3>1, <4>2, <4>4, <4>5
    <3>5. QED
      BY <3>1, <3>3, <3>4
  <2>7. QED
    BY <1>2, <2>6
<1>6. QED
  BY <1>3, <1>4, <1>5

\* The instance gives out all it may.
LEMMA InstanceIsGiven ==
  ASSUME NEW act \in [Bindings -> Nat], NEW dem \in [Bindings -> Nat], NEW hld \in BOOLEAN,
         NEW budget \in Nat \ {0}, NEW l \in Nat, NEW cand, NEW r \in [Bindings -> Nat], NEW Y, NEW d,
         RaisedTogether(r, cand, l, budget, act, dem, hld), NEW U, IsChosen(U, r, l, act, dem, hld),
         IsHandedOut(d, r, Y, U, budget, act, dem, hld), HighestLevel(cand, l, budget, act)
  PROVE  /\ Given(d, act, Bindings) = Lesser(budget, Total([t \in Tiers |-> TierShare(t, act, dem, hld)], Tiers))
         /\ \A t \in Tiers : Given(d, act, Members(t)) <= TierShare(t, act, dem, hld)
<1> DEFINE s == [t \in Tiers |-> TierShare(t, act, dem, hld)]
           g == [t \in Tiers |-> Given(d, act, Members(t))]
<1>1. /\ d \in [Bindings -> Nat] /\ GivesOwed(d, Bindings, act, dem, hld)
      /\ Given(d, act, Bindings) \in Nat /\ Given(d, act, Bindings) <= budget
  BY DEF IsHandedOut
<1>2. ASSUME NEW t \in Tiers PROVE g[t] \in Int /\ s[t] \in Int /\ g[t] <= s[t]
  <2>1. /\ t \in Rich(act) => Given(d, act, Members(t)) <= TierBudget(t, act)
        /\ t \notin Rich(act) => Given(d, act, Members(t)) = 0
    BY DEF IsHandedOut
  <2>2. QED
    BY <1>1, <2>1, WithinShare
<1>3. Given(d, act, Bindings) = Total(g, Tiers)
  BY <1>1, GivenByTier
<1>4. Given(d, act, Bindings) # budget => \A t \in Tiers : g[t] = s[t]
  BY ShareIsGiven
<1>5. (\A t \in Tiers : Given(d, act, Members(t)) <= TierShare(t, act, dem, hld)) \/ FALSE
  BY <1>2
<1> HIDE DEF s, g
<1>6. Total(g, Tiers) <= Total(s, Tiers) /\ Total(s, Tiers) \in Int
  BY <1>2, TiersFinite, TotalMonotone, TotalInt
<1>7. Given(d, act, Bindings) # budget => Total(g, Tiers) = Total(s, Tiers)
  BY <1>2, <1>4, TiersFinite, TotalSame
<1>8. Given(d, act, Bindings) = Lesser(budget, Total(s, Tiers))
  BY <1>1, <1>3, <1>6, <1>7 DEF Lesser
<1>9. QED
  BY <1>5, <1>8 DEF s

\* Nobody is raised above a rival that still wants, but for one credit and an
\* earlier place.
LEMMA RivalsAreServed ==
  ASSUME NEW act \in [Bindings -> Nat], NEW dem \in [Bindings -> Nat], NEW hld \in BOOLEAN,
         NEW budget \in Nat \ {0}, NEW l \in Nat, NEW cand, NEW r \in [Bindings -> Nat], NEW Y, NEW d,
         RaisedTogether(r, cand, l, budget, act, dem, hld), NEW U, IsChosen(U, r, l, act, dem, hld),
         IsHandedOut(d, r, Y, U, budget, act, dem, hld),
         NEW b \in Bindings, NEW x \in Bindings, d[b] > act[b], ~hld, d[x] < dem[x],
         TierOf[b] = TierOf[x] \/ Given(d, act, Members(TierOf[x])) < TierBudget(TierOf[x], act)
  PROVE  d[b] <= d[x] \/ (d[b] = d[x] + 1 /\ Before(b, x))
<1> DEFINE t == TierOf[b]
           u == TierOf[x]
           c == cand[u]
           tb == TierBudget(u, act)
           M == Members(u)
<1>1. /\ d \in [Bindings -> Nat] /\ Y \subseteq U /\ GivesOwed(d, Bindings, act, dem, hld)
      /\ \A y \in Bindings : d[y] = r[y] + (IF y \in Y THEN 1 ELSE 0)
      /\ \A y \in Y, z \in U \ Y : Before(y, z)
      /\ Given(d, act, Bindings) \in Nat /\ Given(d, act, Bindings) <= budget
  BY DEF IsHandedOut
<1>2. U \in SUBSET Bindings /\ \A y \in U : r[y] = l /\ TierOf[y] \in Rich(act)
  BY DEF IsChosen
<1>3. /\ d[b] \in Nat /\ d[x] \in Nat /\ r[b] \in Nat /\ r[x] \in Nat /\ act[b] \in Nat /\ act[x] \in Nat
      /\ dem[x] \in Nat /\ act[x] <= d[x]
      /\ t \in Tiers /\ u \in Tiers /\ b \in Members(t) /\ x \in M /\ (b \in Members(u) <=> t = u)
  <2>1. act[x] <= d[x]
    BY <1>1 DEF GivesOwed
  <2>2. QED
    BY <1>1, <2>1, TierOfBinding DEF Members
<1>4. t \in Rich(act)
  <2>1. SUFFICES ASSUME t \notin Rich(act) PROVE FALSE
    OBVIOUS
  <2>2. r[b] = act[b] /\ b \notin Y
    BY <1>1, <1>2, <1>3, <2>1 DEF RaisedTogether
  <2>3. QED
    BY <1>1, <1>3, <2>2
<1>5. u \in Rich(act)
  <2>1. SUFFICES ASSUME u \notin Rich(act) PROVE FALSE
    OBVIOUS
  <2>2. Given(d, act, M) = 0 /\ TierBudget(u, act) \in Int /\ ~(TierBudget(u, act) > 0)
    BY <1>3, <2>1, BudgetType DEF IsHandedOut, Rich
  <2>3. QED
    BY <1>4, <2>1, <2>2
<1>6. TierCandidates(c, u, budget, act, dem, hld) /\ TierRaised(r, c, u, l, act)
  BY <1>5 DEF RaisedTogether
<1>7. /\ tb \in Nat \ {0} /\ Room(u, r, act) = tb - Given(r, act, M)
      /\ Given(r, act, M) \in Nat /\ Given(r, act, M) <= tb
  BY <1>5, RaisedFacts DEF Room
<1>8. /\ Given(d, act, M) \in Nat /\ Given(d, act, M) <= tb /\ Cardinality(Y \cap M) \in Nat
      /\ Given(d, act, M) = Given(r, act, M) + Cardinality(Y \cap M)
  BY <1>5 DEF IsHandedOut
<1>9. /\ x \in DOMAIN c /\ c[x].floor = act[x] /\ c[x].ceiling \in Nat /\ act[x] < c[x].ceiling
      /\ c[x].ceiling <= dem[x]
      /\ c[x].ceiling < dem[x] => c[x].ceiling = act[x] + Lesser(budget, tb)
      /\ act[x] <= r[x] /\ r[x] <= Goal(c, x, l)
  <2>1. x \in DOMAIN c
    BY <1>3, <1>6 DEF TierCandidates
  <2>2. QED
    BY <1>6, <2>1 DEF TierCandidates, TierRaised
<1>10. (b \in Y => d[b] = l + 1) /\ (b \notin Y => d[b] = r[b] /\ r[b] <= l)
  <2>1. b \in Y => d[b] = l + 1
    BY <1>1, <1>2
  <2>2. ASSUME b \notin Y PROVE d[b] = r[b] /\ r[b] <= l
    <3> DEFINE e == cand[t]
    <3>1. d[b] = r[b] /\ r[b] > act[b]
      BY <1>1, <1>3, <2>2
    <3>2. TierCandidates(e, t, budget, act, dem, hld) /\ TierRaised(r, e, t, l, act)
      BY <1>4 DEF RaisedTogether
    <3>3. b \in DOMAIN e /\ r[b] <= Goal(e, b, l)
      BY <1>3, <3>1, <3>2 DEF TierRaised
    <3>4. e[b].floor = act[b] /\ e[b].ceiling \in Nat
      BY <3>2, <3>3 DEF TierCandidates
    <3> HIDE DEF e
    <3>5. QED
      BY <1>3, <3>1, <3>3, <3>4 DEF Goal, Greater, Lesser
  <2>3. QED
    BY <2>1, <2>2
<1>11. CASE d[x] > l
  BY <1>3, <1>10, <1>11
<1>12. CASE d[x] = l
  <2>1. SUFFICES ASSUME b \in Y PROVE Before(b, x)
    BY <1>3, <1>10, <1>12
  <2>2. x \notin Y /\ r[x] = l /\ x \in Waiting(u, r, l, dem, hld)
    BY <1>1, <1>2, <1>3, <1>12 DEF Waiting, Eligible
  <2>3. CASE x \in U
    BY <1>1, <2>1, <2>2, <2>3
  <2>4. CASE x \notin U
    <3>1. /\ Cardinality(U \cap M) = Room(u, r, act)
          /\ \A y \in U \cap M : Before(y, x)
      BY <1>5, <2>2, <2>4 DEF IsChosen
    <3>2. CASE t = u
      BY <1>1, <1>3, <2>1, <3>1, <3>2
    <3>3. CASE Given(d, act, M) < tb
      <4>1. Y \cap M # U \cap M
        <5> HIDE DEF M, tb, u
        <5>1. Cardinality(Y \cap M) # Cardinality(U \cap M)
          BY <1>7, <1>8, <3>1, <3>3
        <5>2. QED
          BY <5>1
      <4>2. PICK y \in U \cap M : y \notin Y
        BY <1>1, <4>1
      <4>3. Before(b, y) /\ Before(y, x)
        BY <1>1, <2>1, <3>1, <4>2
      <4>4. QED
        BY <1>2, <4>2, <4>3, BeforeIsOrder
    <3>4. QED
      BY <3>2, <3>3
  <2>5. QED
    BY <2>3, <2>4
<1>13. CASE d[x] < l
  <2>1. x \notin Y /\ r[x] = d[x]
    BY <1>1, <1>2, <1>3, <1>13
  <2>2. CASE r[x] = Goal(c, x, l)
    <3>1. r[x] = c[x].ceiling /\ c[x].ceiling < dem[x]
      BY <1>3, <1>9, <1>13, <2>1, <2>2 DEF Goal, Greater, Lesser
    <3>2. d[x] - act[x] = Lesser(budget, tb)
      <4> HIDE DEF c, tb, u
      <4>1. QED
        BY <1>3, <1>7, <1>9, <2>1, <3>1 DEF Lesser
    <3>3. SUFFICES ASSUME b # x PROVE FALSE
      BY <1>3
    <3>4. (d[b] - act[b]) + (d[x] - act[x]) <= Given(d, act, Bindings)
      BY <1>1, <3>3, GivenFacts DEF Given
    <3>5. d[x] - act[x] <= Given(d, act, M) /\ (t = u => (d[b] - act[b]) + (d[x] - act[x]) <= Given(d, act, M))
      <4>1. M \in SUBSET Bindings /\ GivesOwed(d, M, act, dem, hld)
        BY <1>1, <1>3, BindingsFinite DEF GivesOwed
      <4>2. QED
        BY <1>1, <1>3, <3>3, <4>1, GivenFacts DEF Given
    <3>6. t = u \/ Given(d, act, M) < tb
      OBVIOUS
    <3> HIDE DEF tb, M, t, u
    <3>7. QED
      BY <1>1, <1>3, <1>7, <1>8, <3>2, <3>4, <3>5, <3>6 DEF Lesser
  <2>3. CASE r[x] # Goal(c, x, l)
    <3>1. Given(r, act, M) = tb
      BY <1>6, <1>9, <2>3 DEF TierRaised
    <3>2. U \cap M = {}
      <4>1. Cardinality(U \cap M) = 0
        BY <1>5, <1>7, <3>1 DEF IsChosen
      <4>2. IsFiniteSet(U \cap M)
        BY <1>2, BindingsFinite, FS_Subset
      <4>3. QED
        BY <4>1, <4>2, FS_EmptySet
    <3>3. t = u
      BY <1>7, <1>8, <3>1
    <3>4. b \notin Y /\ r[b] = d[b] /\ r[b] > act[b]
      BY <1>1, <1>3, <3>2, <3>3
    <3>5. b \in DOMAIN c
      BY <1>3, <1>6, <3>3, <3>4 DEF TierRaised
    <3>6. r[x] < Lesser(c[x].ceiling, l)
      BY <1>3, <1>9, <2>3 DEF Goal, Greater, Lesser
    <3>7. QED
      BY <1>6, <1>9, <2>1, <3>4, <3>5, <3>6 DEF TierRaised
  <2>4. QED
    BY <2>2, <2>3
<1>14. QED
  BY <1>3, <1>11, <1>12, <1>13

-----------------------------------------------------------------------------
(* The level of the instance *)

\* The tiers with credit, with their budgets and candidates.
AreTiers(tiers, budget, act, dem, hld) ==
  /\ DOMAIN tiers = Rich(act)
  /\ \A t \in Rich(act) :
       /\ tiers[t].budget = TierBudget(t, act)
       /\ TierCandidates(tiers[t].candidates, t, budget, act, dem, hld)

\* The candidates of every tier that takes part.
CandidatesOf(tiers) == [t \in DOMAIN tiers |-> tiers[t].candidates]

\* The tiers the code collects are the tiers with credit.
LEMMA TierAllocationsFacts ==
  ASSUME NEW act \in [Bindings -> Nat], NEW dem \in [Bindings -> Nat], NEW hld \in BOOLEAN, NEW budget \in Nat \ {0}
  PROVE  AreTiers(TierAllocations(act, dem, hld, budget), budget, act, dem, hld)
<1> DEFINE tiers == TierAllocations(act, dem, hld, budget)
<1>1. DOMAIN tiers = Rich(act)
  BY DEF TierAllocations, Rich
<1>2. ASSUME NEW t \in Rich(act)
      PROVE  /\ tiers[t].budget = TierBudget(t, act)
             /\ TierCandidates(tiers[t].candidates, t, budget, act, dem, hld)
  <2> DEFINE m == Lesser(budget, TierBudget(t, act))
             c == Candidates(Members(t), act, dem, hld, m)
  <2>1. tiers[t].budget = TierBudget(t, act) /\ tiers[t].candidates = c
    BY DEF TierAllocations, Rich
  <2>2. m \in Nat \ {0}
    BY BudgetType DEF Rich, Lesser
  <2> HIDE DEF m
  <2>3. /\ DOMAIN c = {x \in Members(t) : ~hld /\ dem[x] > act[x]}
        /\ c = [b \in DOMAIN c |-> Candidate(b, act, dem, m)]
    BY DEF Candidates
  <2> HIDE DEF c
  <2>4. DOMAIN c \in SUBSET Bindings /\ \A x \in DOMAIN c : dem[x] > act[x]
    BY <2>3 DEF Members
  <2>5. /\ IsCandidates(c)
        /\ \A b \in DOMAIN c :
             /\ c[b].floor = act[b] /\ c[b].ceiling \in Nat /\ act[b] < c[b].ceiling
             /\ c[b].ceiling <= dem[b]
             /\ c[b].ceiling < dem[b] => c[b].ceiling = act[b] + m
    BY <2>2, <2>3, <2>4, CandidateFacts
  <2>6. TierCandidates(c, t, budget, act, dem, hld)
    BY <2>3, <2>5 DEF TierCandidates, m
  <2>7. QED
    BY <2>1, <2>6
<1>3. QED
  BY <1>1, <1>2 DEF AreTiers

\* What a level costs the instance.
LEMMA TierCredits ==
  ASSUME NEW act \in [Bindings -> Nat], NEW dem \in [Bindings -> Nat], NEW hld \in BOOLEAN, NEW budget \in Nat \ {0},
         NEW tiers, AreTiers(tiers, budget, act, dem, hld), NEW l \in Int
  PROVE  /\ CreditsOfTiers(tiers, l) =
              Total([t \in Rich(act) |-> Lesser(TierBudget(t, act), CreditsAtLevel(CandidatesOf(tiers)[t], l))],
                    Rich(act))
         /\ CreditsOfTiers(tiers, l) \in Int
<1> DEFINE s == [t \in Rich(act) |-> Lesser(TierBudget(t, act), CreditsAtLevel(CandidatesOf(tiers)[t], l))]
<1>1. ASSUME NEW t \in Rich(act)
      PROVE  s[t] \in Int /\ s[t] = Lesser(tiers[t].budget, CreditsAtLevel(tiers[t].candidates, l))
  <2>1. /\ tiers[t].budget = TierBudget(t, act) /\ CandidatesOf(tiers)[t] = tiers[t].candidates
        /\ IsCandidates(tiers[t].candidates)
    BY DEF AreTiers, CandidatesOf, TierCandidates
  <2>2. TierBudget(t, act) \in Int
    BY BudgetType DEF Rich
  <2>3. CreditsAtLevel(tiers[t].candidates, l) \in Int
    BY <2>1, CreditsAreGrowth
  <2>4. QED
    BY <2>1, <2>2, <2>3 DEF Lesser
<1>2. CreditsOfTiers(tiers, l) = Total(s, Rich(act))
  <2>1. DOMAIN tiers = Rich(act)
    BY DEF AreTiers
  <2>2. [t \in DOMAIN tiers |-> Lesser(tiers[t].budget, CreditsAtLevel(tiers[t].candidates, l))] = s
    BY <1>1, <2>1
  <2>3. QED
    BY <2>1, <2>2 DEF CreditsOfTiers
<1>3. IsFiniteSet(Rich(act)) /\ \A t \in Rich(act) : s[t] \in Int
  BY <1>1, TiersFinite, FS_Subset DEF Rich
<1> HIDE DEF s
<1>4. QED
  BY <1>2, <1>3, TotalInt DEF s

\* The instance's level fits the budget and no higher one does.
LEMMA GlobalLevelFacts ==
  ASSUME NEW act \in [Bindings -> Nat], NEW dem \in [Bindings -> Nat], NEW hld \in BOOLEAN, NEW budget \in Nat \ {0},
         NEW tiers, AreTiers(tiers, budget, act, dem, hld), NEW l, l = GlobalLevel(tiers, budget),
         \E t \in DOMAIN tiers : DOMAIN tiers[t].candidates # {}
  PROVE  /\ l \in Nat /\ CreditsOfTiers(tiers, l) <= budget
         /\ HighestLevel(CandidatesOf(tiers), l, budget, act)
<1> DEFINE cand == CandidatesOf(tiers)
           D == {b \in Bindings : TierOf[b] \in Rich(act) /\ b \in DOMAIN cand[TierOf[b]]}
           all == UNION {Range(tiers[t].candidates) : t \in DOMAIN tiers}
           A == {c.floor : c \in all}
           Z == {c.ceiling : c \in all}
           f == [b \in D |-> cand[TierOf[b]][b].floor]
           h == [b \in D |-> cand[TierOf[b]][b].ceiling]
           lo == Min(A)
           hi == Max(Z)
           fits == {m \in lo..hi : CreditsOfTiers(tiers, m) <= budget}
<1>1. l = LargestLevel(lo, hi, fits)
  BY DEF GlobalLevel
<1>2. DOMAIN tiers = Rich(act) /\ \A t \in Rich(act) : cand[t] = tiers[t].candidates
  BY DEF AreTiers, CandidatesOf
<1>3. \A t \in Rich(act) : TierCandidates(cand[t], t, budget, act, dem, hld)
  BY <1>2 DEF AreTiers
<1> HIDE DEF cand
<1>4. ASSUME NEW t \in Rich(act), NEW b \in DOMAIN cand[t]
      PROVE  /\ b \in D /\ TierOf[b] = t /\ cand[t][b].floor \in Nat /\ cand[t][b].ceiling \in Nat
             /\ cand[t][b].floor < cand[t][b].ceiling
  <2>1. b \in Members(t) /\ cand[t][b].floor = act[b] /\ cand[t][b].ceiling \in Nat /\ act[b] < cand[t][b].ceiling
    BY <1>3 DEF TierCandidates
  <2>2. QED
    BY <2>1 DEF Members
<1>5. \A b \in D : f[b] \in Nat /\ h[b] \in Nat /\ f[b] < h[b]
  BY <1>4
<1>6. all = {cand[TierOf[b]][b] : b \in D}
  <2>1. ASSUME NEW c \in all PROVE \E b \in D : c = cand[TierOf[b]][b]
    <3>1. PICK t \in Rich(act) : c \in Range(cand[t])
      BY <1>2
    <3>2. PICK b \in DOMAIN cand[t] : c = cand[t][b]
      BY <3>1 DEF Range
    <3>3. QED
      BY <1>4, <3>2
  <2>2. ASSUME NEW b \in D PROVE cand[TierOf[b]][b] \in all
    BY <1>2 DEF Range
  <2> HIDE DEF all
  <2>3. QED
    BY <2>1, <2>2
<1>7. D # {} /\ IsFiniteSet(D)
  <2>1. PICK t \in Rich(act) : DOMAIN cand[t] # {}
    BY <1>2
  <2>2. D # {}
    BY <1>4, <2>1
  <2>3. QED
    BY <2>2, BindingsFinite, FS_Subset
<1> HIDE DEF all
<1>8. A = {f[b] : b \in D} /\ Z = {h[b] : b \in D}
  BY <1>6
<1> HIDE DEF D, f, h, A, Z
<1>9. f \in Surjection(D, A) /\ h \in Surjection(D, Z)
  BY <1>8 DEF Surjection, f, h
<1>10. /\ A \in SUBSET Int /\ IsFiniteSet(A) /\ A # {} /\ A \in SUBSET Nat
       /\ Z \in SUBSET Int /\ IsFiniteSet(Z) /\ Z # {} /\ Z \in SUBSET Nat
  <2>1. IsFiniteSet(A) /\ IsFiniteSet(Z)
    BY <1>7, <1>9, FS_Surjection
  <2>2. QED
    BY <1>5, <1>7, <1>8, <2>1
<1>11. lo \in Nat /\ hi \in Nat /\ (\A b \in D : lo <= f[b] /\ h[b] <= hi)
  <2>1. lo \in A /\ (\A y \in A : lo <= y) /\ hi \in Z /\ (\A y \in Z : y <= hi)
    BY <1>10, MinMax
  <2> HIDE DEF lo, hi
  <2>2. QED
    BY <1>8, <1>10, <2>1
<1> HIDE DEF lo, hi
<1>12. lo <= hi
  BY <1>5, <1>7, <1>11
<1>13. CreditsOfTiers(tiers, lo) = 0
  <2> DEFINE s == [t \in Rich(act) |-> Lesser(TierBudget(t, act), CreditsAtLevel(cand[t], lo))]
  <2>1. CreditsOfTiers(tiers, lo) = Total(s, Rich(act))
    BY <1>11, TierCredits DEF cand
  <2>2. ASSUME NEW t \in Rich(act) PROVE s[t] = 0
    <3> DEFINE c == cand[t]
               k == [b \in DOMAIN c |-> Greater(0, Lesser(c[b].ceiling, lo) - c[b].floor)]
    <3>1. IsCandidates(c)
      BY <1>3 DEF TierCandidates
    <3>2. IsFiniteSet(DOMAIN c)
      BY <3>1, CandidateTypes
    <3>3. ASSUME NEW b \in DOMAIN c PROVE k[b] = 0
      <4>1. c[b].floor \in Nat /\ c[b].ceiling \in Nat /\ lo <= c[b].floor
        BY <1>4, <1>11 DEF f
      <4>2. k[b] = Greater(0, Lesser(c[b].ceiling, lo) - c[b].floor)
        OBVIOUS
      <4> HIDE DEF c, k
      <4>3. QED
        BY <1>11, <4>1, <4>2 DEF Greater, Lesser
    <3>4. CreditsAtLevel(c, lo) = Total(k, DOMAIN c)
      BY DEF CreditsAtLevel
    <3> HIDE DEF k
    <3>5. CreditsAtLevel(c, lo) = 0
      BY <3>2, <3>3, <3>4, TotalZero
    <3>6. TierBudget(t, act) \in Int /\ TierBudget(t, act) > 0
      BY BudgetType DEF Rich
    <3>7. QED
      BY <3>5, <3>6 DEF Lesser
  <2>3. IsFiniteSet(Rich(act))
    BY TiersFinite, FS_Subset DEF Rich
  <2> HIDE DEF s
  <2>4. QED
    BY <2>1, <2>2, <2>3, TotalZero
<1>14. lo \in fits
  BY <1>11, <1>12, <1>13
<1>15. l \in lo..hi /\ l \in fits /\ (l # hi => l + 1 \notin fits)
  <2> HIDE DEF fits
  <2>1. QED
    BY <1>1, <1>11, <1>12, <1>14, LargestLevelFits
<1>16. l \in Nat /\ CreditsOfTiers(tiers, l) <= budget
  BY <1>11, <1>15
<1>17. HighestLevel(cand, l, budget, act)
  <2>1. CASE l = hi
    <3>1. ASSUME NEW t \in Rich(act), NEW b \in DOMAIN cand[t] PROVE cand[t][b].ceiling <= l
      BY <1>4, <1>11, <2>1 DEF h
    <3>2. QED
      BY <3>1 DEF HighestLevel
  <2>2. CASE l # hi
    <3>1. l + 1 \in lo..hi /\ l + 1 \in Int
      BY <1>11, <1>15, <2>2
    <3>2. ~(CreditsOfTiers(tiers, l + 1) <= budget)
      BY <1>15, <2>2, <3>1
    <3>3. /\ CreditsOfTiers(tiers, l + 1) =
               Total([t \in Rich(act) |-> Lesser(TierBudget(t, act), CreditsAtLevel(cand[t], l + 1))], Rich(act))
          /\ CreditsOfTiers(tiers, l + 1) \in Int
      BY <3>1, TierCredits DEF cand
    <3>4. QED
      BY <3>2, <3>3 DEF HighestLevel
  <2>3. QED
    BY <2>1, <2>2
<1>18. QED
  BY <1>16, <1>17 DEF cand

\* The tiers raised to a level that fits, each within its own budget.
LEMMA RaiseTiersFacts ==
  ASSUME NEW act \in [Bindings -> Nat], NEW dem \in [Bindings -> Nat], NEW hld \in BOOLEAN, NEW budget \in Nat \ {0},
         NEW tiers, AreTiers(tiers, budget, act, dem, hld), NEW l \in Nat, CreditsOfTiers(tiers, l) <= budget,
         NEW r, r = RaiseTiers(tiers, act, l)
  PROVE  /\ r \in [Bindings -> Nat] /\ RaisedTogether(r, CandidatesOf(tiers), l, budget, act, dem, hld)
         /\ Given(r, act, Bindings) <= budget
<1> DEFINE cand == CandidatesOf(tiers)
           T == Rich(act)
           s == [t \in T |-> Lesser(TierBudget(t, act), CreditsAtLevel(cand[t], l))]
           g == [t \in Tiers |-> Given(r, act, Members(t))]
<1>1. /\ DOMAIN tiers = T /\ T \subseteq Tiers
      /\ \A t \in T : /\ cand[t] = tiers[t].candidates /\ tiers[t].budget = TierBudget(t, act)
                      /\ TierCandidates(cand[t], t, budget, act, dem, hld)
  BY DEF AreTiers, CandidatesOf, Rich
<1>2. /\ \A t \in T : \A b \in Members(t) : r[b] = Overlay(act, WaterFill(cand[t], TierBudget(t, act), l))[b]
      /\ \A t \in Tiers \ T : \A b \in Members(t) : r[b] = act[b]
      /\ r = [b \in Bindings |-> r[b]]
  <2>1. r = [b \in Bindings |-> IF TierOf[b] \notin DOMAIN tiers THEN act[b]
                ELSE Overlay(act, WaterFill(tiers[TierOf[b]].candidates, tiers[TierOf[b]].budget, l))[b]]
    BY DEF RaiseTiers
  <2>2. \A t \in Tiers : \A b \in Members(t) : b \in Bindings /\ TierOf[b] = t
    BY DEF Members
  <2>3. QED
    BY <1>1, <2>1, <2>2
<1> HIDE DEF cand, T
<1>3. ASSUME NEW t \in T, NEW b \in Members(t) PROVE Overlay(act, WaterFill(cand[t], TierBudget(t, act), l))[b] \in Nat
  <2> DEFINE c == cand[t]
             tb == TierBudget(t, act)
             w == WaterFill(c, tb, l)
  <2>1. IsCandidates(c) /\ tb \in Nat \ {0} /\ b \in Bindings
    <3>1. TierCandidates(c, t, budget, act, dem, hld) /\ t \in Tiers /\ tb > 0
      BY <1>1 DEF T, Rich
    <3>2. tb \in Int
      BY <3>1, BudgetType
    <3>3. QED
      BY <3>1, <3>2 DEF TierCandidates, Members
  <2> HIDE DEF c, tb
  <2>2. IsFill(w, Capped(c, l), tb)
    BY <2>1, WaterFillIsFill
  <2> HIDE DEF w
  <2>3. w \in [DOMAIN Capped(c, l) -> Nat]
    BY <2>2 DEF IsFill
  <2>4. Overlay(act, w)[b] \in Nat
    BY <2>1, <2>3 DEF Overlay
  <2>5. QED
    BY <2>4 DEF w, c, tb
<1>4. r \in [Bindings -> Nat]
  <2>1. ASSUME NEW b \in Bindings PROVE r[b] \in Nat
    <3>1. TierOf[b] \in Tiers /\ b \in Members(TierOf[b])
      BY TierOfBinding
    <3>2. QED
      BY <1>2, <1>3, <3>1
  <2>2. QED
    BY <1>2, <2>1
<1>5. ASSUME NEW t \in T PROVE TierRaised(r, cand[t], t, l, act)
  <2> DEFINE c == cand[t]
  <2>1. /\ t \in Tiers /\ TierBudget(t, act) > 0 /\ TierCandidates(c, t, budget, act, dem, hld)
        /\ \A b \in Members(t) : r[b] = Overlay(act, WaterFill(c, TierBudget(t, act), l))[b]
    BY <1>1, <1>2 DEF T, Rich
  <2> HIDE DEF c
  <2>2. TierRaised(r, c, t, l, act)
    BY <1>4, <2>1, RaisedTier
  <2>3. QED
    BY <2>2 DEF c
<1>6. RaisedTogether(r, cand, l, budget, act, dem, hld)
  BY <1>1, <1>2, <1>5 DEF RaisedTogether, T
<1>7. CreditsOfTiers(tiers, l) = Total(s, T) /\ CreditsOfTiers(tiers, l) \in Int
  BY TierCredits DEF cand, T
<1>8. \A t \in T : g[t] = s[t]
  BY <1>1, <1>5 DEF TierRaised
<1>9. \A t \in Tiers \ T : g[t] = 0
  BY <1>4, <1>6, RaisedFacts DEF T
<1>10. Given(r, act, Bindings) = Total(g, Tiers) /\ \A t \in Tiers : g[t] \in Int
  BY <1>4, GivenByTier
<1> HIDE DEF s, g
<1>11. IsFiniteSet(T) /\ T \in SUBSET Tiers
  BY <1>1, TiersFinite, FS_Subset
<1>12. Total(g, Tiers) = Total(g, T)
  BY <1>9, <1>10, <1>11, TiersFinite, TotalOutside
<1>13. Total(g, T) = Total(s, T)
  BY <1>8, <1>10, <1>11, TotalSame
<1>14. QED
  BY <1>4, <1>6, <1>7, <1>10, <1>12, <1>13 DEF cand

\* What sharing the instance's limit promises, without the algorithm.
SharedFairly(d, budget, act, dem, hld) ==
  /\ d \in [Bindings -> Nat] /\ GivesOwed(d, Bindings, act, dem, hld)
  /\ \A t \in Tiers : Given(d, act, Members(t)) <= TierShare(t, act, dem, hld)
  /\ Given(d, act, Bindings) = Lesser(budget, Total([t \in Tiers |-> TierShare(t, act, dem, hld)], Tiers))
  /\ \A b, x \in Bindings :
       (/\ d[b] > act[b] /\ ~hld /\ d[x] < dem[x]
        /\ TierOf[b] = TierOf[x] \/ Given(d, act, Members(TierOf[x])) < TierBudget(TierOf[x], act))
       => d[b] <= d[x] \/ (d[b] = d[x] + 1 /\ Before(b, x))

\* The highest level that fits, and the rest handed out in order, is fair.
LEMMA AtLevelIsFair ==
  ASSUME NEW act \in [Bindings -> Nat], NEW dem \in [Bindings -> Nat], NEW hld \in BOOLEAN, NEW budget \in Nat \ {0},
         NEW l \in Nat, NEW cand, NEW r \in [Bindings -> Nat], NEW Y, NEW d,
         RestHandedOut(d, r, Y, cand, l, budget, act, dem, hld), HighestLevel(cand, l, budget, act)
  PROVE  SharedFairly(d, budget, act, dem, hld)
<1>1. PICK U : U = Chosen(r, l, act, dem, hld)
  OBVIOUS
<1>2. RaisedTogether(r, cand, l, budget, act, dem, hld)
  BY DEF RestHandedOut
<1>3. IsChosen(U, r, l, act, dem, hld)
  BY <1>1, <1>2, ChosenFacts
<1>4. IsHandedOut(d, r, Y, U, budget, act, dem, hld)
  BY <1>1, HandedOutFacts
<1>5. d \in [Bindings -> Nat] /\ GivesOwed(d, Bindings, act, dem, hld)
  BY <1>4 DEF IsHandedOut
<1>6. /\ Given(d, act, Bindings) = Lesser(budget, Total([t \in Tiers |-> TierShare(t, act, dem, hld)], Tiers))
      /\ \A t \in Tiers : Given(d, act, Members(t)) <= TierShare(t, act, dem, hld)
  BY <1>2, <1>3, <1>4, InstanceIsGiven
<1>7. ASSUME NEW b \in Bindings, NEW x \in Bindings, d[b] > act[b], ~hld, d[x] < dem[x],
             TierOf[b] = TierOf[x] \/ Given(d, act, Members(TierOf[x])) < TierBudget(TierOf[x], act)
      PROVE  d[b] <= d[x] \/ (d[b] = d[x] + 1 /\ Before(b, x))
  BY <1>2, <1>3, <1>4, <1>7, RivalsAreServed
<1>8. QED
  BY <1>5, <1>6, <1>7 DEF SharedFairly

\* Tiers that share the instance's limit are served fairly.
LEMMA TiersAreFair ==
  ASSUME NEW act \in [Bindings -> Nat], NEW dem \in [Bindings -> Nat], NEW hld \in BOOLEAN, NEW budget \in Nat \ {0},
         NEW tiers, AreTiers(tiers, budget, act, dem, hld), \E t \in DOMAIN tiers : DOMAIN tiers[t].candidates # {},
         NEW d, d = AllocateTiers(tiers, act, dem, hld, budget)
  PROVE  SharedFairly(d, budget, act, dem, hld)
<1> DEFINE l == GlobalLevel(tiers, budget)
           r == RaiseTiers(tiers, act, l)
           cand == CandidatesOf(tiers)
           U == Chosen(r, l, act, dem, hld)
           Y == FirstOf(budget - Given(r, act, Bindings), U)
<1>1. /\ l \in Nat /\ CreditsOfTiers(tiers, l) <= budget /\ HighestLevel(cand, l, budget, act)
  BY GlobalLevelFacts
<1>2. d = HandOutRest(r, tiers, act, dem, hld, budget, l)
  BY DEF AllocateTiers, AllocateAtLevel
<1> HIDE DEF l
<1>3. /\ r \in [Bindings -> Nat] /\ RaisedTogether(r, cand, l, budget, act, dem, hld)
      /\ Given(r, act, Bindings) <= budget
  BY <1>1, RaiseTiersFacts
<1> HIDE DEF r, cand
<1>4. d = HandOut(r, Y)
  <2> DEFINE E == Eligible(r, l, dem, hld)
             room(t) == tiers[t].budget - (Total(r, Members(t)) - Total(act, Members(t)))
  <2>1. d = HandOut(r, FirstOf(budget - Spent(r, act),
                               UNION {FirstOf(room(t), E \cap Members(t)) : t \in DOMAIN tiers}))
    BY <1>2 DEF HandOutRest, Eligible
  <2>2. Spent(r, act) = Given(r, act, Bindings)
    <3>1. DOMAIN r = Bindings
      BY <1>3
    <3>2. QED
      BY <3>1 DEF Spent, Given
  <2>3. DOMAIN tiers = Rich(act) /\ \A t \in Rich(act) : room(t) = Room(t, r, act)
    BY DEF AreTiers, Room, Given
  <2>4. {FirstOf(room(t), E \cap Members(t)) : t \in DOMAIN tiers}
          = {FirstOf(Room(t, r, act), Waiting(t, r, l, dem, hld)) : t \in Rich(act)}
    <3> HIDE DEF room
    <3>1. \A t \in Rich(act) :
            FirstOf(room(t), E \cap Members(t)) = FirstOf(Room(t, r, act), Waiting(t, r, l, dem, hld))
      BY <2>3 DEF Waiting
    <3>2. QED
      BY <2>3, <3>1
  <2>5. QED
    BY <2>1, <2>2, <2>4 DEF Chosen
<1>5. RestHandedOut(d, r, Y, cand, l, budget, act, dem, hld)
  BY <1>3, <1>4 DEF RestHandedOut
<1> HIDE DEF Y, U
<1>6. QED
  BY <1>1, <1>3, <1>5, AtLevelIsFair

\* Giving nothing is fair when there is nothing to give or nobody to give to.
LEMMA NothingIsFair ==
  ASSUME NEW act \in [Bindings -> Nat], NEW dem \in [Bindings -> Nat], NEW hld \in BOOLEAN, NEW budget \in Nat,
         budget = 0 \/ \A t \in Rich(act) : \A b \in Members(t) : ~hld => act[b] >= dem[b]
  PROVE  SharedFairly(act, budget, act, dem, hld)
<1> DEFINE s == [t \in Tiers |-> TierShare(t, act, dem, hld)]
<1>1. GivesOwed(act, Bindings, act, dem, hld)
  BY DEF GivesOwed
<1>2. ASSUME NEW S \in SUBSET Bindings PROVE Given(act, act, S) = 0
  <2>1. IsFiniteSet(S) /\ \A b \in S : act[b] \in Int
    BY BindingsFinite, FS_Subset
  <2>2. Total(act, S) \in Int
    BY <2>1, TotalInt
  <2>3. QED
    BY <2>2 DEF Given
<1>3. ASSUME NEW t \in Tiers
      PROVE  /\ s[t] \in Nat /\ Given(act, act, Members(t)) <= s[t]
             /\ budget # 0 => s[t] = 0
  <2>1. Given(act, act, Members(t)) = 0
    BY <1>2, BindingsFinite
  <2>2. t \in Rich(act) => Given(act, act, Members(t)) <= TierBudget(t, act)
    BY <2>1, BudgetType DEF Rich
  <2>3. /\ s[t] \in Nat /\ Given(act, act, Members(t)) <= s[t] /\ (t \notin Rich(act) => s[t] = 0)
        /\ (\A b \in Members(t) : ~hld => act[b] >= dem[b]) => s[t] <= Given(act, act, Members(t))
    BY <1>1, <2>1, <2>2, WithinShare
  <2>4. QED
    BY <2>1, <2>3
<1>4. \A t \in Tiers : Given(act, act, Members(t)) <= TierShare(t, act, dem, hld)
  BY <1>3
<1> HIDE DEF s
<1>5. Total(s, Tiers) \in Nat /\ (budget # 0 => Total(s, Tiers) = 0)
  <2>1. \A t \in Tiers : s[t] \in Nat
    BY <1>3
  <2>2. budget # 0 => \A t \in Tiers : s[t] = 0
    BY <1>3
  <2>3. QED
    BY <2>1, <2>2, TiersFinite, TotalNat, TotalZero
<1>6. Given(act, act, Bindings) = Lesser(budget, Total(s, Tiers))
  BY <1>2, <1>5 DEF Lesser
<1>7. \A b \in Bindings : ~(act[b] > act[b])
  OBVIOUS
<1>8. QED
  BY <1>1, <1>4, <1>6, <1>7 DEF SharedFairly, s

\* A shared plan that keeps these promises is max-min fair.
LEMMA SharedFairlyIsFair ==
  ASSUME Global > 0, NEW act \in [Bindings -> Nat], NEW dem \in [Bindings -> Nat], NEW hld \in BOOLEAN, NEW d,
         SharedFairly(d, Free(Global, act, Bindings), act, dem, hld)
  PROVE  d \in [Bindings -> Nat] /\ MaxMinFair(d, act, dem, hld)
<1>1. d \in [Bindings -> Nat] /\ GivesOwed(d, Bindings, act, dem, hld)
  BY DEF SharedFairly
<1>2. /\ Total(d, Bindings) - Total(act, Bindings) = Lesser(Free(Global, act, Bindings),
           Total([t \in Tiers |-> TierShare(t, act, dem, hld)], Tiers))
      /\ \A t \in Tiers : Total(d, Members(t)) - Total(act, Members(t)) <= TierShare(t, act, dem, hld)
  BY DEF SharedFairly, Given
<1>3. \A b \in Bindings : d[b] = act[b] \/ (~hld /\ d[b] > act[b] /\ d[b] <= dem[b])
  BY <1>1 DEF GivesOwed
<1>4. ASSUME NEW b \in Bindings, NEW x \in Bindings, d[b] > act[b], ~hld, d[x] < dem[x],
             TierOf[b] = TierOf[x] \/ ~(Total(d, Members(TierOf[x])) >= Parallelism[TierOf[x]])
      PROVE  d[b] <= d[x] \/ (d[b] = d[x] + 1 /\ Before(b, x))
  <2> DEFINE t == TierOf[x]
  <2>1. t \in Tiers
    BY TierOfBinding
  <2> HIDE DEF t
  <2>2. /\ TierBudget(t, act) = Parallelism[t] - Total(act, Members(t))
        /\ Parallelism[t] \in Int /\ Total(act, Members(t)) \in Int
    BY <2>1, BudgetType
  <2>3. Total(d, Members(t)) \in Int
    BY <1>1, <2>1, BindingsFinite, TotalInt
  <2>4. ~(Total(d, Members(t)) >= Parallelism[t]) => Given(d, act, Members(t)) < TierBudget(t, act)
    BY <2>2, <2>3 DEF Given
  <2>5. QED
    BY <1>4, <2>4 DEF SharedFairly, t
<1>5. QED
  BY <1>1, <1>2, <1>3, <1>4 DEF MaxMinFair

\* The tiers of an instance with a limit of its own are served fairly.
LEMMA InstanceIsFair ==
  ASSUME Global > 0, NEW act \in [Bindings -> Nat], NEW dem \in [Bindings -> Nat], NEW hld \in BOOLEAN,
         NEW d, d = Allocated(act, dem, hld)
  PROVE  d \in [Bindings -> Nat] /\ MaxMinFair(d, act, dem, hld)
<1> DEFINE budget == Global - Total(act, Bindings)
           free == Free(Global, act, Bindings)
           tiers == TierAllocations(act, dem, hld, budget)
<1>1. budget \in Int /\ free = Greater(0, budget)
  <2>1. Total(act, Bindings) \in Int /\ Global \in Int
    BY BindingsFinite, TotalInt, PlanAssumption
  <2>2. QED
    BY <2>1 DEF Free
<1>2. d = IF budget <= 0 THEN act ELSE AllocateTiers(tiers, act, dem, hld, budget)
  BY DEF Allocated, AllocateGlobal
<1> HIDE DEF budget, free
<1>3. SharedFairly(d, free, act, dem, hld)
  <2>1. CASE budget <= 0
    <3>1. d = act /\ free = 0 /\ free \in Nat
      BY <1>1, <1>2, <2>1 DEF Greater
    <3>2. QED
      BY <3>1, NothingIsFair
  <2>2. CASE ~(budget <= 0)
    <3>1. budget \in Nat \ {0} /\ free = budget /\ d = AllocateTiers(tiers, act, dem, hld, budget)
      BY <1>1, <1>2, <2>2 DEF Greater
    <3>2. AreTiers(tiers, budget, act, dem, hld)
      BY <3>1, TierAllocationsFacts
    <3> HIDE DEF tiers
    <3>3. CASE \A t \in DOMAIN tiers : DOMAIN tiers[t].candidates = {}
      <4>1. d = act
        BY <3>1, <3>3 DEF AllocateTiers
      <4>2. ASSUME NEW t \in Rich(act), NEW b \in Members(t), ~hld PROVE act[b] >= dem[b]
        <5>1. {x \in Members(t) : ~hld /\ dem[x] > act[x]} = {}
          BY <3>2, <3>3 DEF AreTiers, TierCandidates
        <5>2. b \in Bindings
          BY DEF Members
        <5>3. QED
          BY <4>2, <5>1, <5>2
      <4>3. QED
        BY <3>1, <4>1, <4>2, NothingIsFair
    <3>4. CASE ~\A t \in DOMAIN tiers : DOMAIN tiers[t].candidates = {}
      <4>1. \E t \in DOMAIN tiers : DOMAIN tiers[t].candidates # {}
        BY <3>4
      <4>2. QED
        BY <3>1, <3>2, <4>1, TiersAreFair
    <3>5. QED
      BY <3>3, <3>4
  <2>3. QED
    BY <2>1, <2>2
<1>4. QED
  BY <1>3, SharedFairlyIsFair DEF free

\* For any limits, any number of bindings and tiers, and any running and
\* committed work: what allocateGlobal and allocateTier give out is
\* max-min fair.
THEOREM AllocationIsFair ==
  ASSUME NEW act \in [Bindings -> Nat], NEW dem \in [Bindings -> Nat], NEW hld \in BOOLEAN
  PROVE  /\ Allocated(act, dem, hld) \in [Bindings -> Nat]
         /\ MaxMinFair(Allocated(act, dem, hld), act, dem, hld)
<1>1. CASE Global > 0
  BY <1>1, InstanceIsFair
<1>2. CASE ~(Global > 0)
  BY <1>2, ApartIsFair
<1>3. QED
  BY <1>1, <1>2

\* A plan announces a number for every binding.
LEMMA BuildPlanType ==
  ASSUME NEW act \in [Bindings -> Nat], NEW dem \in [Bindings -> Nat], NEW hld \in BOOLEAN, NEW cur
  PROVE  BuildPlan(act, dem, hld, cur) \in [Bindings -> Nat]
<1> DEFINE d == Allocated(act, dem, hld)
<1>1. d \in [Bindings -> Nat]
  BY AllocationIsFair
<1> HIDE DEF d
<1>2. SetDiscovery(d, act, dem, hld, cur) \in [Bindings -> Nat]
  BY <1>1 DEF SetDiscovery
<1>3. QED
  BY <1>2 DEF BuildPlan, d

-----------------------------------------------------------------------------
(* The plan: what is owed, and the discovery credit *)

\* One credit for one binding of a set whose limit is not reached keeps it.
LEMMA DiscoveryFits ==
  ASSUME NEW S \in SUBSET Bindings, NEW d \in [Bindings -> Nat], NEW p \in [Bindings -> Nat],
         NEW limit \in Nat, NEW base \in Nat, Total(d, S) <= Greater(limit, base),
         \A b \in S : p[b] # d[b] => d[b] = 0 /\ p[b] = 1 /\ Total(d, S) < limit,
         \A b, c \in S : p[b] # d[b] /\ p[c] # d[c] => b = c
  PROVE  Total(p, S) <= Greater(limit, base)
<1>1. IsFiniteSet(S) /\ (\A b \in S : d[b] \in Int /\ p[b] \in Int)
  BY BindingsFinite, FS_Subset
<1>2. Total(d, S) \in Int /\ Total(p, S) \in Int
  BY <1>1, TotalInt
<1>3. CASE \A b \in S : p[b] = d[b]
  <2>1. Total(d, S) = Total(p, S)
    BY <1>1, <1>3, TotalSame
  <2>2. QED
    BY <2>1
<1>4. CASE \E b \in S : p[b] # d[b]
  <2>1. PICK b \in S : p[b] # d[b]
    BY <1>4
  <2>2. d[b] = 0 /\ p[b] = 1 /\ Total(d, S) < limit /\ \A c \in S \ {b} : d[c] = p[c]
    BY <2>1
  <2>3. Total(p, S) = Total(d, S) + p[b] - d[b]
    BY <1>1, <2>2, TotalUpdate
  <2>4. QED
    BY <1>2, <2>2, <2>3 DEF Greater
<1>5. QED
  BY <1>3, <1>4

\* What is given out stays within the limits that what runs respects.
LEMMA AllocatedFits ==
  ASSUME NEW act \in [Bindings -> Nat], NEW dem \in [Bindings -> Nat], NEW hld \in BOOLEAN,
         NEW d \in [Bindings -> Nat], MaxMinFair(d, act, dem, hld)
  PROVE  /\ \A t \in Tiers : Total(d, Members(t)) <= Greater(Parallelism[t], Total(act, Members(t)))
         /\ Global > 0 => Total(d, Bindings) <= Greater(Global, Total(act, Bindings))
<1> DEFINE s == [t \in Tiers |-> TierShare(t, act, dem, hld)]
<1>1. GivesOwed(d, Bindings, act, dem, hld)
  BY DEF MaxMinFair, GivesOwed
<1>2. ASSUME NEW t \in Tiers PROVE Total(d, Members(t)) <= Greater(Parallelism[t], Total(act, Members(t)))
  <2> DEFINE M == Members(t)
             h == Total(Headroom(act, dem, hld), M)
  <2>1. Total(d, M) - Total(act, M) <= TierShare(t, act, dem, hld)
    BY DEF MaxMinFair
  <2>2. TierShare(t, act, dem, hld) = Lesser(Greater(0, Parallelism[t] - Total(act, M)), h)
    BY DEF TierShare, Free
  <2>3. Total(act, M) \in Nat /\ Total(d, M) \in Nat /\ h \in Nat
    <3>1. M \in SUBSET Bindings /\ GivesOwed(d, M, act, dem, hld)
      BY <1>1, BindingsFinite DEF GivesOwed
    <3>2. QED
      BY <3>1, GivenFacts
  <2>4. Parallelism[t] \in Nat
    BY PlanAssumption
  <2> HIDE DEF M, h
  <2>5. Total(d, M) <= Greater(Parallelism[t], Total(act, M))
    BY <2>1, <2>2, <2>3, <2>4 DEF Greater, Lesser
  <2>6. QED
    BY <2>5 DEF M
<1>3. ASSUME Global > 0 PROVE Total(d, Bindings) <= Greater(Global, Total(act, Bindings))
  <2>1. Total(d, Bindings) - Total(act, Bindings) = Lesser(Greater(0, Global - Total(act, Bindings)), Total(s, Tiers))
    BY <1>3 DEF MaxMinFair, Free
  <2>2. Total(act, Bindings) \in Nat /\ Total(d, Bindings) \in Nat /\ Global \in Nat
    <3>1. Total(act, Bindings) \in Nat /\ Total(d, Bindings) \in Nat
      BY BindingsFinite, TotalNat
    <3>2. QED
      BY <3>1, PlanAssumption
  <2>3. Total(s, Tiers) \in Int
    <3>1. \A t \in Tiers : s[t] \in Int
      <4>1. ASSUME NEW t \in Tiers PROVE TierShare(t, act, dem, hld) \in Int
        <5>1. Total(Headroom(act, dem, hld), Members(t)) \in Nat
          <6>1. Members(t) \in SUBSET Bindings /\ GivesOwed(d, Members(t), act, dem, hld)
            BY <1>1, BindingsFinite DEF GivesOwed
          <6>2. QED
            BY <6>1, GivenFacts
        <5>2. QED
          BY <5>1, BudgetType DEF TierShare, Lesser, Greater
      <4>2. QED
        BY <4>1
    <3> HIDE DEF s
    <3>2. QED
      BY <3>1, TiersFinite, TotalInt
  <2> HIDE DEF s
  <2>4. QED
    BY <2>1, <2>2, <2>3 DEF Greater, Lesser
<1>4. QED
  BY <1>2, <1>3

\* For any limits, any number of bindings and tiers, any running and committed
\* work and any holder of the discovery credit: the plan buildPlan publishes is
\* fair, and within the limits.
THEOREM PlansAreFair ==
  ASSUME NEW act \in [Bindings -> Nat], NEW dem \in [Bindings -> Nat], NEW hld \in BOOLEAN, NEW cur
  PROVE  /\ BuildPlan(act, dem, hld, cur) \in [Bindings -> Nat]
         /\ FairPlan(BuildPlan(act, dem, hld, cur), act, dem, hld)
<1> DEFINE d == Allocated(act, dem, hld)
           p == BuildPlan(act, dem, hld, cur)
           owed == [b \in Bindings |-> IF Silent(b, act, dem, hld) THEN 0 ELSE p[b]]
<1>1. p \in [Bindings -> Nat]
  BY BuildPlanType
<1>2. d \in [Bindings -> Nat] /\ MaxMinFair(d, act, dem, hld)
  BY AllocationIsFair
<1>3. \A b \in Bindings : p[b] = IF /\ cur[RingOf(b)] = b
                                    /\ Total(d, Members(TierOf[b])) < Parallelism[TierOf[b]]
                                    /\ Global > 0 => Total(d, Bindings) < Global
                                    /\ Silent(b, act, dem, hld)
                                 THEN 1 ELSE d[b]
  BY DEF BuildPlan, SetDiscovery
<1> HIDE DEF d, p
<1>4. \A b \in Bindings : Silent(b, act, dem, hld) => d[b] = 0
  <2>1. \A b \in Bindings : d[b] = act[b] \/ (~hld /\ d[b] > act[b] /\ d[b] <= dem[b])
    BY <1>2 DEF MaxMinFair
  <2>2. QED
    BY <1>2, <2>1 DEF Silent
<1>5. owed = d
  <2>1. \A b \in Bindings : owed[b] = d[b]
    BY <1>3, <1>4
  <2>2. QED
    BY <1>2, <2>1
<1>6. \A b \in Bindings : p[b] # d[b] =>
        /\ cur[RingOf(b)] = b /\ d[b] = 0 /\ p[b] = 1 /\ Silent(b, act, dem, hld)
        /\ Total(d, Members(TierOf[b])) < Parallelism[TierOf[b]]
        /\ Global > 0 => Total(d, Bindings) < Global
  BY <1>3, <1>4
<1>7. ASSUME NEW b \in Bindings, NEW c \in Bindings, Silent(b, act, dem, hld), Silent(c, act, dem, hld),
             p[b] > 0, p[c] > 0, RingOf(b) = RingOf(c)
      PROVE  b = c /\ p[b] = 1
  <2>1. p[b] # d[b] /\ p[c] # d[c]
    BY <1>2, <1>4, <1>7
  <2>2. QED
    BY <1>6, <1>7, <2>1
<1>8. ASSUME NEW t \in Tiers PROVE Total(p, Members(t)) <= Greater(Parallelism[t], Total(act, Members(t)))
  <2> DEFINE base == Total(act, Members(t))
             limit == Parallelism[t]
             M == Members(t)
  <2>1. base \in Nat /\ limit \in Nat /\ M \in SUBSET Bindings
    BY BudgetType, BindingsFinite
  <2>2. \A b \in M : TierOf[b] = t
    BY DEF Members
  <2>3. \A b, c \in M : RingOf(b) = RingOf(c)
    BY <2>2 DEF RingOf
  <2>4. Total(d, M) <= Greater(limit, base)
    BY <1>2, AllocatedFits
  <2>5. \A b \in M : p[b] # d[b] => d[b] = 0 /\ p[b] = 1 /\ Total(d, M) < limit
    BY <1>6, <2>1, <2>2
  <2>6. \A b, c \in M : p[b] # d[b] /\ p[c] # d[c] => b = c
    BY <1>6, <2>1, <2>3
  <2> HIDE DEF base, limit, M
  <2>7. Total(p, M) <= Greater(limit, base)
    BY <1>1, <1>2, <2>1, <2>4, <2>5, <2>6, DiscoveryFits
  <2>8. QED
    BY <2>7 DEF base, limit, M
<1>9. ASSUME Global > 0 PROVE Total(p, Bindings) <= Greater(Global, Total(act, Bindings))
  <2> DEFINE base == Total(act, Bindings)
  <2>1. base \in Nat /\ Global \in Nat
    BY BindingsFinite, TotalNat, PlanAssumption
  <2>2. Total(d, Bindings) <= Greater(Global, base)
    BY <1>2, <1>9, AllocatedFits
  <2>3. \A b \in Bindings : p[b] # d[b] => d[b] = 0 /\ p[b] = 1 /\ Total(d, Bindings) < Global
    BY <1>6, <1>9
  <2>4. \A b, c \in Bindings : p[b] # d[b] /\ p[c] # d[c] => b = c
    BY <1>6, <1>9 DEF RingOf
  <2> HIDE DEF base
  <2>5. Total(p, Bindings) <= Greater(Global, base)
    BY <1>1, <1>2, <2>1, <2>2, <2>3, <2>4, DiscoveryFits
  <2>6. QED
    BY <2>5 DEF base
<1>10. MaxMinFair(owed, act, dem, hld)
  BY <1>2, <1>5
<1>11. FairPlan(p, act, dem, hld)
  BY <1>7, <1>8, <1>9, <1>10 DEF FairPlan
<1>12. QED
  BY <1>1, <1>11 DEF p
=============================================================================
