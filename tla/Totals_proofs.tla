---------------------------- MODULE Totals_proofs ---------------------------
(***************************************************************************)
(* What Total computes for every function and every finite set.  The fold  *)
(* it is written with is a recursive function; that the recursion has a    *)
(* solution, and only one, is shown by taking a smallest set on which it   *)
(* would fail.                                                             *)
(***************************************************************************)
EXTENDS Totals, FiniteSetTheorems, WellFoundedInduction, TLAPS

\* The order of the naturals as a relation.
NatOrder == {ss \in Nat \X Nat : ss[1] < ss[2]}

\* The order of the naturals has no infinite descent.
LEMMA NatOrderWellFounded == IsWellFoundedOn(NatOrder, Nat)
<1>1. NatOrder = OpToRel(<, Nat)
  BY Zenon DEF NatOrder, OpToRel
<1>2. QED
  BY <1>1, NatLessThanWellFounded, Zenon

\* A set of naturals has a least one: induction, as a first-order fact.
LEMMA LeastNatural ==
  ASSUME NEW T \in SUBSET Nat, T # {}
  PROVE  \E n \in T : \A m \in T : n <= m
<1>1. \E n \in T : \A m \in T : ~(<<m, n>> \in NatOrder)
  BY NatOrderWellFounded, WFMin
<1>2. PICK n \in T : \A m \in T : <<m, n>> \notin NatOrder
  BY <1>1
<1>3. ASSUME NEW m \in T PROVE n <= m
  <2>1. m \in Nat /\ n \in Nat /\ <<m, n>> \notin NatOrder
    BY <1>2
  <2>2. m < n => <<m, n>> \in NatOrder
    BY <2>1 DEF NatOrder
  <2>3. QED
    BY <2>1, <2>2
<1>4. QED
  BY <1>3

\* Among some subsets of a finite set one is smallest.
LEMMA SmallestSet ==
  ASSUME NEW S, IsFiniteSet(S), NEW U \in SUBSET SUBSET S, U # {}
  PROVE  \E s \in U : \A r \in U : Cardinality(s) <= Cardinality(r)
<1> DEFINE N == {Cardinality(s) : s \in U}
<1>1. \A s \in U : IsFiniteSet(s) /\ Cardinality(s) \in Nat
  BY FS_Subset, FS_CardinalityType
<1>2. N \in SUBSET Nat /\ N # {}
  BY <1>1
<1>3. PICK n \in N : \A m \in N : n <= m
  BY <1>2, LeastNatural
<1>4. QED
  BY <1>3

\* The element of a set that the fold takes next.
PickOf(s) == CHOOSE x \in s : TRUE

\* The element the fold picks is one of the set.
LEMMA PickOfMember == \A s : s # {} => PickOf(s) \in s
BY DEF PickOf

\* The functions that solve the fold's recursion on the subsets of S.
Sums(f, S) == {g \in [SUBSET S -> Int] :
   /\ g[{}] = 0
   /\ \A s \in SUBSET S : s # {} => g[s] = f[PickOf(s)] + g[s \ {PickOf(s)}]}

\* A finite set without one of its elements is smaller by one.
LEMMA SmallerSet ==
  ASSUME NEW s, IsFiniteSet(s), NEW x \in s
  PROVE  Cardinality(s \ {x}) < Cardinality(s) /\ IsFiniteSet(s \ {x}) /\ Cardinality(s) \in Nat
     /\ Cardinality(s \ {x}) = Cardinality(s) - 1
<1>1. IsFiniteSet(s \ {x}) /\ Cardinality(s \ {x}) = Cardinality(s) - 1
  BY FS_RemoveElement
<1>2. Cardinality(s) \in Nat
  BY FS_CardinalityType
<1>3. QED
  BY <1>1, <1>2

\* The recursion that adds the picked element to the sum of the rest has a
\* solution on the subsets of a finite set.
LEMMA SumsExist ==
  ASSUME NEW S, IsFiniteSet(S), NEW f, \A x \in S : f[x] \in Int
  PROVE  \E g : g \in Sums(f, S)
<1> DEFINE Upto(n) == {s \in SUBSET S : Cardinality(s) <= n}
           Good(n, g) == /\ g \in [Upto(n) -> Int] 
                         /\ g[{}] = 0
                         /\ \A s \in Upto(n) : s # {} => g[s] = f[PickOf(s)] + g[s \ {PickOf(s)}]
           Bad == {n \in Nat : ~\E g : Good(n, g)}
<1>0. \A s \in SUBSET S : IsFiniteSet(s) /\ Cardinality(s) \in Nat /\ Cardinality(s) <= Cardinality(S)
  BY FS_Subset, FS_CardinalityType
<1>1. Cardinality(S) \in Nat /\ Cardinality({}) = 0 /\ {} \in SUBSET S
  BY FS_CardinalityType, FS_EmptySet
<1>2. Bad = {}
  <2>1. SUFFICES ASSUME Bad # {} PROVE FALSE
    OBVIOUS
  <2>2. PICK n \in Bad : \A m \in Bad : n <= m
    <3> HIDE DEF Good, Upto
    <3>1. QED BY <2>1, LeastNatural
  <2>3. CASE n = 0
    <3>1. Upto(0) = {{}}
      BY <1>0, <1>1, FS_EmptySet
    <3>2. Good(0, [s \in Upto(0) |-> 0])
      BY <3>1
    <3>3. QED
      BY <3>2, <2>3
  <2>4. CASE n # 0
    <3>1. n \in Nat /\ n - 1 \in Nat /\ n - 1 \notin Bad
      <4> HIDE DEF Good, Upto
      <4>1. n \in Nat
        OBVIOUS
      <4>2. n - 1 \in Nat /\ ~(n <= n - 1)
        BY <4>1, <2>4
      <4>3. n - 1 \in Bad => n <= n - 1
        BY <2>2
      <4>4. QED
        BY <4>1, <4>2, <4>3
    <3>2. PICK g : Good(n - 1, g)
      BY <3>1
    <3> DEFINE h == [s \in Upto(n) |-> IF s \in Upto(n - 1) THEN g[s] ELSE f[PickOf(s)] + g[s \ {PickOf(s)}]]
    <3>3. \A s \in Upto(n) : s # {} => /\ s \ {PickOf(s)} \in Upto(n - 1) /\ s \ {PickOf(s)} \in Upto(n)
                                      /\ f[PickOf(s)] \in Int /\ g[s \ {PickOf(s)}] \in Int
      <4> SUFFICES ASSUME NEW s \in Upto(n), s # {}
                   PROVE  /\ s \ {PickOf(s)} \in Upto(n - 1) /\ s \ {PickOf(s)} \in Upto(n)
                          /\ f[PickOf(s)] \in Int /\ g[s \ {PickOf(s)}] \in Int
        OBVIOUS
      <4>1. PickOf(s) \in s /\ s \subseteq S /\ IsFiniteSet(s) /\ Cardinality(s) <= n
        BY <1>0, PickOfMember
      <4>2. Cardinality(s \ {PickOf(s)}) = Cardinality(s) - 1 /\ Cardinality(s) \in Nat
        BY <4>1, SmallerSet
      <4>3. s \ {PickOf(s)} \in Upto(n - 1) /\ s \ {PickOf(s)} \in Upto(n)
        BY <4>1, <4>2, <3>1
      <4>4. QED
        BY <4>1, <4>3, <3>2
    <3>4. {} \in Upto(n - 1) /\ {} \in Upto(n)
      BY <1>1, <3>1
    <3>5. \A s \in Upto(n) : s \notin Upto(n - 1) => s # {}
      BY <3>4
    <3>6. h \in [Upto(n) -> Int]
      <4>1. ASSUME NEW s \in Upto(n) PROVE h[s] \in Int
        BY <3>2, <3>3, <3>5
      <4>2. QED BY <4>1
    <3>7. h[{}] = 0
      BY <3>4, <3>2
    <3>8. ASSUME NEW s \in Upto(n), s # {} PROVE h[s] = f[PickOf(s)] + h[s \ {PickOf(s)}]
      <4>1. h[s \ {PickOf(s)}] = g[s \ {PickOf(s)}]
        BY <3>3, <3>8
      <4>2. h[s] = f[PickOf(s)] + g[s \ {PickOf(s)}]
        BY <3>2, <3>8
      <4>3. QED
        BY <4>1, <4>2
    <3>9. Good(n, h)
      <4> HIDE DEF h, Upto
      <4>1. QED BY <3>6, <3>7, <3>8
    <3>10. QED
      BY <3>9
  <2>5. QED
    BY <2>3, <2>4
<1>3. Upto(Cardinality(S)) = SUBSET S
  BY <1>0
<1>4. PICK g : Good(Cardinality(S), g)
  <2> HIDE DEF Good
  <2>1. QED BY <1>1, <1>2
<1>5. g \in Sums(f, S)
  BY <1>3, <1>4 DEF Sums
<1>6. QED
  BY <1>5

\* The recursive function that the fold of the community modules stands for.
Iter(f, S) ==
  CHOOSE g : g = [s \in SUBSET S |->
                    IF s = {} THEN 0 ELSE f[CHOOSE x \in s : TRUE] + g[s \ {CHOOSE x \in s : TRUE}]]

\* Total is the value of the recursive function behind the fold.
LEMMA TotalIsIter ==
  ASSUME NEW f, NEW S PROVE Total(f, S) = Iter(f, S)[S]
BY Zenon DEF Total, Iter, MapThenSumSet, MapThenFoldSet

\* Induction over the subsets of a finite set, as a set of subsets.
LEMMA SubsetInduction ==
  ASSUME NEW S, IsFiniteSet(S), NEW U \in SUBSET SUBSET S, {} \in U,
         \A s \in U : \A x \in S \ s : s \cup {x} \in U
  PROVE  \A s \in SUBSET S : s \in U
<1>1. SUFFICES ASSUME (SUBSET S) \ U # {} PROVE FALSE
  OBVIOUS
<1>2. PICK s \in (SUBSET S) \ U : \A r \in (SUBSET S) \ U : Cardinality(s) <= Cardinality(r)
  BY <1>1, SmallestSet
<1>3. PICK x \in s : TRUE
  BY <1>2
<1>4. Cardinality(s \ {x}) < Cardinality(s) /\ Cardinality(s \ {x}) \in Nat /\ Cardinality(s) \in Nat
  BY <1>2, <1>3, FS_Subset, SmallerSet, FS_CardinalityType
<1>5. s \ {x} \in U
  BY <1>2, <1>4
<1>6. (s \ {x}) \cup {x} \in U
  BY <1>5, <1>3
<1>7. QED
  BY <1>6, <1>3, <1>2

\* The recursive function behind the fold solves the recursion.
LEMMA SumsSatisfy ==
  ASSUME NEW S, IsFiniteSet(S), NEW f, \A x \in S : f[x] \in Int
  PROVE  Iter(f, S) \in Sums(f, S)
<1> DEFINE Eq(g) == g = [s \in SUBSET S |-> IF s = {} THEN 0
                           ELSE f[CHOOSE x \in s : TRUE] + g[s \ {CHOOSE x \in s : TRUE}]]
<1>1. PICK g : g \in Sums(f, S)
  BY SumsExist
<1>2. Eq(g)
  BY <1>1, Zenon DEF Sums, PickOf
<1>3. Eq(Iter(f, S))
  BY <1>2, Zenon DEF Iter
<1> DEFINE h == Iter(f, S)
<1>4. \A s \in SUBSET S : h[s] = IF s = {} THEN 0 ELSE f[PickOf(s)] + h[s \ {PickOf(s)}]
  BY <1>3, Zenon DEF PickOf
<1>5. h = [s \in SUBSET S |-> h[s]]
  BY <1>3, Zenon
<1> HIDE DEF h, Eq
<1>6. \A s \in SUBSET S : h[s] = g[s]
  <2> DEFINE Bad == {s \in SUBSET S : h[s] # g[s]}
  <2>1. SUFFICES ASSUME Bad # {} PROVE FALSE
    OBVIOUS
  <2>2. PICK s \in Bad : \A r \in Bad : Cardinality(s) <= Cardinality(r)
    BY <2>1, SmallestSet
  <2>3. s # {}
    BY <1>4, <1>1, <2>2 DEF Sums
  <2>4. PickOf(s) \in s
    BY <2>3, PickOfMember
  <2>5. IsFiniteSet(s)
    BY <2>2, FS_Subset
  <2>6. /\ Cardinality(s \ {PickOf(s)}) = Cardinality(s) - 1
        /\ Cardinality(s) \in Nat
    BY <2>4, <2>5, SmallerSet
  <2>7. s \ {PickOf(s)} \notin Bad
    BY <2>2, <2>6
  <2>8. h[s \ {PickOf(s)}] = g[s \ {PickOf(s)}]
    BY <2>7
  <2>9. h[s] = f[PickOf(s)] + h[s \ {PickOf(s)}] /\ g[s] = f[PickOf(s)] + g[s \ {PickOf(s)}]
    BY <1>4, <1>1, <2>3 DEF Sums
  <2>10. QED
    BY <2>2, <2>8, <2>9
<1>7. h = g
  BY <1>5, <1>6, <1>1 DEF Sums
<1>8. QED
  BY <1>7, <1>1 DEF h

\* Every solution of the recursion gives the total of every subset.
LEMMA TotalIsSum ==
  ASSUME NEW S, IsFiniteSet(S), NEW f, \A x \in S : f[x] \in Int,
         NEW g \in Sums(f, S), NEW s \in SUBSET S
  PROVE  Total(f, s) = g[s]
<1> DEFINE h == Iter(f, s)
<1>1. IsFiniteSet(s) /\ \A x \in s : f[x] \in Int
  BY FS_Subset
<1>2. h \in Sums(f, s)
  BY <1>1, SumsSatisfy
<1>3. \A r \in SUBSET s : h[r] = g[r]
  <2> HIDE DEF h
  <2> DEFINE Bad == {r \in SUBSET s : h[r] # g[r]}
  <2>1. SUFFICES ASSUME Bad # {} PROVE FALSE
    OBVIOUS
  <2>2. PICK r \in Bad : \A q \in Bad : Cardinality(r) <= Cardinality(q)
    BY <1>1, <2>1, SmallestSet
  <2>3. r # {}
    BY <1>2, <2>2 DEF Sums
  <2>4. PickOf(r) \in r
    BY <2>3, PickOfMember
  <2>5. IsFiniteSet(r)
    BY <1>1, <2>2, FS_Subset
  <2>6. /\ Cardinality(r \ {PickOf(r)}) = Cardinality(r) - 1
        /\ Cardinality(r) \in Nat
    BY <2>4, <2>5, SmallerSet
  <2>7. r \ {PickOf(r)} \notin Bad
    BY <2>2, <2>6
  <2>8. h[r \ {PickOf(r)}] = g[r \ {PickOf(r)}]
    BY <2>7
  <2>9. h[r] = f[PickOf(r)] + h[r \ {PickOf(r)}] /\ g[r] = f[PickOf(r)] + g[r \ {PickOf(r)}]
    BY <1>2, <2>3 DEF Sums
  <2>10. QED
    BY <2>2, <2>8, <2>9
<1>4. QED
  BY <1>3, TotalIsIter

\* The total over no element.
LEMMA TotalEmpty == \A f : Total(f, {}) = 0
<1>1. ASSUME NEW f PROVE Total(f, {}) = 0
  <2>1. IsFiniteSet({}) /\ \A x \in {} : f[x] \in Int
    BY FS_EmptySet
  <2>2. PICK g : g \in Sums(f, {})
    BY <2>1, SumsExist
  <2>3. Total(f, {}) = g[{}]
    BY <2>1, <2>2, TotalIsSum
  <2>4. QED
    BY <2>2, <2>3 DEF Sums
<1>2. QED
  BY <1>1

\* A total of integers is an integer.
LEMMA TotalInt ==
  ASSUME NEW S, IsFiniteSet(S), NEW f, \A x \in S : f[x] \in Int
  PROVE  Total(f, S) \in Int
<1>1. PICK g : g \in Sums(f, S)
  BY SumsExist
<1>2. Total(f, S) = g[S]
  BY <1>1, TotalIsSum
<1>3. QED
  BY <1>1, <1>2 DEF Sums

\* Any element may be taken out first: the total does not depend on the order.
LEMMA TotalRemove ==
  ASSUME NEW S, IsFiniteSet(S), NEW f, \A x \in S : f[x] \in Int, NEW x \in S
  PROVE  Total(f, S) = f[x] + Total(f, S \ {x})
<1>1. PICK g : g \in Sums(f, S)
  BY SumsExist
<1>2. /\ g \in [SUBSET S -> Int]
      /\ \A s \in SUBSET S : s # {} => g[s] = f[PickOf(s)] + g[s \ {PickOf(s)}]
  BY <1>1 DEF Sums
<1> DEFINE Bad == {s \in SUBSET S : \E y \in s : g[s] # f[y] + g[s \ {y}]}
<1>3. Bad = {}
  <2>1. SUFFICES ASSUME Bad # {} PROVE FALSE
    OBVIOUS
  <2>2. PICK s \in Bad : \A r \in Bad : Cardinality(s) <= Cardinality(r)
    BY <2>1, SmallestSet
  <2>3. PICK y \in s : g[s] # f[y] + g[s \ {y}]
    BY <2>2
  <2> DEFINE p == PickOf(s)
  <2>4. p \in s /\ s \in SUBSET S /\ IsFiniteSet(s)
    BY <2>2, <2>3, PickOfMember, FS_Subset
  <2>5. g[s] = f[p] + g[s \ {p}]
    BY <1>2, <2>3, <2>4
  <2>6. /\ Cardinality(s \ {p}) = Cardinality(s) - 1 /\ Cardinality(s \ {y}) = Cardinality(s) - 1
        /\ Cardinality(s) \in Nat
    BY <2>3, <2>4, SmallerSet
  <2>7. s \ {p} \notin Bad /\ s \ {y} \notin Bad
    BY <2>2, <2>6
  <2> HIDE DEF p
  <2>8. p # y
    BY <2>5, <2>3
  <2>9. g[s \ {p}] = f[y] + g[(s \ {p}) \ {y}]
    BY <2>3, <2>4, <2>7, <2>8
  <2>10. g[s \ {y}] = f[p] + g[(s \ {y}) \ {p}]
    BY <2>3, <2>4, <2>7, <2>8
  <2>11. (s \ {p}) \ {y} = (s \ {y}) \ {p} /\ (s \ {p}) \ {y} \in SUBSET S
    BY <2>4
  <2>12. f[p] \in Int /\ f[y] \in Int /\ g[(s \ {p}) \ {y}] \in Int
    BY <1>2, <2>3, <2>4, <2>11
  <2> DEFINE rest == g[(s \ {p}) \ {y}]
  <2>13. g[s \ {p}] = f[y] + rest /\ g[s \ {y}] = f[p] + rest /\ rest \in Int
    BY <2>9, <2>10, <2>11, <2>12
  <2> HIDE DEF rest
  <2>14. f[p] + (f[y] + rest) = f[y] + (f[p] + rest)
    BY <2>12, <2>13
  <2>15. QED
    BY <2>3, <2>5, <2>13, <2>14
<1>4. g[S] = f[x] + g[S \ {x}]
  BY <1>3
<1>5. Total(f, S) = g[S] /\ Total(f, S \ {x}) = g[S \ {x}]
  BY <1>1, TotalIsSum
<1>6. QED
  BY <1>4, <1>5

\* A new element adds its value.
LEMMA TotalAdd ==
  ASSUME NEW S, IsFiniteSet(S), NEW x, x \notin S, NEW f, \A y \in S \cup {x} : f[y] \in Int
  PROVE  Total(f, S \cup {x}) = f[x] + Total(f, S)
<1>1. IsFiniteSet(S \cup {x})
  BY FS_AddElement
<1>2. Total(f, S \cup {x}) = f[x] + Total(f, (S \cup {x}) \ {x})
  BY <1>1, TotalRemove
<1>3. (S \cup {x}) \ {x} = S
  OBVIOUS
<1>4. QED
  BY <1>2, <1>3

\* The total of a sum is the sum of the totals.
LEMMA TotalLinear ==
  ASSUME NEW S, IsFiniteSet(S), NEW f, NEW g, NEW h,
         \A x \in S : f[x] \in Int /\ g[x] \in Int /\ h[x] = f[x] + g[x]
  PROVE  Total(h, S) = Total(f, S) + Total(g, S)
<1> DEFINE U == {s \in SUBSET S : Total(h, s) = Total(f, s) + Total(g, s)}
<1>1. {} \in U
  BY TotalEmpty
<1>2. ASSUME NEW s \in U, NEW x \in S \ s PROVE s \cup {x} \in U
  <2>1. IsFiniteSet(s) /\ s \cup {x} \in SUBSET S /\ x \notin s
    BY FS_Subset
  <2>2. \A y \in s \cup {x} : f[y] \in Int /\ g[y] \in Int /\ h[y] \in Int
    BY <2>1
  <2>3. /\ Total(f, s \cup {x}) = f[x] + Total(f, s)
        /\ Total(g, s \cup {x}) = g[x] + Total(g, s)
        /\ Total(h, s \cup {x}) = h[x] + Total(h, s)
    BY <2>1, <2>2, TotalAdd
  <2>4. Total(f, s) \in Int /\ Total(g, s) \in Int
    BY <2>1, <2>2, TotalInt
  <2>5. Total(h, s) = Total(f, s) + Total(g, s)
    OBVIOUS
  <2>6. Total(h, s \cup {x}) = Total(f, s \cup {x}) + Total(g, s \cup {x})
    BY <2>2, <2>3, <2>4, <2>5
  <2>7. QED
    BY <2>1, <2>6
<1> HIDE DEF U
<1>3. U \in SUBSET SUBSET S
  BY DEF U
<1>4. S \in U
  BY <1>1, <1>2, <1>3, SubsetInduction
<1>5. QED
  BY <1>4 DEF U

\* Larger values have a larger total.
LEMMA TotalMonotone ==
  ASSUME NEW S, IsFiniteSet(S), NEW f, NEW g,
         \A x \in S : f[x] \in Int /\ g[x] \in Int /\ f[x] <= g[x]
  PROVE  Total(f, S) <= Total(g, S)
<1> DEFINE U == {s \in SUBSET S : Total(f, s) <= Total(g, s)}
<1>1. {} \in U
  BY TotalEmpty
<1>2. ASSUME NEW s \in U, NEW x \in S \ s PROVE s \cup {x} \in U
  <2>1. IsFiniteSet(s) /\ s \cup {x} \in SUBSET S /\ x \notin s
    BY FS_Subset
  <2>2. \A y \in s \cup {x} : f[y] \in Int /\ g[y] \in Int
    BY <2>1
  <2>3. /\ Total(f, s \cup {x}) = f[x] + Total(f, s)
        /\ Total(g, s \cup {x}) = g[x] + Total(g, s)
    BY <2>1, <2>2, TotalAdd
  <2>4. Total(f, s) \in Int /\ Total(g, s) \in Int
    BY <2>1, <2>2, TotalInt
  <2>5. Total(f, s) <= Total(g, s) /\ f[x] <= g[x]
    OBVIOUS
  <2>6. Total(f, s \cup {x}) <= Total(g, s \cup {x})
    BY <2>2, <2>3, <2>4, <2>5
  <2>7. QED
    BY <2>1, <2>6
<1> HIDE DEF U
<1>3. U \in SUBSET SUBSET S
  BY DEF U
<1>4. S \in U
  BY <1>1, <1>2, <1>3, SubsetInduction
<1>5. QED
  BY <1>4 DEF U

\* The total depends only on the values in the set.
LEMMA TotalSame ==
  ASSUME NEW S, IsFiniteSet(S), NEW f, NEW g, \A x \in S : f[x] \in Int /\ f[x] = g[x]
  PROVE  Total(f, S) = Total(g, S)
<1>1. Total(f, S) <= Total(g, S) /\ Total(g, S) <= Total(f, S)
  BY TotalMonotone
<1>2. Total(f, S) \in Int /\ Total(g, S) \in Int
  BY TotalInt
<1>3. QED
  BY <1>1, <1>2

\* Zeros add up to zero.
LEMMA TotalZero ==
  ASSUME NEW S, IsFiniteSet(S), NEW f, \A x \in S : f[x] = 0
  PROVE  Total(f, S) = 0
<1>1. Total(f, S) = Total(f, S) + Total(f, S)
  BY TotalLinear
<1>2. Total(f, S) \in Int
  BY TotalInt
<1>3. \A n \in Int : n = n + n => n = 0
  OBVIOUS
<1>4. QED
  BY <1>1, <1>2, <1>3, Zenon

\* A total of naturals is a natural.
LEMMA TotalNat ==
  ASSUME NEW S, IsFiniteSet(S), NEW f, \A x \in S : f[x] \in Nat
  PROVE  Total(f, S) \in Nat
<1> DEFINE z == [x \in S |-> 0]
<1>1. Total(z, S) = 0
  BY TotalZero
<1>2. Total(z, S) <= Total(f, S)
  BY TotalMonotone
<1>3. Total(f, S) \in Int
  BY TotalInt
<1>4. QED
  BY <1>1, <1>2, <1>3

\* A change at one element changes the total by as much.
LEMMA TotalUpdate ==
  ASSUME NEW S, IsFiniteSet(S), NEW f, NEW g, NEW x \in S,
         \A y \in S : f[y] \in Int /\ g[y] \in Int,
         \A y \in S \ {x} : f[y] = g[y]
  PROVE  Total(g, S) = Total(f, S) + g[x] - f[x]
<1>1. IsFiniteSet(S \ {x})
  BY FS_RemoveElement
<1>2. Total(f, S \ {x}) = Total(g, S \ {x}) /\ Total(f, S \ {x}) \in Int
  BY <1>1, TotalSame, TotalInt
<1>3. Total(f, S) = f[x] + Total(f, S \ {x}) /\ Total(g, S) = g[x] + Total(g, S \ {x})
  BY TotalRemove
<1>4. QED
  BY <1>2, <1>3

\* No natural is larger than a total that it is part of.
LEMMA TotalTerm ==
  ASSUME NEW S, IsFiniteSet(S), NEW f, \A y \in S : f[y] \in Nat, NEW x \in S
  PROVE  f[x] <= Total(f, S)
<1>1. Total(f, S) = f[x] + Total(f, S \ {x})
  BY TotalRemove
<1>2. Total(f, S \ {x}) \in Nat
  BY FS_RemoveElement, TotalNat
<1>3. QED
  BY <1>1, <1>2

\* A finite set of integers has a least and a greatest member.
LEMMA MinMax ==
  ASSUME NEW S \in SUBSET Int, IsFiniteSet(S), S # {}
  PROVE  /\ Min(S) \in S /\ \A y \in S : Min(S) <= y
         /\ Max(S) \in S /\ \A y \in S : y <= Max(S)
<1> DEFINE U == {s \in SUBSET S : s # {} => /\ \E x \in s : \A y \in s : x <= y
                                            /\ \E x \in s : \A y \in s : y <= x}
<1>1. {} \in U
  OBVIOUS
<1>2. ASSUME NEW s \in U, NEW z \in S \ s PROVE s \cup {z} \in U
  <2>1. CASE s = {}
    BY <2>1
  <2>2. CASE s # {}
    <3>1. PICK lo \in s, hi \in s : \A y \in s : lo <= y /\ y <= hi
      BY <2>2
    <3>2. \E x \in s \cup {z} : \A y \in s \cup {z} : x <= y
      <4>1. CASE z <= lo
        BY <3>1, <4>1
      <4>2. CASE lo <= z
        BY <3>1, <4>2
      <4>3. QED
        BY <4>1, <4>2
    <3>3. \E x \in s \cup {z} : \A y \in s \cup {z} : y <= x
      <4>1. CASE z <= hi
        BY <3>1, <4>1
      <4>2. CASE hi <= z
        BY <3>1, <4>2
      <4>3. QED
        BY <4>1, <4>2
    <3>4. QED
      BY <3>2, <3>3
  <2>3. QED
    BY <2>1, <2>2
<1>3. S \in U
  <2> HIDE DEF U
  <2>1. U \in SUBSET SUBSET S
    BY DEF U
  <2>2. QED
    BY <1>1, <1>2, <2>1, SubsetInduction
<1>4. /\ \E x \in S : \A y \in S : x <= y
      /\ \E x \in S : \A y \in S : x >= y
  BY <1>3
<1>5. QED
  BY <1>4 DEF Min, Max

\* A total of ones counts.
LEMMA TotalCount ==
  ASSUME NEW S, IsFiniteSet(S), NEW X, NEW f, \A x \in S : f[x] = IF x \in X THEN 1 ELSE 0
  PROVE  Total(f, S) = Cardinality(S \cap X) /\ Cardinality(S \cap X) \in Nat
<1> DEFINE U == {s \in SUBSET S : Total(f, s) = Cardinality(s \cap X)}
<1>1. {} \in U
  BY TotalEmpty, FS_EmptySet
<1>2. ASSUME NEW s \in U, NEW z \in S \ s PROVE s \cup {z} \in U
  <2>1. IsFiniteSet(s) /\ IsFiniteSet(s \cap X) /\ Cardinality(s \cap X) \in Nat
    BY FS_Subset, FS_CardinalityType
  <2>2. Total(f, s \cup {z}) = f[z] + Total(f, s)
    <3>1. \A y \in s \cup {z} : f[y] \in Int
      OBVIOUS
    <3>2. QED
      BY <2>1, <3>1, TotalAdd
  <2>3. CASE z \in X
    <3>1. (s \cup {z}) \cap X = (s \cap X) \cup {z} /\ z \notin s \cap X
      BY <2>3
    <3>2. Cardinality((s \cap X) \cup {z}) = Cardinality(s \cap X) + 1
      BY <2>1, <3>1, FS_AddElement
    <3>3. Total(f, s \cup {z}) = Cardinality((s \cup {z}) \cap X)
      BY <2>1, <2>2, <2>3, <3>1, <3>2
    <3>4. QED
      BY <3>3
  <2>4. CASE z \notin X
    <3>1. (s \cup {z}) \cap X = s \cap X
      BY <2>4
    <3>2. f[z] = 0 /\ Total(f, s) = Cardinality(s \cap X)
      BY <2>4
    <3>3. Total(f, s \cup {z}) = Cardinality(s \cap X)
      BY <2>1, <2>2, <3>2
    <3>4. QED
      BY <3>1, <3>3
  <2>5. QED
    BY <2>3, <2>4
<1>3. S \in U
  <2> HIDE DEF U
  <2>1. U \in SUBSET SUBSET S
    BY DEF U
  <2>2. QED
    BY <1>1, <1>2, <2>1, SubsetInduction
<1>4. Cardinality(S \cap X) \in Nat
  BY FS_Subset, FS_CardinalityType
<1>5. QED
  BY <1>3, <1>4

\* One more for each member of a set.
LEMMA TotalRaise ==
  ASSUME NEW S, IsFiniteSet(S), NEW X \in SUBSET S, NEW f, NEW h, \A x \in S : f[x] \in Int,
         \A x \in X : h[x] = f[x] + 1, \A x \in S \ X : h[x] = f[x]
  PROVE  /\ Total(h, S) = Total(f, S) + Cardinality(X)
         /\ Total(f, S) \in Int /\ Cardinality(X) \in Nat
<1> DEFINE one == [x \in S |-> IF x \in X THEN 1 ELSE 0]
<1>1. Total(one, S) = Cardinality(S \cap X) /\ Cardinality(S \cap X) \in Nat
  BY TotalCount
<1>2. \A x \in S : f[x] \in Int /\ one[x] \in Int /\ h[x] = f[x] + one[x]
  OBVIOUS
<1>3. S \cap X = X
  OBVIOUS
<1> HIDE DEF one
<1>4. Total(h, S) = Total(f, S) + Total(one, S)
  BY <1>2, TotalLinear
<1>5. QED
  BY <1>1, <1>3, <1>4, TotalInt

\* A total may be taken part by part.
LEMMA TotalParts ==
  ASSUME NEW S, IsFiniteSet(S), NEW T, IsFiniteSet(T), NEW part, \A x \in S : part[x] \in T,
         NEW m, \A t \in T : m[t] = {x \in S : part[x] = t},
         NEW f, \A x \in S : f[x] \in Int, NEW g, \A t \in T : g[t] = Total(f, m[t])
  PROVE  Total(g, T) = Total(f, S)
<1> DEFINE in(s, t) == {x \in s : part[x] = t}
           parts(s) == [t \in T |-> Total(f, in(s, t))]
           U == {s \in SUBSET S : Total(parts(s), T) = Total(f, s)}
<1>0. \A s \in SUBSET S, t \in T : IsFiniteSet(s) /\ IsFiniteSet(in(s, t)) /\ Total(f, in(s, t)) \in Int
  BY FS_Subset, TotalInt
<1>1. {} \in U
  <2>1. \A t \in T : parts({})[t] = 0
    BY TotalEmpty
  <2>2. Total(parts({}), T) = 0
    <3> HIDE DEF parts
    <3>1. QED
      BY <2>1, TotalZero
  <2>3. QED
    BY <2>2, TotalEmpty
<1>2. ASSUME NEW s \in U, NEW z \in S \ s PROVE s \cup {z} \in U
  <2> DEFINE r == s \cup {z}
             p == parts(s)
             q == parts(r)
             u == part[z]
  <2>1. r \in SUBSET S /\ u \in T /\ IsFiniteSet(s) /\ f[z] \in Int
    BY <1>0
  <2>2. Total(f, r) = f[z] + Total(f, s) /\ Total(f, s) \in Int
    BY <2>1, TotalAdd, TotalInt
  <2>3. in(r, u) = in(s, u) \cup {z} /\ z \notin in(s, u)
    OBVIOUS
  <2>4. q[u] = f[z] + p[u]
    <3> DEFINE w == in(s, u)
    <3>1. IsFiniteSet(w) /\ z \notin w /\ \A y \in w \cup {z} : f[y] \in Int
      BY <1>0, <2>1
    <3>2. q[u] = Total(f, w \cup {z}) /\ p[u] = Total(f, w)
      BY <2>1, <2>3
    <3> HIDE DEF w
    <3>3. Total(f, w \cup {z}) = f[z] + Total(f, w)
      BY <3>1, TotalAdd
    <3>4. QED
      BY <3>2, <3>3
  <2>5. \A t \in T \ {u} : p[t] = q[t]
    <3>1. \A t \in T \ {u} : in(r, t) = in(s, t)
      OBVIOUS
    <3>2. QED
      BY <3>1
  <2>6. \A t \in T : p[t] \in Int /\ q[t] \in Int
    BY <1>0, <2>1
  <2>7. Total(p, T) = Total(f, s)
    OBVIOUS
  <2> HIDE DEF p, q, u, r
  <2>8. Total(q, T) = Total(p, T) + q[u] - p[u]
    BY <2>1, <2>5, <2>6, TotalUpdate
  <2>9. Total(q, T) = Total(f, r)
    BY <2>1, <2>2, <2>4, <2>6, <2>7, <2>8
  <2>10. QED
    BY <2>1, <2>9 DEF r, q
<1>3. S \in U
  <2> HIDE DEF U
  <2>1. U \in SUBSET SUBSET S
    BY DEF U
  <2>2. QED
    BY <1>1, <1>2, <2>1, SubsetInduction
<1>4. Total(parts(S), T) = Total(g, T)
  <2> DEFINE p == parts(S)
  <2>1. \A t \in T : p[t] \in Int /\ p[t] = g[t]
    BY <1>0
  <2> HIDE DEF p
  <2>2. Total(p, T) = Total(g, T)
    BY <2>1, TotalSame
  <2>3. QED
    BY <2>2 DEF p
<1>5. QED
  BY <1>3, <1>4

\* What a function grows by in all is at least what it grows by at one place,
\* and at two.
LEMMA TotalGrowth ==
  ASSUME NEW S, IsFiniteSet(S), NEW f, NEW g, \A x \in S : f[x] \in Int /\ g[x] \in Int /\ f[x] <= g[x]
  PROVE  /\ Total(f, S) \in Int /\ Total(g, S) \in Int /\ Total(g, S) - Total(f, S) \in Nat
         /\ \A x \in S : g[x] - f[x] <= Total(g, S) - Total(f, S)
         /\ \A x, y \in S : x # y => (g[x] - f[x]) + (g[y] - f[y]) <= Total(g, S) - Total(f, S)
<1> DEFINE h == [x \in S |-> g[x] - f[x]]
<1>1. \A x \in S : f[x] \in Int /\ h[x] \in Int /\ g[x] = f[x] + h[x]
  OBVIOUS
<1>2. \A x \in S : h[x] \in Nat /\ h[x] = g[x] - f[x]
  OBVIOUS
<1> HIDE DEF h
<1>3. Total(g, S) = Total(f, S) + Total(h, S)
  BY <1>1, TotalLinear
<1>4. Total(f, S) \in Int /\ Total(g, S) \in Int /\ Total(h, S) \in Nat
  BY <1>2, TotalInt, TotalNat
<1>5. \A x \in S : h[x] <= Total(h, S)
  BY <1>2, TotalTerm
<1>6. ASSUME NEW x \in S, NEW y \in S, x # y PROVE h[x] + h[y] <= Total(h, S)
  <2> DEFINE R == S \ {x}
  <2>1. Total(h, S) = h[x] + Total(h, R)
    BY <1>1, TotalRemove
  <2>2. IsFiniteSet(R) /\ y \in R /\ \A z \in R : h[z] \in Nat
    BY <1>2, <1>6, FS_RemoveElement
  <2> HIDE DEF R
  <2>3. h[y] <= Total(h, R) /\ Total(h, R) \in Nat
    BY <2>2, TotalTerm, TotalNat
  <2>4. h[x] \in Nat /\ h[y] \in Nat
    BY <1>2
  <2>5. QED
    BY <2>1, <2>3, <2>4
<1>7. Total(g, S) - Total(f, S) = Total(h, S)
  BY <1>3, <1>4
<1>8. QED
  BY <1>2, <1>4, <1>5, <1>6, <1>7

\* Only the places where two functions differ count.
LEMMA TotalDifference ==
  ASSUME NEW S, IsFiniteSet(S), NEW D \in SUBSET S, NEW f, NEW g,
         \A x \in S : f[x] \in Int /\ g[x] \in Int, \A x \in S \ D : f[x] = g[x]
  PROVE  Total(g, S) - Total(f, S) = Total(g, D) - Total(f, D)
<1> DEFINE U == {s \in SUBSET S : Total(g, s) - Total(f, s) = Total(g, s \cap D) - Total(f, s \cap D)}
<1>1. {} \in U
  <2>1. {} \cap D = {}
    OBVIOUS
  <2>2. QED
    BY <2>1, TotalEmpty
<1>2. ASSUME NEW s \in U, NEW z \in S \ s PROVE s \cup {z} \in U
  <2> DEFINE r == s \cup {z}
             p == s \cap D
  <2>1. IsFiniteSet(s) /\ IsFiniteSet(p)
    BY FS_Subset
  <2>2. /\ Total(f, s) \in Int /\ Total(g, s) \in Int /\ Total(f, p) \in Int /\ Total(g, p) \in Int
        /\ f[z] \in Int /\ g[z] \in Int
    BY <2>1, TotalInt
  <2>3. Total(f, r) = f[z] + Total(f, s) /\ Total(g, r) = g[z] + Total(g, s)
    BY <2>1, TotalAdd
  <2>4. Total(g, s) - Total(f, s) = Total(g, p) - Total(f, p)
    OBVIOUS
  <2>5. CASE z \in D
    <3>1. r \cap D = p \cup {z} /\ z \notin p /\ \A y \in p \cup {z} : f[y] \in Int /\ g[y] \in Int
      BY <2>5
    <3> HIDE DEF p
    <3>2. Total(f, p \cup {z}) = f[z] + Total(f, p) /\ Total(g, p \cup {z}) = g[z] + Total(g, p)
      BY <2>1, <3>1, TotalAdd
    <3>3. Total(g, r) - Total(f, r) = Total(g, p \cup {z}) - Total(f, p \cup {z})
      BY <2>2, <2>3, <2>4, <3>2
    <3>4. QED
      BY <3>1, <3>3
  <2>6. CASE z \notin D
    <3>1. r \cap D = p /\ f[z] = g[z]
      BY <2>6
    <3> HIDE DEF p
    <3>2. Total(g, r) - Total(f, r) = Total(g, p) - Total(f, p)
      BY <2>2, <2>3, <2>4, <3>1
    <3>3. QED
      BY <3>1, <3>2
  <2>7. QED
    BY <2>5, <2>6
<1>3. S \in U
  <2> HIDE DEF U
  <2>1. U \in SUBSET SUBSET S
    BY DEF U
  <2>2. QED
    BY <1>1, <1>2, <2>1, SubsetInduction
<1>4. S \cap D = D
  OBVIOUS
<1>5. QED
  BY <1>3, <1>4

\* What is zero outside a part sums to the sum over the part.
LEMMA TotalOutside ==
  ASSUME NEW S, IsFiniteSet(S), NEW D \in SUBSET S, NEW f,
         \A x \in S : f[x] \in Int, \A x \in S \ D : f[x] = 0
  PROVE  Total(f, S) = Total(f, D)
<1> DEFINE z == [x \in S |-> 0]
<1>1. (\A x \in S : z[x] \in Int /\ f[x] \in Int /\ z[x] = 0) /\ \A x \in S \ D : z[x] = f[x]
  OBVIOUS
<1>2. IsFiniteSet(D)
  BY FS_Subset
<1> HIDE DEF z
<1>3. Total(f, S) - Total(z, S) = Total(f, D) - Total(z, D)
  BY <1>1, TotalDifference
<1>4. Total(z, S) = 0 /\ Total(z, D) = 0
  BY <1>1, <1>2, TotalZero
<1>5. Total(f, S) \in Int /\ Total(f, D) \in Int
  BY <1>1, <1>2, TotalInt
<1>6. QED
  BY <1>3, <1>4, <1>5

\* The total over two sets with nothing in common.
LEMMA TotalUnion ==
  ASSUME NEW A, IsFiniteSet(A), NEW B, IsFiniteSet(B), A \cap B = {}, NEW f, \A x \in A \cup B : f[x] \in Int
  PROVE  Total(f, A \cup B) = Total(f, A) + Total(f, B)
<1> DEFINE U == {s \in SUBSET B : Total(f, A \cup s) = Total(f, A) + Total(f, s)}
<1>0. Total(f, A) \in Int
  BY TotalInt
<1>1. {} \in U
  <2>1. A \cup {} = A /\ Total(f, {}) = 0
    BY TotalEmpty
  <2>2. QED
    BY <1>0, <2>1
<1>2. ASSUME NEW s \in U, NEW x \in B \ s PROVE s \cup {x} \in U
  <2>1. IsFiniteSet(s) /\ IsFiniteSet(A \cup s)
    BY FS_Subset, FS_Union
  <2>2. (A \cup s) \cup {x} = A \cup (s \cup {x}) /\ x \notin A \cup s /\ x \notin s
    OBVIOUS
  <2>3. Total(f, (A \cup s) \cup {x}) = f[x] + Total(f, A \cup s)
    <3>1. \A y \in (A \cup s) \cup {x} : f[y] \in Int
      OBVIOUS
    <3>2. QED
      BY <2>1, <2>2, <3>1, TotalAdd
  <2>4. Total(f, s \cup {x}) = f[x] + Total(f, s)
    <3>1. \A y \in s \cup {x} : f[y] \in Int
      OBVIOUS
    <3>2. QED
      BY <2>1, <2>2, <3>1, TotalAdd
  <2>5. Total(f, s) \in Int /\ f[x] \in Int
    BY <2>1, TotalInt
  <2>6. Total(f, A \cup (s \cup {x})) = Total(f, A) + Total(f, s \cup {x})
    <3>1. Total(f, A \cup s) = Total(f, A) + Total(f, s)
      OBVIOUS
    <3>2. Total(f, A \cup (s \cup {x})) = f[x] + Total(f, A \cup s)
      BY <2>2, <2>3
    <3>3. QED
      BY <1>0, <2>4, <2>5, <3>1, <3>2
  <2>7. QED
    BY <2>6
<1>3. U \in SUBSET SUBSET B
  OBVIOUS
<1> HIDE DEF U
<1>4. B \in U
  BY <1>1, <1>2, <1>3, SubsetInduction
<1>5. QED
  BY <1>4 DEF U
====
