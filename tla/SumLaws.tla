-------------------------------- MODULE SumLaws --------------------------------
(***************************************************************************)
(* Induction over numbers and over the subsets of a finite set, and what a   *)
(* sum over a finite set is, for the proofs about what the models count:    *)
(* that there is one, that it does not depend on the order, how SumFunction  *)
(* changes with its function, and how sums of sums and of products compare.  *)
(***************************************************************************)
EXTENDS Integers, Functions, FiniteSetTheorems, WellFoundedInduction, TLAPS

\* Induction, for the lemmas below.
LEMMA AllNumbers == ASSUME NEW T \in SUBSET Nat, 0 \in T, \A n \in T : n + 1 \in T
                    PROVE  T = Nat
<1>. DEFINE R == OpToRel(<, Nat)
<1>1. \A a, b \in Nat : <<a, b>> \in R <=> a < b
  BY DEF OpToRel
<1>2. IsWellFoundedOn(R, Nat)
  BY NatLessThanWellFounded
<1>. HIDE DEF R
<1>3. ASSUME Nat \ T # {} PROVE FALSE
  <2>1. PICK x \in Nat \ T : \A y \in Nat \ T : ~(<<y, x>> \in R)
    BY <1>2, <1>3, WFMin
  <2>2. x # 0 /\ x - 1 \in Nat /\ x - 1 < x /\ (x - 1) + 1 = x
    BY <2>1
  <2>3. x - 1 \in T
    BY <1>1, <2>1, <2>2
  <2>. QED
    BY <2>1, <2>2, <2>3
<1>. QED
  BY <1>3

Some(s) == CHOOSE p \in s : TRUE
\* g sums f over the subsets of S.
Sums(g, f, S) ==
    \A s \in SUBSET S : g[s] = IF s = {} THEN 0 ELSE f[Some(s)] + g[s \ {Some(s)}]

LEMMA OneOut ==
    ASSUME NEW S, IsFiniteSet(S), NEW s \in SUBSET S, NEW p \in s
    PROVE  /\ IsFiniteSet(s) /\ Cardinality(s) \in Nat /\ Cardinality(s) # 0
           /\ s \ {p} \in SUBSET S /\ Cardinality(s \ {p}) = Cardinality(s) - 1
<1>1. IsFiniteSet(s)
  BY FS_Subset
<1>2. Cardinality(s) \in Nat /\ Cardinality(s \ {p}) = Cardinality(s) - 1 /\ IsFiniteSet(s \ {p})
  BY <1>1, FS_CardinalityType, FS_RemoveElement
<1>3. Cardinality(s \ {p}) \in Nat
  BY <1>2, FS_CardinalityType
<1>. QED
  BY <1>1, <1>2, <1>3

SumOf(g, f, S) == /\ IsFiniteSet(S) /\ f \in [S -> Nat] /\ g \in [SUBSET S -> Nat]
                  /\ Sums(g, f, S)
Lawful(g, f, S) == \A s \in SUBSET S : \A p \in s : g[s] = f[p] + g[s \ {p}]

LEMMA SumExists ==
    ASSUME NEW S, IsFiniteSet(S), NEW f \in [S -> Nat]
    PROVE  \E g \in [SUBSET S -> Nat] : Sums(g, f, S)
<1>. DEFINE Upto(g, n) == \A s \in SUBSET S : Cardinality(s) <= n =>
                g[s] = IF s = {} THEN 0 ELSE f[Some(s)] + g[s \ {Some(s)}]
            T == {n \in Nat : \E g \in [SUBSET S -> Nat] : Upto(g, n)}
<1>1. \A s \in SUBSET S : IsFiniteSet(s) /\ Cardinality(s) \in Nat /\ (s # {} => Some(s) \in s)
  BY FS_Subset, FS_CardinalityType DEF Some
<1>2. 0 \in T
  <2>. DEFINE g == [s \in SUBSET S |-> 0]
  <2>1. \A s \in SUBSET S : Cardinality(s) <= 0 => s = {}
    BY <1>1, FS_EmptySet
  <2>2. g \in [SUBSET S -> Nat] /\ Upto(g, 0)
    BY <2>1
  <2>. QED
    BY <2>2
<1>3. ASSUME NEW n \in T PROVE n + 1 \in T
  <2>1. PICK g \in [SUBSET S -> Nat] : Upto(g, n)
    OBVIOUS
  <2>. DEFINE k == [s \in SUBSET S |-> IF s = {} \/ Cardinality(s) <= n THEN g[s]
                                       ELSE f[Some(s)] + g[s \ {Some(s)}]]
  <2>2. ASSUME NEW s \in SUBSET S, s # {}
        PROVE  /\ Some(s) \in s /\ f[Some(s)] \in Nat /\ s \ {Some(s)} \in SUBSET S
               /\ g[s \ {Some(s)}] \in Nat /\ g[s] \in Nat
               /\ Cardinality(s \ {Some(s)}) = Cardinality(s) - 1 /\ Cardinality(s) \in Nat
    <3>1. Some(s) \in s
      BY <1>1, <2>2
    <3>. QED
      BY <3>1, OneOut
  <2>3. k \in [SUBSET S -> Nat]
    BY <2>2, <2>1
  <2>4. ASSUME NEW s \in SUBSET S, Cardinality(s) <= n + 1
        PROVE  k[s] = IF s = {} THEN 0 ELSE f[Some(s)] + k[s \ {Some(s)}]
    <3>1. CASE s = {}
      <4>1. Cardinality(s) = 0
        BY <3>1, FS_EmptySet
      <4>2. g[s] = 0
        BY <2>1, <3>1, <4>1
      <4>. QED
        BY <3>1, <4>2
    <3>2. CASE s # {}
      <4>1. k[s \ {Some(s)}] = g[s \ {Some(s)}]
        BY <2>2, <2>4, <3>2
      <4>2. CASE Cardinality(s) <= n
        <5>1. g[s] = f[Some(s)] + g[s \ {Some(s)}]
          BY <2>1, <3>2, <4>2
        <5>2. k[s] = g[s]
          BY <4>2
        <5>. QED
          BY <3>2, <4>1, <5>1, <5>2
      <4>3. CASE ~(Cardinality(s) <= n)
        <5>1. k[s] = f[Some(s)] + g[s \ {Some(s)}]
          BY <3>2, <4>3
        <5>. QED
          BY <3>2, <4>1, <5>1
      <4>. QED
        BY <4>2, <4>3
    <3>. QED
      BY <3>1, <3>2
  <2>5. Upto(k, n + 1)
    BY <2>4
  <2>. HIDE DEF k, Upto
  <2>. QED
    BY <2>3, <2>5
<1>4. T = Nat
  <2>1. T \in SUBSET Nat
    OBVIOUS
  <2>. HIDE DEF T
  <2>. QED
    BY <1>2, <1>3, <2>1, AllNumbers
<1>5. Cardinality(S) \in T
  BY <1>4, FS_CardinalityType
<1>6. PICK g \in [SUBSET S -> Nat] : Upto(g, Cardinality(S))
  BY <1>5
<1>7. \A s \in SUBSET S : Cardinality(s) <= Cardinality(S)
  BY FS_Subset
<1>. QED
  BY <1>6, <1>7 DEF Sums

\* The order of a sum does not matter.
LEMMA SumLaw ==
    ASSUME NEW S, NEW f, NEW g, SumOf(g, f, S)
    PROVE  Lawful(g, f, S)
<1>0. IsFiniteSet(S) /\ f \in [S -> Nat] /\ g \in [SUBSET S -> Nat] /\ Sums(g, f, S)
  BY DEF SumOf
<1>. DEFINE Law(s) == \A p \in s : g[s] = f[p] + g[s \ {p}]
            T == {n \in Nat : \A s \in SUBSET S : Cardinality(s) = n => Law(s)}
<1>1. 0 \in T
  <2>1. \A s \in SUBSET S : Cardinality(s) = 0 => s = {}
    BY <1>0, FS_Subset, FS_EmptySet
  <2>. QED
    BY <2>1
<1>2. ASSUME NEW n \in T PROVE n + 1 \in T
  <2>. SUFFICES ASSUME NEW s \in SUBSET S, Cardinality(s) = n + 1, NEW p \in s
                PROVE  g[s] = f[p] + g[s \ {p}]
    OBVIOUS
  <2>. DEFINE q == Some(s)
  <2>1. q \in s
    BY DEF Some
  <2>2. g[s] = f[q] + g[s \ {q}]
    BY <1>0, <2>1 DEF Sums
  <2>. HIDE DEF q
  <2>3. CASE p = q
    BY <2>2, <2>3
  <2>4. CASE p # q
    <3>1. /\ s \ {p} \in SUBSET S /\ Cardinality(s \ {p}) = n /\ q \in s \ {p}
          /\ s \ {q} \in SUBSET S /\ Cardinality(s \ {q}) = n /\ p \in s \ {q}
      BY <1>0, <2>1, <2>4, OneOut
    <3>2. Law(s \ {p}) /\ Law(s \ {q})
      BY <3>1
    <3>3. g[s \ {p}] = f[q] + g[(s \ {p}) \ {q}] /\ g[s \ {q}] = f[p] + g[(s \ {q}) \ {p}]
      BY <3>1, <3>2
    <3>4. (s \ {p}) \ {q} = (s \ {q}) \ {p}
      OBVIOUS
    <3>. DEFINE rest == g[(s \ {q}) \ {p}]
    <3>5. f[p] \in Nat /\ f[q] \in Nat /\ rest \in Nat
      BY <1>0, <2>1
    <3>6. g[s \ {p}] = f[q] + rest /\ g[s \ {q}] = f[p] + rest
      BY <3>3, <3>4
    <3>. HIDE DEF rest
    <3>. QED
      BY <2>2, <3>5, <3>6
  <2>. QED
    BY <2>3, <2>4
<1>3. T = Nat
  <2>1. T \in SUBSET Nat
    OBVIOUS
  <2>. HIDE DEF T
  <2>. QED
    BY <1>1, <1>2, <2>1, AllNumbers
<1>4. ASSUME NEW s \in SUBSET S PROVE Law(s)
  <2>2. Cardinality(s) \in T
    BY <1>0, <1>3, FS_Subset, FS_CardinalityType
  <2>. QED
    BY <2>2
<1>. QED
  BY <1>4 DEF Lawful

\* Sums of two functions that agree.
LEMMA SumsAgree ==
    ASSUME NEW S, NEW f, NEW g, SumOf(g, f, S), NEW R, NEW k, NEW h, Sums(h, k, R),
           NEW some \in SUBSET S, some \subseteq R, \A p \in some : f[p] = k[p]
    PROVE  g[some] = h[some]
<1>0. IsFiniteSet(S) /\ Sums(g, f, S)
  BY DEF SumOf
<1>. DEFINE Same(s) == s \subseteq R /\ (\A p \in s : f[p] = k[p]) => g[s] = h[s]
            T == {n \in Nat : \A s \in SUBSET S : Cardinality(s) = n => Same(s)}
<1>1. 0 \in T
  <2>1. \A s \in SUBSET S : Cardinality(s) = 0 => s = {}
    BY <1>0, FS_Subset, FS_EmptySet
  <2>2. g[{}] = 0 /\ h[{}] = 0
    BY <1>0 DEF Sums
  <2>. QED
    BY <2>1, <2>2
<1>2. ASSUME NEW n \in T PROVE n + 1 \in T
  <2>. SUFFICES ASSUME NEW s \in SUBSET S, Cardinality(s) = n + 1, s \subseteq R,
                       \A p \in s : f[p] = k[p]
                PROVE  g[s] = h[s]
    OBVIOUS
  <2>. DEFINE q == Some(s)
  <2>0. n \in Nat
    OBVIOUS
  <2>1. s # {}
    <3>1. Cardinality({}) = 0
      BY FS_EmptySet
    <3>. QED
      BY <2>0, <3>1
  <2>2. q \in s
    BY <2>1 DEF Some
  <2>3. g[s] = f[q] + g[s \ {q}] /\ h[s] = k[q] + h[s \ {q}]
    BY <1>0, <2>1 DEF Sums
  <2>. HIDE DEF q
  <2>4. s \ {q} \in SUBSET S /\ Cardinality(s \ {q}) = n
    BY <1>0, <2>2, OneOut
  <2>5. Same(s \ {q})
    BY <2>4
  <2>. QED
    BY <2>2, <2>3, <2>5
<1>3. T = Nat
  <2>1. T \in SUBSET Nat
    OBVIOUS
  <2>. HIDE DEF T
  <2>. QED
    BY <1>1, <1>2, <2>1, AllNumbers
<1>4. Cardinality(some) \in T
  BY <1>0, <1>3, FS_Subset, FS_CardinalityType
<1>. QED
  BY <1>4

\* Zeroes may be left out.
LEMMA SumOfZeroes ==
    ASSUME NEW S, NEW f, NEW g, SumOf(g, f, S),
           NEW r \in SUBSET S, \A p \in S \ r : f[p] = 0
    PROVE  g[S] = g[r]
<1>0. IsFiniteSet(S) /\ g \in [SUBSET S -> Nat] /\ Lawful(g, f, S)
  BY SumLaw DEF SumOf
<1>. DEFINE Same(s) == r \subseteq s => g[s] = g[r]
            T == {n \in Nat : \A s \in SUBSET S : Cardinality(s) = n => Same(s)}
<1>1. 0 \in T
  <2>1. \A s \in SUBSET S : Cardinality(s) = 0 => s = {}
    BY <1>0, FS_Subset, FS_EmptySet
  <2>. QED
    BY <2>1
<1>2. ASSUME NEW n \in T PROVE n + 1 \in T
  <2>. SUFFICES ASSUME NEW s \in SUBSET S, Cardinality(s) = n + 1, r \subseteq s
                PROVE  g[s] = g[r]
    OBVIOUS
  <2>1. CASE s = r
    BY <2>1
  <2>2. CASE s # r
    <3>1. PICK p \in s : p \notin r
      BY <2>2
    <3>2. s \ {p} \in SUBSET S /\ Cardinality(s \ {p}) = n /\ r \subseteq s \ {p}
      BY <1>0, <3>1, OneOut
    <3>3. g[s \ {p}] = g[r]
      BY <3>2
    <3>4. g[s] = f[p] + g[s \ {p}]
      BY <1>0, <3>1 DEF Lawful
    <3>5. f[p] = 0 /\ g[s \ {p}] \in Nat
      BY <1>0, <3>1, <3>2
    <3>. QED
      BY <3>3, <3>4, <3>5
  <2>. QED
    BY <2>1, <2>2
<1>3. T = Nat
  <2>1. T \in SUBSET Nat
    OBVIOUS
  <2>. HIDE DEF T
  <2>. QED
    BY <1>1, <1>2, <2>1, AllNumbers
<1>4. Cardinality(S) \in T
  BY <1>0, <1>3, FS_CardinalityType
<1>. QED
  BY <1>4
-----------------------------------------------------------------------------
(* SumFunction. *)

\* g is how SumFunction sums f.
IsTotal(g, f, S) == SumOf(g, f, S) /\ Sums(g, f, S) /\ Lawful(g, f, S) /\ SumFunction(f) = g[S] /\ SumFunction(f) \in Nat

LEMMA TotalIsSum ==
    ASSUME NEW S, IsFiniteSet(S), NEW f \in [S -> Nat]
    PROVE  \E g : IsTotal(g, f, S)
<1>. DEFINE step(g) == [s \in SUBSET S |-> IF s = {} THEN 0
               ELSE f[CHOOSE p \in s : TRUE] + g[s \ {CHOOSE p \in s : TRUE}]]
            sum == CHOOSE g : g = step(g)
<1>1. SumFunction(f) = sum[S]
  <2>1. DOMAIN f = S
    OBVIOUS
  <2>. QED
    BY <2>1 DEF SumFunction, SumFunctionOnSet, FoldFunctionOnSet, MapThenFoldSet
<1>2. PICK h \in [SUBSET S -> Nat] : Sums(h, f, S)
  BY SumExists
<1>3. h = step(h)
  BY <1>2 DEF Sums, Some
<1>4. sum = step(sum)
  <2>. HIDE DEF step
  <2>. QED
    BY <1>3
<1>5. Sums(sum, f, S)
  <2>1. \A s \in SUBSET S : sum[s] = step(sum)[s]
    <3>. HIDE DEF step, sum
    <3>. QED
      BY <1>4
  <2>. HIDE DEF sum
  <2>. QED
    BY <2>1 DEF Sums, Some
<1>. HIDE DEF sum
<1>6. SumOf(h, f, S)
  BY <1>2 DEF SumOf
<1>7. S \in SUBSET S /\ S \subseteq S /\ \A p \in S : f[p] = f[p]
  OBVIOUS
<1>8. h[S] = sum[S]
  BY <1>5, <1>6, <1>7, SumsAgree
<1>9. Lawful(h, f, S)
  BY <1>6, SumLaw
<1>10. h[S] \in Nat
  BY <1>2, <1>7
<1>. QED
  BY <1>1, <1>2, <1>6, <1>8, <1>9, <1>10 DEF IsTotal

LEMMA SumTyped == ASSUME NEW S, IsFiniteSet(S), NEW f \in [S -> Nat] PROVE SumFunction(f) \in Nat
  BY TotalIsSum DEF IsTotal

\* One value changes.
LEMMA SumUpdate ==
    ASSUME NEW S, IsFiniteSet(S), NEW f \in [S -> Nat], NEW k \in [S -> Nat], NEW p \in S,
           \A q \in S \ {p} : f[q] = k[q]
    PROVE  SumFunction(k) + f[p] = SumFunction(f) + k[p]
<1>1. PICK g : IsTotal(g, f, S)
  BY TotalIsSum
<1>2. PICK h : IsTotal(h, k, S)
  BY TotalIsSum
<1>. DEFINE rest == S \ {p}
<1>3. rest \in SUBSET S /\ rest \subseteq S /\ S \in SUBSET S /\ \A q \in rest : f[q] = k[q]
  OBVIOUS
<1>4. SumOf(g, f, S) /\ Sums(h, k, S) /\ Lawful(g, f, S) /\ Lawful(h, k, S)
      /\ g \in [SUBSET S -> Nat]
  BY <1>1, <1>2 DEF IsTotal, SumOf
<1>5. g[S] = f[p] + g[rest] /\ h[S] = k[p] + h[rest]
  BY <1>3, <1>4 DEF Lawful
<1>. HIDE DEF rest
<1>6. g[rest] = h[rest]
  BY <1>3, <1>4, SumsAgree
<1>7. g[rest] \in Nat /\ f[p] \in Nat /\ k[p] \in Nat
  BY <1>3, <1>4
<1>8. SumFunction(f) = f[p] + g[rest] /\ SumFunction(k) = k[p] + g[rest]
  BY <1>1, <1>2, <1>5, <1>6 DEF IsTotal
<1>. QED
  BY <1>7, <1>8

\* What is zero outside a part is summed over the part.
LEMMA SumOfPart ==
    ASSUME NEW S, IsFiniteSet(S), NEW f \in [S -> Nat], NEW R \in SUBSET S,
           \A p \in S \ R : f[p] = 0, NEW k \in [R -> Nat], \A p \in R : k[p] = f[p]
    PROVE  SumFunction(k) = SumFunction(f)
<1>1. PICK g : IsTotal(g, f, S)
  BY TotalIsSum
<1>2. IsFiniteSet(R)
  BY FS_Subset
<1>3. PICK h : IsTotal(h, k, R)
  BY <1>2, TotalIsSum
<1>4. SumOf(g, f, S) /\ Sums(h, k, R)
  BY <1>1, <1>3 DEF IsTotal
<1>5. \A p \in R : f[p] = k[p]
  OBVIOUS
<1>6. g[R] = h[R]
  BY <1>4, <1>5, SumsAgree
<1>7. g[S] = g[R]
  BY <1>4, SumOfZeroes
<1>. QED
  BY <1>1, <1>3, <1>6, <1>7 DEF IsTotal

LEMMA SumOfNothing ==
    ASSUME NEW S, IsFiniteSet(S), NEW f \in [S -> Nat], \A p \in S : f[p] = 0
    PROVE  SumFunction(f) = 0
<1>1. PICK g : IsTotal(g, f, S)
  BY TotalIsSum
<1>2. SumOf(g, f, S) /\ Sums(g, f, S)
  BY <1>1 DEF IsTotal
<1>3. {} \in SUBSET S /\ \A p \in S \ {} : f[p] = 0
  OBVIOUS
<1>4. g[S] = g[{}]
  BY <1>2, <1>3, SumOfZeroes
<1>5. g[{}] = 0
  BY <1>2, <1>3 DEF Sums
<1>. QED
  BY <1>1, <1>4, <1>5 DEF IsTotal

\* Greater values have a greater sum.
LEMMA SumGrows ==
    ASSUME NEW S, IsFiniteSet(S), NEW f \in [S -> Nat], NEW k \in [S -> Nat],
           \A p \in S : f[p] <= k[p]
    PROVE  SumFunction(f) <= SumFunction(k)
<1>1. PICK g : IsTotal(g, f, S)
  BY TotalIsSum
<1>2. PICK h : IsTotal(h, k, S)
  BY TotalIsSum
<1>3. /\ Sums(g, f, S) /\ g \in [SUBSET S -> Nat] /\ h \in [SUBSET S -> Nat] /\ Sums(h, k, S)
  BY <1>1, <1>2 DEF IsTotal, SumOf
<1>. DEFINE T == {n \in Nat : \A s \in SUBSET S : Cardinality(s) = n => g[s] <= h[s]}
<1>4. 0 \in T
  <2>1. \A s \in SUBSET S : Cardinality(s) = 0 => s = {}
    BY FS_Subset, FS_EmptySet
  <2>2. g[{}] = 0 /\ h[{}] = 0
    BY <1>3 DEF Sums
  <2>. QED
    BY <2>1, <2>2
<1>5. ASSUME NEW n \in T PROVE n + 1 \in T
  <2>. SUFFICES ASSUME NEW s \in SUBSET S, Cardinality(s) = n + 1
                PROVE  g[s] <= h[s]
    OBVIOUS
  <2>. DEFINE q == Some(s)
  <2>0. n \in Nat
    OBVIOUS
  <2>1. s # {}
    <3>1. Cardinality({}) = 0
      BY FS_EmptySet
    <3>. QED
      BY <2>0, <3>1
  <2>2. q \in s
    BY <2>1 DEF Some
  <2>3. g[s] = f[q] + g[s \ {q}] /\ h[s] = k[q] + h[s \ {q}]
    BY <1>3, <2>1 DEF Sums
  <2>. HIDE DEF q
  <2>4. s \ {q} \in SUBSET S /\ Cardinality(s \ {q}) = n
    BY <2>0, <2>2, OneOut
  <2>5. g[s \ {q}] <= h[s \ {q}]
    BY <2>4
  <2>6. f[q] \in Nat /\ k[q] \in Nat /\ f[q] <= k[q] /\ g[s \ {q}] \in Nat /\ h[s \ {q}] \in Nat
    BY <1>3, <2>2, <2>4
  <2>. QED
    BY <2>3, <2>5, <2>6
<1>6. T = Nat
  <2>1. T \in SUBSET Nat
    OBVIOUS
  <2>. HIDE DEF T
  <2>. QED
    BY <1>4, <1>5, <2>1, AllNumbers
<1>7. Cardinality(S) \in T /\ S \in SUBSET S
  BY <1>6, FS_CardinalityType
<1>8. g[S] <= h[S]
  BY <1>7
<1>. QED
  BY <1>1, <1>2, <1>8 DEF IsTotal

\* One less of one, and at most one more of any.
LEMMA SumOfMove ==
    ASSUME NEW S, IsFiniteSet(S), NEW f \in [S -> Nat], NEW k \in [S -> Nat], NEW p \in S, f[p] >= 1,
           NEW q \in S, \A r \in S : k[r] <= f[r] - (IF r = p THEN 1 ELSE 0) + (IF r = q THEN 1 ELSE 0)
    PROVE  SumFunction(k) <= SumFunction(f)
<1>. DEFINE less == [r \in S |-> IF r = p THEN f[r] - 1 ELSE f[r]]
            more == [r \in S |-> IF r = q THEN less[r] + 1 ELSE less[r]]
<1>1. less \in [S -> Nat] /\ less[p] = f[p] - 1 /\ \A r \in S \ {p} : f[r] = less[r]
  OBVIOUS
<1>2. \A r \in S : less[r] = f[r] - (IF r = p THEN 1 ELSE 0)
  OBVIOUS
<1>. HIDE DEF less
<1>3. more \in [S -> Nat] /\ more[q] = less[q] + 1 /\ \A r \in S \ {q} : less[r] = more[r]
  BY <1>1
<1>4. \A r \in S : k[r] <= more[r]
  BY <1>1, <1>2
<1>. HIDE DEF more
<1>5. SumFunction(less) + f[p] = SumFunction(f) + less[p]
  BY <1>1, SumUpdate
<1>6. SumFunction(more) + less[q] = SumFunction(less) + more[q]
  BY <1>1, <1>3, SumUpdate
<1>7. SumFunction(k) <= SumFunction(more)
  BY <1>3, <1>4, SumGrows
<1>8. /\ SumFunction(k) \in Nat /\ SumFunction(f) \in Nat /\ SumFunction(less) \in Nat
      /\ SumFunction(more) \in Nat
  BY <1>1, <1>3, SumTyped
<1>9. f[p] \in Nat /\ less[q] \in Nat
  BY <1>1
<1>. QED
  BY <1>1, <1>3, <1>5, <1>6, <1>7, <1>8, <1>9

\* At most one less of one.
LEMMA SumOfLoss ==
    ASSUME NEW S, IsFiniteSet(S), NEW f \in [S -> Nat], NEW k \in [S -> Nat], NEW p \in S, f[p] >= 1,
           \A r \in S : k[r] >= f[r] - (IF r = p THEN 1 ELSE 0)
    PROVE  SumFunction(k) >= SumFunction(f) - 1
<1>. DEFINE less == [r \in S |-> IF r = p THEN f[r] - 1 ELSE f[r]]
<1>1. less \in [S -> Nat] /\ less[p] = f[p] - 1 /\ \A r \in S \ {p} : f[r] = less[r]
  OBVIOUS
<1>2. \A r \in S : less[r] <= k[r]
  OBVIOUS
<1>. HIDE DEF less
<1>3. SumFunction(less) + f[p] = SumFunction(f) + less[p]
  BY <1>1, SumUpdate
<1>4. SumFunction(less) <= SumFunction(k)
  BY <1>1, <1>2, SumGrows
<1>5. /\ SumFunction(k) \in Nat /\ SumFunction(f) \in Nat /\ SumFunction(less) \in Nat /\ f[p] \in Nat
  BY <1>1, SumTyped
<1>. QED
  BY <1>1, <1>3, <1>4, <1>5

-----------------------------------------------------------------------------
(* Induction over the subsets of a finite set, and over numbers, for what is *)
(* defined by itself of what is less.                                     *)

\* c picks an element of each subset; and P has a subset if it has what is left.
Picks(c, S) == \A s \in SUBSET S : s # {} => c[s] \in s
Grows(P, c, S) == \A s \in SUBSET S : s # {} /\ s \ {c[s]} \in P => s \in P

LEMMA AllSubsets ==
    ASSUME NEW S, IsFiniteSet(S), NEW c, Picks(c, S), NEW P, {} \in P, Grows(P, c, S)
    PROVE  SUBSET S \subseteq P
<1>0. /\ \A s \in SUBSET S : s # {} => c[s] \in s
      /\ \A s \in SUBSET S : s # {} /\ s \ {c[s]} \in P => s \in P
  BY DEF Picks, Grows
<1>. DEFINE T == {n \in Nat : \A s \in SUBSET S : Cardinality(s) = n => s \in P}
<1>1. 0 \in T
  <2>1. \A s \in SUBSET S : Cardinality(s) = 0 => s = {}
    BY FS_Subset, FS_EmptySet
  <2>. QED
    BY <2>1
<1>2. ASSUME NEW n \in T PROVE n + 1 \in T
  <2>. SUFFICES ASSUME NEW s \in SUBSET S, Cardinality(s) = n + 1 PROVE s \in P
    OBVIOUS
  <2>1. s # {}
    <3>1. Cardinality({}) = 0
      BY FS_EmptySet
    <3>. QED
      BY <3>1
  <2>2. c[s] \in s
    BY <1>0, <2>1
  <2>3. s \ {c[s]} \in SUBSET S /\ Cardinality(s \ {c[s]}) = n
    BY <2>2, OneOut
  <2>4. s \ {c[s]} \in P
    BY <2>3
  <2>. QED
    BY <1>0, <2>1, <2>4
<1>3. T = Nat
  <2>1. T \in SUBSET Nat
    OBVIOUS
  <2>. HIDE DEF T
  <2>. QED
    BY <1>1, <1>2, <2>1, AllNumbers
<1>4. ASSUME NEW s \in SUBSET S PROVE s \in P
  <2>1. Cardinality(s) \in T
    BY <1>3, FS_Subset, FS_CardinalityType
  <2>. QED
    BY <2>1
<1>. QED
  BY <1>4

\* g folds G over the subsets of S, in the order in which c takes elements away.
Folds(g, S, c, v, G) ==
    \A s \in SUBSET S : g[s] = IF s = {} THEN v ELSE G[<<c[s], g[s \ {c[s]}]>>]

LEMMA FoldExists ==
    ASSUME NEW S, IsFiniteSet(S), NEW c, Picks(c, S),
           NEW V, NEW v \in V, NEW G \in [S \X V -> V]
    PROVE  \E g \in [SUBSET S -> V] : Folds(g, S, c, v, G)
<1>. DEFINE Upto(g, n) == \A s \in SUBSET S : Cardinality(s) <= n =>
                g[s] = IF s = {} THEN v ELSE G[<<c[s], g[s \ {c[s]}]>>]
            T == {n \in Nat : \E g \in [SUBSET S -> V] : Upto(g, n)}
<1>1. \A s \in SUBSET S : IsFiniteSet(s) /\ Cardinality(s) \in Nat
  BY FS_Subset, FS_CardinalityType
<1>2. 0 \in T
  <2>. DEFINE g == [s \in SUBSET S |-> v]
  <2>1. \A s \in SUBSET S : Cardinality(s) <= 0 => s = {}
    BY <1>1, FS_EmptySet
  <2>2. g \in [SUBSET S -> V] /\ Upto(g, 0)
    BY <2>1
  <2>. QED
    BY <2>2
<1>3. ASSUME NEW n \in T PROVE n + 1 \in T
  <2>1. PICK g \in [SUBSET S -> V] : Upto(g, n)
    OBVIOUS
  <2>. DEFINE k == [s \in SUBSET S |-> IF s = {} \/ Cardinality(s) <= n THEN g[s]
                                       ELSE G[<<c[s], g[s \ {c[s]}]>>]]
  <2>2. ASSUME NEW s \in SUBSET S, s # {}
        PROVE  /\ c[s] \in s /\ s \ {c[s]} \in SUBSET S
               /\ G[<<c[s], g[s \ {c[s]}]>>] \in V /\ g[s] \in V
               /\ Cardinality(s \ {c[s]}) = Cardinality(s) - 1 /\ Cardinality(s) \in Nat
    <3>1. c[s] \in s
      BY <2>2 DEF Picks
    <3>2. /\ s \ {c[s]} \in SUBSET S
          /\ Cardinality(s \ {c[s]}) = Cardinality(s) - 1 /\ Cardinality(s) \in Nat
      BY <3>1, OneOut
    <3>3. <<c[s], g[s \ {c[s]}]>> \in S \X V
      BY <3>1, <3>2
    <3>. QED
      BY <3>1, <3>2, <3>3
  <2>3. k \in [SUBSET S -> V]
    BY <2>2, <2>1
  <2>4. ASSUME NEW s \in SUBSET S, Cardinality(s) <= n + 1
        PROVE  k[s] = IF s = {} THEN v ELSE G[<<c[s], k[s \ {c[s]}]>>]
    <3>1. CASE s = {}
      <4>1. Cardinality(s) <= n
        BY <3>1, FS_EmptySet
      <4>2. g[s] = IF s = {} THEN v ELSE G[<<c[s], g[s \ {c[s]}]>>]
        BY <2>1, <4>1
      <4>. QED
        BY <3>1, <4>2
    <3>2. CASE s # {}
      <4>1. k[s \ {c[s]}] = g[s \ {c[s]}]
        <5>1. s \ {c[s]} \in SUBSET S /\ Cardinality(s \ {c[s]}) = Cardinality(s) - 1 /\ Cardinality(s) \in Nat
          BY <2>2, <3>2
        <5>2. Cardinality(s \ {c[s]}) <= n
          BY <2>4, <5>1
        <5>. QED
          BY <5>1, <5>2
      <4>2. CASE Cardinality(s) <= n
        <5>1. g[s] = G[<<c[s], g[s \ {c[s]}]>>]
          BY <2>1, <3>2, <4>2
        <5>2. k[s] = g[s]
          BY <4>2
        <5>. QED
          BY <3>2, <4>1, <5>1, <5>2
      <4>3. CASE ~(Cardinality(s) <= n)
        <5>1. k[s] = G[<<c[s], g[s \ {c[s]}]>>]
          BY <3>2, <4>3
        <5>. QED
          BY <3>2, <4>1, <5>1
      <4>. QED
        BY <4>2, <4>3
    <3>. QED
      BY <3>1, <3>2
  <2>5. Upto(k, n + 1)
    BY <2>4
  <2>. HIDE DEF k, Upto
  <2>. QED
    BY <2>3, <2>5
<1>4. T = Nat
  <2>1. T \in SUBSET Nat
    OBVIOUS
  <2>. HIDE DEF T
  <2>. QED
    BY <1>2, <1>3, <2>1, AllNumbers
<1>5. Cardinality(S) \in T
  BY <1>4, FS_CardinalityType
<1>6. PICK g \in [SUBSET S -> V] : Upto(g, Cardinality(S))
  BY <1>5
<1>7. \A s \in SUBSET S : Cardinality(s) <= Cardinality(S)
  BY FS_Subset
<1>. QED
  BY <1>6, <1>7 DEF Folds

\* A function of a number that uses itself of the number before.
UsesBefore(f, D, v, G) == \A n \in 0..D : f[n] = G[<<n, IF n = 0 THEN v ELSE f[n - 1]>>]

LEMMA RecursionOnNumbers ==
    ASSUME NEW D \in Nat, NEW V, NEW v \in V, NEW G \in [(0..D) \X V -> V]
    PROVE  \E f \in [0..D -> V] : UsesBefore(f, D, v, G)
<1>. DEFINE Upto(f, k) == \A n \in 0..D : n <= k => f[n] = G[<<n, IF n = 0 THEN v ELSE f[n - 1]>>]
            T == {k \in Nat : \E f \in [0..D -> V] : Upto(f, k)}
<1>1. 0 \in T
  <2>. DEFINE f == [n \in 0..D |-> G[<<0, v>>]]
  <2>1. <<0, v>> \in (0..D) \X V /\ G[<<0, v>>] \in V
    OBVIOUS
  <2>2. f \in [0..D -> V]
    BY <2>1
  <2>3. ASSUME NEW n \in 0..D, n <= 0 PROVE f[n] = G[<<n, IF n = 0 THEN v ELSE f[n - 1]>>]
    <3>1. n = 0
      BY <2>3
    <3>2. f[n] = G[<<0, v>>]
      OBVIOUS
    <3>. HIDE DEF f
    <3>. QED
      BY <3>1, <3>2
  <2>. HIDE DEF f
  <2>. QED
    BY <2>2, <2>3
<1>2. ASSUME NEW k \in T PROVE k + 1 \in T
  <2>1. PICK f \in [0..D -> V] : Upto(f, k)
    BY <1>2
  <2>2. k \in Nat
    OBVIOUS
  <2>. DEFINE g == [n \in 0..D |-> IF n <= k THEN f[n] ELSE G[<<n, f[n - 1]>>]]
  <2>3. ASSUME NEW n \in 0..D, n > k PROVE n - 1 \in 0..D /\ <<n, f[n - 1]>> \in (0..D) \X V /\ G[<<n, f[n - 1]>>] \in V
    <3>1. n - 1 \in 0..D
      BY <2>2, <2>3
    <3>. QED
      BY <3>1
  <2>4. g \in [0..D -> V]
    BY <2>2, <2>3
  <2>5. ASSUME NEW n \in 0..D, n <= k + 1
        PROVE  g[n] = G[<<n, IF n = 0 THEN v ELSE g[n - 1]>>]
    <3>1. CASE n <= k
      <4>1. n # 0 => n - 1 \in 0..D /\ n - 1 <= k
        BY <2>2, <3>1
      <4>2. g[n] = f[n] /\ (n # 0 => g[n - 1] = f[n - 1])
        BY <3>1, <4>1
      <4>3. f[n] = G[<<n, IF n = 0 THEN v ELSE f[n - 1]>>]
        BY <2>1, <3>1
      <4>. HIDE DEF g
      <4>. QED
        BY <4>2, <4>3
    <3>2. CASE n = k + 1
      <4>1. n # 0 /\ n - 1 \in 0..D /\ n - 1 <= k /\ ~(n <= k)
        BY <2>2, <3>2
      <4>2. g[n] = G[<<n, f[n - 1]>>] /\ g[n - 1] = f[n - 1]
        BY <4>1
      <4>. HIDE DEF g
      <4>. QED
        BY <4>1, <4>2
    <3>. QED
      BY <2>2, <2>5, <3>1, <3>2
  <2>. HIDE DEF g
  <2>6. Upto(g, k + 1)
    BY <2>5
  <2>. QED
    BY <2>2, <2>4, <2>6
<1>3. T = Nat
  <2>. HIDE DEF T
  <2>1. T \subseteq Nat
    BY DEF T
  <2>. QED
    BY <1>1, <1>2, <2>1, AllNumbers
<1>4. D \in T
  BY <1>3
<1>5. PICK f \in [0..D -> V] : Upto(f, D)
  BY <1>4
<1>6. \A n \in 0..D : f[n] = G[<<n, IF n = 0 THEN v ELSE f[n - 1]>>]
  BY <1>5
<1>. QED
  BY <1>6 DEF UsesBefore

-----------------------------------------------------------------------------
(* Sums of sums and of products. *)

\* g sums f over the subsets of S, S itself among them.
Steps(g, f, S) ==
    /\ g \in [SUBSET S -> Nat] /\ g[{}] = 0 /\ g[S] = SumFunction(f)
    /\ \A s \in SUBSET S : \A p \in s : g[s] = f[p] + g[s \ {p}]

LEMMA SumBySteps ==
    ASSUME NEW S, IsFiniteSet(S), NEW f \in [S -> Nat]
    PROVE  \E g : Steps(g, f, S)
<1>1. PICK g : IsTotal(g, f, S)
  BY TotalIsSum
<1>2. g \in [SUBSET S -> Nat] /\ g[S] = SumFunction(f) /\ Sums(g, f, S) /\ Lawful(g, f, S)
  BY <1>1 DEF IsTotal, SumOf
<1>3. g[{}] = 0
  BY <1>2 DEF Sums
<1>. QED
  BY <1>2, <1>3 DEF Lawful, Steps

SomeOf(S) == [s \in SUBSET S |-> Some(s)]

LEMMA SomePicks == ASSUME NEW S PROVE Picks(SomeOf(S), S) /\ \A s \in SUBSET S : SomeOf(S)[s] = Some(s)
  BY DEF Picks, SomeOf, Some

LEMMA SomeIn == ASSUME NEW S, NEW s \in SUBSET S, s # {} PROVE /\ SomeOf(S)[s] \in s /\ SomeOf(S)[s] \in S
                                                                /\ s \ {SomeOf(S)[s]} \in SUBSET S
  BY DEF SomeOf, Some

\* The sum of sums.
LEMMA SumAdds ==
    ASSUME NEW S, IsFiniteSet(S), NEW f \in [S -> Nat], NEW h \in [S -> Nat], NEW k \in [S -> Nat],
           \A p \in S : k[p] = f[p] + h[p]
    PROVE  SumFunction(k) = SumFunction(f) + SumFunction(h)
<1>1. PICK F : Steps(F, f, S)
  BY SumBySteps
<1>2. PICK H : Steps(H, h, S)
  BY SumBySteps
<1>3. PICK K : Steps(K, k, S)
  BY SumBySteps
<1>. DEFINE P == {s \in SUBSET S : K[s] = F[s] + H[s]}
            c == SomeOf(S)
<1>4. {} \in P
  BY <1>1, <1>2, <1>3 DEF Steps
<1>5. ASSUME NEW s \in SUBSET S, s # {}, s \ {c[s]} \in P PROVE s \in P
  <2>1. c[s] \in s /\ c[s] \in S /\ s \ {c[s]} \in SUBSET S
    BY <1>5, SomeIn
  <2>. DEFINE q == c[s]
              r == s \ {q}
  <2>2. q \in s /\ q \in S /\ r \in SUBSET S /\ K[r] = F[r] + H[r]
    BY <1>5, <2>1
  <2>3. F[s] = f[q] + F[r] /\ H[s] = h[q] + H[r] /\ K[s] = k[q] + K[r]
    BY <1>1, <1>2, <1>3, <2>1 DEF Steps
  <2>4. F[r] \in Nat /\ H[r] \in Nat /\ K[r] \in Nat /\ f[q] \in Nat /\ h[q] \in Nat /\ k[q] = f[q] + h[q]
    BY <1>1, <1>2, <1>3, <2>2 DEF Steps
  <2>. HIDE DEF q, r
  <2>5. K[s] = F[s] + H[s]
    BY <2>2, <2>3, <2>4
  <2>. QED
    BY <2>5
<1>6. S \in P
  <2>1. Grows(P, c, S)
    BY <1>5 DEF Grows
  <2>. HIDE DEF P, c
  <2>2. Picks(c, S)
    BY SomePicks DEF c
  <2>. QED
    BY <1>4, <2>1, <2>2, AllSubsets
<1>. QED
  BY <1>1, <1>2, <1>3, <1>6 DEF Steps

\* None is greater than the sum.
LEMMA SumAbove ==
    ASSUME NEW S, IsFiniteSet(S), NEW f \in [S -> Nat], NEW p \in S
    PROVE  f[p] <= SumFunction(f)
<1>1. PICK F : Steps(F, f, S)
  BY SumBySteps
<1>2. F[S] = f[p] + F[S \ {p}] /\ F[S \ {p}] \in Nat /\ f[p] \in Nat /\ F[S] = SumFunction(f)
  BY <1>1 DEF Steps
<1>. QED
  BY <1>2

LEMMA TimesOne == ASSUME NEW c \in Nat, NEW m \in Int, c # 0 PROVE (c - 1) * m + m = c * m
  OBVIOUS

\* Of integers, negative ones too: g sums f by taking one element after another.
IntegerSteps(g, f, S) ==
    /\ g \in [SUBSET S -> Int] /\ g[{}] = 0 /\ g[S] = SumFunction(f)
    /\ \A s \in SUBSET S : s # {} => g[s] = f[Some(s)] + g[s \ {Some(s)}]

LEMMA IntegersSumBySteps ==
    ASSUME NEW S, IsFiniteSet(S), NEW f \in [S -> Int]
    PROVE  \E g : IntegerSteps(g, f, S)
<1>. DEFINE step(g) == [s \in SUBSET S |-> IF s = {} THEN 0
               ELSE f[CHOOSE p \in s : TRUE] + g[s \ {CHOOSE p \in s : TRUE}]]
            sum == CHOOSE g : g = step(g)
            G == [p \in S \X Int |-> f[p[1]] + p[2]]
            c == SomeOf(S)
<1>1. SumFunction(f) = sum[S]
  <2>1. DOMAIN f = S
    OBVIOUS
  <2>. QED
    BY <2>1 DEF SumFunction, SumFunctionOnSet, FoldFunctionOnSet, MapThenFoldSet
<1>2. Picks(c, S) /\ \A s \in SUBSET S : c[s] = Some(s)
  BY SomePicks
<1>. HIDE DEF c
<1>3. G \in [S \X Int -> Int] /\ \A p \in S, n \in Int : G[<<p, n>>] = f[p] + n
  <2>1. \A p \in S \X Int : p[1] \in S /\ p[2] \in Int /\ f[p[1]] + p[2] \in Int
    OBVIOUS
  <2>. QED
    BY <2>1
<1>. HIDE DEF G
<1>4. PICK g \in [SUBSET S -> Int] : Folds(g, S, c, 0, G)
  <2>1. 0 \in Int /\ G \in [S \X Int -> Int] /\ Picks(c, S)
    BY <1>2, <1>3
  <2>. QED
    BY <2>1, FoldExists
<1>5. \A s \in SUBSET S : g[s] = IF s = {} THEN 0 ELSE f[Some(s)] + g[s \ {Some(s)}]
  <2>. SUFFICES ASSUME NEW s \in SUBSET S, s # {} PROVE g[s] = f[Some(s)] + g[s \ {Some(s)}]
    BY <1>4 DEF Folds
  <2>1. g[s] = G[<<c[s], g[s \ {c[s]}]>>] /\ c[s] = Some(s)
    BY <1>2, <1>4 DEF Folds
  <2>2. c[s] \in S /\ s \ {c[s]} \in SUBSET S
    BY <1>2 DEF Picks
  <2>. QED
    BY <1>3, <2>1, <2>2
<1>6. g = step(g)
  BY <1>5 DEF Some
<1>7. sum = step(sum)
  <2>. HIDE DEF step
  <2>. QED
    BY <1>6
<1>8. \A s \in SUBSET S : sum[s] = IF s = {} THEN 0 ELSE f[Some(s)] + sum[s \ {Some(s)}]
  <2>1. \A s \in SUBSET S : sum[s] = step(sum)[s]
    <3>. HIDE DEF step, sum
    <3>. QED
      BY <1>7
  <2>. HIDE DEF sum
  <2>. QED
    BY <2>1 DEF Some
<1>. HIDE DEF sum
<1>9. S \in {s \in SUBSET S : g[s] = sum[s]}
  <2>. DEFINE P == {s \in SUBSET S : g[s] = sum[s]}
  <2>1. {} \in P
    BY <1>5, <1>8
  <2>2. Grows(P, c, S)
    <3>. SUFFICES ASSUME NEW s \in SUBSET S, s # {}, s \ {c[s]} \in P PROVE s \in P
      BY DEF Grows
    <3>. QED
      BY <1>2, <1>5, <1>8
  <2>. HIDE DEF P
  <2>3. SUBSET S \subseteq P
    BY <1>2, <2>1, <2>2, AllSubsets
  <2>. QED
    BY <2>3 DEF P
<1>10. g[S] = SumFunction(f) /\ g[{}] = 0
  BY <1>1, <1>5, <1>9
<1>. QED
  BY <1>5, <1>10 DEF IntegerSteps

\* Each is between two numbers, and one is above the lower of them.
LEMMA SumBetween ==
    ASSUME NEW S, IsFiniteSet(S), NEW f \in [S -> Int], NEW l \in Int, NEW m \in Int,
           \A p \in S : l <= f[p] /\ f[p] <= m
    PROVE  /\ SumFunction(f) \in Int /\ SumFunction(f) <= Cardinality(S) * m
           /\ (\E p \in S : l < f[p]) => Cardinality(S) * l < SumFunction(f)
<1>1. PICK F : IntegerSteps(F, f, S)
  BY IntegersSumBySteps
<1>. DEFINE Lower(s) == IF \E p \in s : l < f[p] THEN Cardinality(s) * l < F[s] ELSE Cardinality(s) * l <= F[s]
            P == {s \in SUBSET S : F[s] <= Cardinality(s) * m /\ Lower(s)}
            c == SomeOf(S)
<1>2. {} \in P
  <2>1. Cardinality({}) = 0 /\ F[{}] = 0 /\ 0 * m = 0 /\ 0 * l = 0
    BY <1>1, FS_EmptySet DEF IntegerSteps
  <2>. QED
    BY <2>1
<1>3. ASSUME NEW s \in SUBSET S, s # {}, s \ {c[s]} \in P PROVE s \in P
  <2>1. c[s] \in s /\ c[s] \in S /\ s \ {c[s]} \in SUBSET S /\ c[s] = Some(s)
    BY <1>3, SomeIn, SomePicks
  <2>. DEFINE q == c[s]
              r == s \ {q}
              n == Cardinality(s)
  <2>2. q \in s /\ q \in S /\ F[r] <= Cardinality(r) * m /\ Lower(r) /\ r \in SUBSET S
    BY <1>3, <2>1
  <2>3. F[s] = f[q] + F[r]
    BY <1>1, <1>3, <2>1 DEF IntegerSteps
  <2>4. F[r] \in Int /\ f[q] \in Int /\ l <= f[q] /\ f[q] <= m
    BY <1>1, <2>2 DEF IntegerSteps
  <2>5. n \in Nat /\ n # 0 /\ Cardinality(r) = n - 1
    BY <2>1, OneOut
  <2>6. (n - 1) * m + m = n * m /\ (n - 1) * l + l = n * l
    BY <2>5, TimesOne
  <2>7. (n - 1) * m \in Int /\ n * m \in Int /\ (n - 1) * l \in Int /\ n * l \in Int
    BY <2>5
  <2>8. \A p \in s : p = q \/ p \in r
    OBVIOUS
  <2>9. IF \E p \in r : l < f[p] THEN (n - 1) * l < F[r] ELSE (n - 1) * l <= F[r]
    BY <2>2, <2>5
  <2>. HIDE DEF q, r, n, c
  <2>10. F[s] <= n * m
    BY <2>2, <2>3, <2>4, <2>5, <2>6, <2>7
  <2>11. n * l <= F[s] /\ ((\E p \in r : l < f[p]) \/ l < f[q] => n * l < F[s])
    <3>. DEFINE a == (n - 1) * l
                b == n * l
    <3>1. a \in Int /\ b \in Int /\ b = a + l
      BY <2>6, <2>7
    <3>2. IF \E p \in r : l < f[p] THEN a < F[r] ELSE a <= F[r]
      BY <2>9
    <3>. HIDE DEF a, b
    <3>3. b <= F[s] /\ ((\E p \in r : l < f[p]) \/ l < f[q] => b < F[s])
      BY <2>3, <2>4, <3>1, <3>2
    <3>. QED
      BY <3>3 DEF b
  <2>12. Lower(s)
    BY <2>8, <2>11 DEF n
  <2>. QED
    BY <2>10, <2>12 DEF n
<1>4. S \in P
  <2>1. Grows(P, c, S)
    BY <1>3 DEF Grows
  <2>. HIDE DEF P, c
  <2>2. Picks(c, S)
    BY SomePicks DEF c
  <2>. QED
    BY <1>2, <2>1, <2>2, AllSubsets
<1>5. F[S] = SumFunction(f) /\ F[S] \in Int
  BY <1>1 DEF IntegerSteps
<1>. QED
  BY <1>4, <1>5

\* At most as often the greatest as there are.
LEMMA SumAtMost ==
    ASSUME NEW S, IsFiniteSet(S), NEW f \in [S -> Nat], NEW m \in Nat, \A p \in S : f[p] <= m
    PROVE  SumFunction(f) <= Cardinality(S) * m
<1>1. PICK F : Steps(F, f, S)
  BY SumBySteps
<1>. DEFINE P == {s \in SUBSET S : F[s] <= Cardinality(s) * m}
            c == SomeOf(S)
<1>2. {} \in P
  <2>1. Cardinality({}) = 0 /\ F[{}] = 0 /\ 0 * m = 0
    BY <1>1, FS_EmptySet DEF Steps
  <2>. QED
    BY <2>1
<1>3. ASSUME NEW s \in SUBSET S, s # {}, s \ {c[s]} \in P PROVE s \in P
  <2>1. c[s] \in s /\ c[s] \in S /\ s \ {c[s]} \in SUBSET S
    BY <1>3, SomeIn
  <2>. DEFINE q == c[s]
              r == s \ {q}
              n == Cardinality(s)
  <2>2. q \in s /\ q \in S /\ F[r] <= Cardinality(r) * m /\ r \in SUBSET S
    BY <1>3, <2>1
  <2>3. F[s] = f[q] + F[r]
    BY <1>1, <2>1 DEF Steps
  <2>4. F[r] \in Nat /\ f[q] \in Nat /\ f[q] <= m
    BY <1>1, <2>2 DEF Steps
  <2>5. n \in Nat /\ n # 0 /\ Cardinality(r) = n - 1
    BY <2>1, OneOut
  <2>6. (n - 1) * m + m = n * m
    BY <2>5, TimesOne
  <2>7. (n - 1) * m \in Nat /\ n * m \in Nat
    BY <2>5
  <2>. HIDE DEF q, r, n
  <2>8. F[s] <= n * m
    BY <2>2, <2>3, <2>4, <2>5, <2>6, <2>7
  <2>. QED
    BY <2>8 DEF n
<1>4. S \in P
  <2>1. Grows(P, c, S)
    BY <1>3 DEF Grows
  <2>. HIDE DEF P, c
  <2>2. Picks(c, S)
    BY SomePicks DEF c
  <2>. QED
    BY <1>2, <2>1, <2>2, AllSubsets
<1>. QED
  BY <1>1, <1>4 DEF Steps

LEMMA ProductOfSums ==
    ASSUME NEW a \in Nat, NEW b \in Nat, NEW c \in Nat, NEW d \in Nat, NEW e \in Nat, e <= c * d
    PROVE  /\ (a + c) * (b + d) - (a * b + e) >= a * d
           /\ (a + c) * (b + d) - (a * b + e) >= b * c
           /\ (a + c) * (b + d) \in Nat /\ a * b + e \in Nat /\ a * d \in Nat /\ b * c \in Nat
<1>1. (a + c) * (b + d) = a * b + a * d + c * b + c * d
  OBVIOUS
<1>2. c * b = b * c
  OBVIOUS
<1>3. a * b \in Nat /\ a * d \in Nat /\ b * c \in Nat /\ c * d \in Nat
  OBVIOUS
<1>. DEFINE ab == a * b
            ad == a * d
            bc == b * c
            cd == c * d
            all == (a + c) * (b + d)
<1>4. all = ab + ad + bc + cd /\ ab \in Nat /\ ad \in Nat /\ bc \in Nat /\ cd \in Nat /\ e <= cd
  BY <1>1, <1>2, <1>3
<1>. HIDE DEF ab, ad, bc, cd, all
<1>5. all - (ab + e) >= ad /\ all - (ab + e) >= bc /\ all \in Nat /\ ab + e \in Nat /\ ad \in Nat /\ bc \in Nat
  BY <1>4
<1>. QED
  BY <1>5 DEF ab, ad, bc, cd, all

\* The sum of products is at most the product of the sums, and by how much less.
LEMMA SumOfProducts ==
    ASSUME NEW S, IsFiniteSet(S), NEW f \in [S -> Nat], NEW h \in [S -> Nat], NEW k \in [S -> Nat],
           \A p \in S : k[p] = f[p] * h[p]
    PROVE  /\ SumFunction(k) <= SumFunction(f) * SumFunction(h)
           /\ \A p \in S : \E F, H \in Nat :
                /\ SumFunction(f) = f[p] + F /\ SumFunction(h) = h[p] + H
                /\ (\A q \in S \ {p} : f[q] <= F /\ h[q] <= H)
                /\ SumFunction(f) * SumFunction(h) - SumFunction(k) >= f[p] * H
                /\ SumFunction(f) * SumFunction(h) - SumFunction(k) >= h[p] * F
                /\ ((\A q \in S \ {p} : f[q] = 0 /\ h[q] = 0) => F = 0 /\ H = 0 /\ SumFunction(k) = k[p])
<1>1. PICK F : Steps(F, f, S)
  BY SumBySteps
<1>2. PICK H : Steps(H, h, S)
  BY SumBySteps
<1>3. PICK K : Steps(K, k, S)
  BY SumBySteps
<1>. DEFINE P == {s \in SUBSET S : K[s] <= F[s] * H[s]}
            c == SomeOf(S)
<1>4. {} \in P
  <2>1. F[{}] = 0 /\ H[{}] = 0 /\ K[{}] = 0
    BY <1>1, <1>2, <1>3 DEF Steps
  <2>. QED
    BY <2>1
<1>5. ASSUME NEW s \in SUBSET S, NEW q \in s, s \ {q} \in P
      PROVE  /\ K[s] <= F[s] * H[s]
             /\ F[s] * H[s] - K[s] >= f[q] * H[s \ {q}]
             /\ F[s] * H[s] - K[s] >= h[q] * F[s \ {q}]
  <2>. DEFINE r == s \ {q}
  <2>1. q \in S /\ r \in SUBSET S /\ K[r] <= F[r] * H[r]
    BY <1>5
  <2>2. F[s] = f[q] + F[r] /\ H[s] = h[q] + H[r] /\ K[s] = f[q] * h[q] + K[r]
    BY <1>1, <1>2, <1>3, <2>1 DEF Steps
  <2>3. F[r] \in Nat /\ H[r] \in Nat /\ K[r] \in Nat /\ f[q] \in Nat /\ h[q] \in Nat
    BY <1>1, <1>2, <1>3, <2>1 DEF Steps
  <2>. HIDE DEF r
  <2>4. /\ F[s] * H[s] - K[s] >= f[q] * H[r] /\ F[s] * H[s] - K[s] >= h[q] * F[r]
        /\ F[s] * H[s] \in Nat /\ K[s] \in Nat /\ f[q] * H[r] \in Nat
    <3>. DEFINE a == f[q]
                b == h[q]
                cc == F[r]
                d == H[r]
                e == K[r]
    <3>1. a \in Nat /\ b \in Nat /\ cc \in Nat /\ d \in Nat /\ e \in Nat /\ e <= cc * d
      BY <1>3, <2>1, <2>3 DEF Steps
    <3>2. F[s] = a + cc /\ H[s] = b + d /\ K[s] = a * b + e
      BY <2>2
    <3>. HIDE DEF a, b, cc, d, e
    <3>3. /\ (a + cc) * (b + d) - (a * b + e) >= a * d
          /\ (a + cc) * (b + d) - (a * b + e) >= b * cc
          /\ (a + cc) * (b + d) \in Nat /\ a * b + e \in Nat /\ a * d \in Nat
      BY <3>1, ProductOfSums
    <3>. QED
      BY <3>2, <3>3 DEF a, b, cc, d
  <2>. DEFINE x == F[s] * H[s]
              y == f[q] * H[r]
  <2>5. x - K[s] >= y /\ x \in Nat /\ K[s] \in Nat /\ y \in Nat
    BY <2>4
  <2>. HIDE DEF x, y
  <2>6. K[s] <= x
    BY <2>5
  <2>. QED
    BY <2>4, <2>6 DEF x, r
<1>6. \A s \in SUBSET S : s \in P
  <2>1. ASSUME NEW s \in SUBSET S, s # {}, s \ {c[s]} \in P PROVE s \in P
    <3>1. c[s] \in s
      BY <2>1, SomeIn
    <3>2. K[s] <= F[s] * H[s]
      BY <1>5, <2>1, <3>1
    <3>. QED
      BY <3>2
  <2>2. Grows(P, c, S)
    BY <2>1 DEF Grows
  <2>. HIDE DEF P, c
  <2>3. Picks(c, S)
    BY SomePicks DEF c
  <2>4. SUBSET S \subseteq P
    BY <1>4, <2>2, <2>3, AllSubsets
  <2>. QED
    BY <2>4
<1>7. F[S] = SumFunction(f) /\ H[S] = SumFunction(h) /\ K[S] = SumFunction(k)
  BY <1>1, <1>2, <1>3 DEF Steps
<1>8. SumFunction(k) <= SumFunction(f) * SumFunction(h)
  <2>1. S \in P
    BY <1>6
  <2>. QED
    BY <1>7, <2>1
<1>9. ASSUME NEW p \in S
      PROVE  \E Fp, Hp \in Nat :
                /\ SumFunction(f) = f[p] + Fp /\ SumFunction(h) = h[p] + Hp
                /\ (\A q \in S \ {p} : f[q] <= Fp /\ h[q] <= Hp)
                /\ SumFunction(f) * SumFunction(h) - SumFunction(k) >= f[p] * Hp
                /\ SumFunction(f) * SumFunction(h) - SumFunction(k) >= h[p] * Fp
                /\ ((\A q \in S \ {p} : f[q] = 0 /\ h[q] = 0) => Fp = 0 /\ Hp = 0 /\ SumFunction(k) = k[p])
  <2>. DEFINE r == S \ {p}
  <2>1. r \in SUBSET S /\ S \in SUBSET S /\ r \in P
    BY <1>6
  <2>2. F[r] \in Nat /\ H[r] \in Nat /\ F[S] = f[p] + F[r] /\ H[S] = h[p] + H[r] /\ K[S] = k[p] + K[r]
    BY <1>1, <1>2, <1>3, <2>1 DEF Steps
  <2>3. /\ F[S] * H[S] - K[S] >= f[p] * H[r]
        /\ F[S] * H[S] - K[S] >= h[p] * F[r]
    BY <1>5, <2>1
  <2>4. ASSUME NEW q \in r PROVE f[q] <= F[r] /\ h[q] <= H[r]
    <3>1. F[r] = f[q] + F[r \ {q}] /\ H[r] = h[q] + H[r \ {q}]
      BY <1>1, <1>2, <2>1 DEF Steps
    <3>2. F[r \ {q}] \in Nat /\ H[r \ {q}] \in Nat /\ f[q] \in Nat /\ h[q] \in Nat
      BY <1>1, <1>2, <2>1 DEF Steps
    <3>. QED
      BY <3>1, <3>2
  <2>5. ASSUME \A q \in r : f[q] = 0 /\ h[q] = 0 PROVE F[r] = 0 /\ H[r] = 0 /\ K[r] = 0
    <3>. DEFINE Z == {s \in SUBSET S : s \subseteq r => F[s] = 0 /\ H[s] = 0 /\ K[s] = 0}
    <3>1. {} \in Z
      BY <1>1, <1>2, <1>3 DEF Steps
    <3>2. ASSUME NEW s \in SUBSET S, s # {}, s \ {c[s]} \in Z PROVE s \in Z
      <4>. SUFFICES ASSUME s \subseteq r PROVE F[s] = 0 /\ H[s] = 0 /\ K[s] = 0
        OBVIOUS
      <4>1. c[s] \in s /\ c[s] \in S
        BY <3>2, SomeIn
      <4>2. F[s \ {c[s]}] = 0 /\ H[s \ {c[s]}] = 0 /\ K[s \ {c[s]}] = 0
        BY <3>2, <4>1
      <4>3. f[c[s]] = 0 /\ h[c[s]] = 0 /\ k[c[s]] = 0
        <5>1. f[c[s]] = 0 /\ h[c[s]] = 0
          BY <2>5, <4>1
        <5>2. k[c[s]] = f[c[s]] * h[c[s]] /\ 0 * 0 = 0
          BY <4>1
        <5>. QED
          BY <5>1, <5>2
      <4>4. F[s] = f[c[s]] + F[s \ {c[s]}] /\ H[s] = h[c[s]] + H[s \ {c[s]}] /\ K[s] = k[c[s]] + K[s \ {c[s]}]
        BY <1>1, <1>2, <1>3, <4>1 DEF Steps
      <4>. QED
        BY <4>2, <4>3, <4>4
    <3>3. Grows(Z, c, S)
      BY <3>2 DEF Grows
    <3>. HIDE DEF Z, c
    <3>4. Picks(c, S)
      BY SomePicks DEF c
    <3>5. SUBSET S \subseteq Z
      BY <3>1, <3>3, <3>4, AllSubsets
    <3>6. r \in Z
      BY <2>1, <3>5
    <3>. QED
      BY <3>6 DEF Z
  <2>6. k[p] \in Nat
    OBVIOUS
  <2>. HIDE DEF r, P
  <2>7. (\A q \in r : f[q] = 0 /\ h[q] = 0) => F[r] = 0 /\ H[r] = 0 /\ SumFunction(k) = k[p]
    BY <1>7, <2>2, <2>5, <2>6
  <2>. QED
    BY <1>7, <2>2, <2>3, <2>4, <2>7 DEF r
<1>. QED
  BY <1>8, <1>9
=============================================================================
