----------------------------- MODULE Sums_proofs -----------------------------
(***************************************************************************)
(* What SumOf computes: it is a natural number, it splits over a partition *)
(* of the domain, and the sum over one argument is the value there.  The   *)
(* fold that defines a sum by recursion computes the same (FoldIsSum).     *)
(***************************************************************************)
EXTENDS Sums, Integers, Functions, FiniteSetTheorems, FunctionTheorems, WellFoundedInduction, TLAPS

\* The unit coins of one argument are as many as its value.
LEMMA UnitsOfOne ==
  ASSUME NEW x, NEW n \in Nat
  PROVE  /\ IsFiniteSet({x} \X (1..n))
         /\ Cardinality({x} \X (1..n)) = n
<1> DEFINE b == [k \in 1..n |-> <<x, k>>]
<1>1. b \in Bijection(1..n, {x} \X (1..n))
  BY DEF Bijection, Injection, Surjection, IsInjective
<1>2. ExistsBijection(1..n, {x} \X (1..n))
  BY <1>1 DEF ExistsBijection
<1>3. IsFiniteSet(1..n) /\ Cardinality(1..n) = n
  BY FS_Interval
<1> QED
  BY <1>2, <1>3, FS_Bijection

\* A function with a finite domain has finitely many unit coins.
LEMMA UnitsFinite ==
  ASSUME NEW S, IsFiniteSet(S), NEW f \in [S -> Nat]
  PROVE  IsFiniteSet(Units(f))
<1> DEFINE g == [x \in S |-> {x} \X (1..f[x])]
           T == {{x} \X (1..f[x]) : x \in S}
<1>1. g \in Surjection(S, T)
  BY DEF Surjection
<1>2. IsFiniteSet(T)
  BY <1>1, FS_Surjection
<1>3. \A U \in T : IsFiniteSet(U)
  <2>1. \A x \in S : f[x] \in Nat
    OBVIOUS
  <2>2. \A x \in S : IsFiniteSet({x} \X (1..f[x]))
    BY <2>1, UnitsOfOne
  <2> QED
    BY <2>2, Zenon
<1>4. IsFiniteSet(UNION T)
  BY <1>2, <1>3, FS_UNION
<1> QED
  BY <1>4 DEF Units

\* A sum is a natural number.
LEMMA SumType ==
  ASSUME NEW S, IsFiniteSet(S), NEW f \in [S -> Nat]
  PROVE  SumOf(f) \in Nat
BY UnitsFinite, FS_CardinalityType DEF SumOf

\* A sum splits into the sum over A and the sum over the rest.
LEMMA SumSplit ==
  ASSUME NEW S, IsFiniteSet(S), NEW f \in [S -> Nat], NEW A \in SUBSET S
  PROVE  /\ SumOf(Without(f, A)) \in Nat
         /\ SumOf(Only(f, A)) \in Nat
         /\ SumOf(f) = SumOf(Without(f, A)) + SumOf(Only(f, A))
<1> DEFINE g == Without(f, A)
           h == Only(f, A)
<1>1. g \in [S \ A -> Nat] /\ h \in [A -> Nat]
  BY DEF Without, Only
<1>2. IsFiniteSet(S \ A) /\ IsFiniteSet(A)
  BY FS_Subset
<1>3. IsFiniteSet(Units(g)) /\ IsFiniteSet(Units(h))
  BY <1>1, <1>2, UnitsFinite
<1>4. Units(f) = Units(g) \cup Units(h)
  BY DEF Units, Without, Only
<1>5. Units(g) \cap Units(h) = {}
  BY DEF Units, Without, Only
<1>6. Cardinality(Units(f))
        = Cardinality(Units(g)) + Cardinality(Units(h)) - 0
  <2>1. Cardinality(Units(g) \cup Units(h))
          = Cardinality(Units(g)) + Cardinality(Units(h))
              - Cardinality(Units(g) \cap Units(h))
    BY <1>3, FS_Union, Zenon
  <2> QED
    BY <2>1, <1>4, <1>5, FS_EmptySet, Zenon
<1> QED
  BY <1>3, <1>6, FS_CardinalityType DEF SumOf

\* The sum of a function with one argument.
LEMMA SumOne ==
  ASSUME NEW x, NEW f \in [{x} -> Nat]
  PROVE  SumOf(f) = f[x]
<1>1. Units(f) = {x} \X (1..f[x])
  BY DEF Units
<1> QED
  BY <1>1, UnitsOfOne DEF SumOf

\* Setting one argument, new or old: the rest of the sum is untouched.
LEMMA SumWith ==
  ASSUME NEW S, IsFiniteSet(S), NEW f \in [S -> Nat], NEW x, NEW v \in Nat
  PROVE  /\ SumOf(Without(f, {x})) \in Nat
         /\ SumOf(With(f, x, v)) = SumOf(Without(f, {x})) + v
<1> DEFINE T == S \cup {x}
           g == With(f, x, v)
           r == Only(g, {x})
<1>1. IsFiniteSet(T)
  BY FS_AddElement
<1>2. g \in [T -> Nat]
  BY DEF With
<1>3. {x} \in SUBSET T
  OBVIOUS
<1> HIDE DEF T, g
<1>4. /\ SumOf(Without(g, {x})) \in Nat
      /\ SumOf(g) = SumOf(Without(g, {x})) + SumOf(r)
  BY <1>1, <1>2, <1>3, SumSplit
<1> USE DEF T, g
<1>5. Without(g, {x}) = Without(f, {x})
  BY DEF Without, With
<1>6. r \in [{x} -> Nat] /\ r[x] = v
  BY DEF Only, With
<1>7. SumOf(r) = v
  BY <1>6, SumOne
<1> QED
  BY <1>4, <1>5, <1>7

\* Taking one argument out takes its value off the sum.
LEMMA SumWithout ==
  ASSUME NEW S, IsFiniteSet(S), NEW f \in [S -> Nat], NEW x \in S
  PROVE  /\ SumOf(Without(f, {x})) \in Nat
         /\ SumOf(f) = SumOf(Without(f, {x})) + f[x]
<1>1. With(f, x, f[x]) = f
  BY DEF With
<1> QED
  BY <1>1, SumWith

\* A function that is zero everywhere has no unit coins.
LEMMA SumZero ==
  ASSUME NEW f, \A x \in DOMAIN f : f[x] = 0
  PROVE  SumOf(f) = 0
<1>1. Units(f) = {}
  BY DEF Units
<1> QED
  BY <1>1, FS_EmptySet DEF SumOf

\* No value exceeds the sum.
LEMMA SumBounds ==
  ASSUME NEW S, IsFiniteSet(S), NEW f \in [S -> Nat], NEW x \in S
  PROVE  f[x] <= SumOf(f)
<1>1. f[x] \in Nat
  OBVIOUS
<1>2. /\ SumOf(Without(f, {x})) \in Nat
      /\ SumOf(f) = SumOf(Without(f, {x})) + f[x]
  BY SumWithout
<1> QED
  BY <1>1, <1>2

\* Functions that differ in one value have sums that differ by as much.
LEMMA SumChanged ==
  ASSUME NEW S, IsFiniteSet(S), NEW f \in [S -> Nat], NEW g \in [S -> Nat],
         NEW x \in S, \A y \in S : y # x => g[y] = f[y]
  PROVE  SumOf(g) = SumOf(f) - f[x] + g[x]
<1>1. Without(g, {x}) = Without(f, {x})
  BY DEF Without
<1>2. /\ SumOf(Without(f, {x})) \in Nat
      /\ SumOf(f) = SumOf(Without(f, {x})) + f[x]
      /\ SumOf(g) = SumOf(Without(g, {x})) + g[x]
  BY SumWithout
<1>3. f[x] \in Nat /\ g[x] \in Nat
  OBVIOUS
<1> QED
  BY <1>1, <1>2, <1>3

\* The sum of a constant function.
LEMMA SumConstant ==
  ASSUME NEW S, IsFiniteSet(S), NEW n \in Nat
  PROVE  SumOf([x \in S |-> n]) = n * Cardinality(S)
<1>1. Units([x \in S |-> n]) = S \X (1..n)
  BY DEF Units
<1>2. IsFiniteSet(1..n) /\ Cardinality(1..n) = n
  BY FS_Interval
<1>3. Cardinality(S \X (1..n)) = Cardinality(S) * n
  BY <1>2, FS_Product
<1>4. Cardinality(S) \in Nat
  BY FS_CardinalityType
<1> QED
  BY <1>1, <1>3, <1>4 DEF SumOf

\* Sums grow with the values.
LEMMA SumMonotone ==
  ASSUME NEW S, IsFiniteSet(S), NEW f \in [S -> Nat], NEW g \in [S -> Nat],
         \A x \in S : f[x] <= g[x]
  PROVE  SumOf(f) <= SumOf(g)
<1>1. Units(f) \subseteq Units(g)
  BY DEF Units
<1>2. IsFiniteSet(Units(g))
  BY UnitsFinite
<1> QED
  BY <1>1, <1>2, FS_Subset DEF SumOf

-----------------------------------------------------------------------------
(* Induction by a least counterexample.                                    *)

LEMMA Least ==
  ASSUME NEW T \in SUBSET Nat, T # {}
  PROVE  \E n \in T : \A m \in T : n <= m
<1> DEFINE R == OpToRel(<, Nat)
<1>1. IsWellFoundedOn(R, Nat)
  BY NatLessThanWellFounded
<1>2. \A x \in Nat, y \in Nat : y < x => <<y, x>> \in R
  BY DEF OpToRel
<1> HIDE DEF R
<1>3. PICK n \in T : \A m \in T : ~ (<<m, n>> \in R)
  BY <1>1, WFMin
<1>4. ASSUME NEW m \in T PROVE n <= m
  <2>1. n \in Nat /\ m \in Nat /\ ~ (<<m, n>> \in R)
    BY <1>3
  <2>2. ~ (m < n)
    BY <1>2, <2>1
  <2> QED
    BY <2>1, <2>2
<1> QED
  BY <1>4

\* Induction up to n, for membership in a set.
LEMMA UpTo ==
  ASSUME NEW n \in Nat, NEW T, 0 \in T, \A i \in 0..(n - 1) : i \in T => i + 1 \in T
  PROVE  \A i \in 0..n : i \in T
<1> DEFINE Bad == {i \in 0..n : i \notin T}
<1>1. SUFFICES ASSUME Bad # {} PROVE FALSE
  OBVIOUS
<1>2. Bad \in SUBSET Nat
  OBVIOUS
<1>3. PICK m \in Bad : \A i \in Bad : m <= i
  <2> HIDE DEF Bad
  <2> QED
    BY <1>1, <1>2, Least
<1>4. m \in 0..n /\ m \notin T /\ m # 0
  OBVIOUS
<1>5. m - 1 \in 0..(n - 1) /\ m - 1 \notin T
  <2>1. m - 1 \in 0..(n - 1) /\ (m - 1) + 1 = m
    BY <1>4
  <2> QED
    BY <1>4, <2>1
<1>6. m - 1 \in Bad
  BY <1>5
<1> QED
  BY <1>3, <1>4, <1>6

\* The sum over the subsets of the domain, by taking out one argument at a time:
\* the equation has one solution only, whatever argument is taken.
LEMMA OneFold ==
  ASSUME NEW S, IsFiniteSet(S), NEW f \in [S -> Nat], NEW iter,
         iter = [s \in SUBSET S |->
                   IF s = {} THEN 0
                   ELSE LET x == CHOOSE y \in s : TRUE IN f[x] + iter[s \ {x}]]
  PROVE  iter[S] = SumOf(f)
<1> DEFINE Bad == {s \in SUBSET S : iter[s] # SumOf(Only(f, s))}
           T == {Cardinality(s) : s \in Bad}
<1>1. \A s \in SUBSET S : IsFiniteSet(s) /\ Cardinality(s) \in Nat
                             /\ Only(f, s) \in [s -> Nat]
  BY FS_Subset, FS_CardinalityType DEF Only
<1>2. SUFFICES ASSUME Bad # {} PROVE FALSE
  <2>1. Only(f, S) = f
    BY DEF Only
  <2> QED
    BY <2>1
<1>3. T \in SUBSET Nat /\ T # {}
  <2>1. \A s \in Bad : Cardinality(s) \in Nat
    BY <1>1
  <2> HIDE DEF Bad
  <2> QED
    BY <1>2, <2>1
<1>4. PICK n \in T : \A m \in T : n <= m
  <2> HIDE DEF T
  <2> QED
    BY <1>3, Least
<1>5. PICK s \in Bad : Cardinality(s) = n
  OBVIOUS
<1>6. s \in SUBSET S /\ iter[s] # SumOf(Only(f, s))
  OBVIOUS
<1>7. s # {}
  <2>1. ASSUME s = {} PROVE FALSE
    <3>1. iter[s] = 0
      BY <1>6, <2>1
    <3>2. SumOf(Only(f, s)) = 0
      BY <2>1, SumZero DEF Only
    <3> QED
      BY <1>6, <3>1, <3>2
  <2> QED
    BY <2>1
<1> DEFINE x == CHOOSE y \in s : TRUE
           rest == s \ {x}
<1>8. x \in s
  BY <1>7
<1>9. iter[s] = f[x] + iter[rest]
  BY <1>6, <1>7
<1> HIDE DEF x
<1>10. rest \in SUBSET S /\ Cardinality(rest) = n - 1 /\ n \in Nat
  BY <1>1, <1>5, <1>6, <1>8, FS_RemoveElement
<1>11. rest \notin Bad
  <2>1. ASSUME rest \in Bad PROVE FALSE
    <3>1. n - 1 \in T
      BY <1>10, <2>1
    <3> HIDE DEF T
    <3> QED
      BY <1>4, <1>10, <3>1
  <2> QED
    BY <2>1
<1>12. iter[rest] = SumOf(Only(f, rest))
  BY <1>10, <1>11
<1>13. /\ SumOf(Without(Only(f, s), {x})) \in Nat
       /\ SumOf(Only(f, s)) = SumOf(Without(Only(f, s), {x})) + Only(f, s)[x]
  BY <1>1, <1>6, <1>8, SumWithout
<1>14. Without(Only(f, s), {x}) = Only(f, rest) /\ Only(f, s)[x] = f[x] /\ f[x] \in Nat
  BY <1>6, <1>8 DEF Only, Without
<1> QED
  BY <1>6, <1>9, <1>12, <1>13, <1>14

\* FoldFunction with +, the way the runs compute the sums of decimals.
LEMMA FoldIsSum ==
  ASSUME NEW S, IsFiniteSet(S), NEW f \in [S -> Nat]
  PROVE  FoldFunction(LAMBDA x, y : x + y, 0, f) = SumOf(f)
<1> DEFINE Solves(g) == g = [s \in SUBSET S |->
                         IF s = {} THEN 0
                         ELSE LET x == CHOOSE y \in s : TRUE IN f[x] + g[s \ {x}]]
           iter == CHOOSE g : Solves(g)
           sums == [s \in SUBSET S |-> SumOf(Only(f, s))]
<1>1. DOMAIN f = S
  OBVIOUS
<1>2. FoldFunction(LAMBDA x, y : x + y, 0, f) = iter[S]
  BY <1>1 DEF FoldFunction, FoldFunctionOnSet, MapThenFoldSet
<1>3. Solves(sums)
  <2>1. ASSUME NEW s \in SUBSET S
        PROVE  sums[s] = IF s = {} THEN 0
                         ELSE LET x == CHOOSE y \in s : TRUE IN f[x] + sums[s \ {x}]
    <3>1. CASE s = {}
      <4>1. SumOf(Only(f, s)) = 0
        BY <3>1, SumZero DEF Only
      <4> QED
        BY <3>1, <4>1
    <3>2. CASE s # {}
      <4> DEFINE x == CHOOSE y \in s : TRUE
      <4>1. x \in s
        BY <3>2
      <4>2. IsFiniteSet(s) /\ Only(f, s) \in [s -> Nat]
        BY FS_Subset DEF Only
      <4> HIDE DEF x
      <4>3. /\ SumOf(Without(Only(f, s), {x})) \in Nat
            /\ SumOf(Only(f, s)) = SumOf(Without(Only(f, s), {x})) + Only(f, s)[x]
        BY <4>1, <4>2, SumWithout
      <4>4. Without(Only(f, s), {x}) = Only(f, s \ {x}) /\ Only(f, s)[x] = f[x] /\ f[x] \in Nat
        BY <4>1 DEF Only, Without
      <4>5. sums[s] = f[x] + sums[s \ {x}]
        BY <4>3, <4>4
      <4> QED
        BY <3>2, <4>5 DEF x
    <3> QED
      BY <3>1, <3>2
  <2> QED
    BY <2>1
<1>4. Solves(iter)
  <2> HIDE DEF Solves
  <2> QED
    BY <1>3
<1> HIDE DEF iter
<1>5. iter[S] = SumOf(f)
  BY <1>4, OneFold
<1> QED
  BY <1>2, <1>5
=============================================================================
