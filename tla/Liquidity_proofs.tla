--------------------------- MODULE Liquidity_proofs ---------------------------
(***************************************************************************)
(* The pools keep their types, their book and their coins, and implement   *)
(* Exchange, for every number of users, denoms, entries, blocks and        *)
(* trades, and for every scale and every value of the parameters.          *)
(***************************************************************************)
EXTENDS Liquidity, Sums_proofs, Dec_proofs, SequenceTheorems

-----------------------------------------------------------------------------
(* The book.                                                               *)

\* A book: entries below the next index, their sums, and at most two entries
\* of an address in a denom.
BookOK(es, n, ls) ==
  /\ n \in Nat
  /\ es \in [DOMAIN es -> Entry]
  /\ DOMAIN es \subseteq 1..n
  /\ ls \in [Denoms -> Nat]
  /\ \A d \in Denoms : ls[d] = EntrySum(es, d)
  /\ \A d \in Denoms, a \in Addresses : Cardinality(OwnEntries(es, d, a)) <= 2

LEMMA BookFinite ==
  ASSUME NEW es, NEW n, NEW ls, BookOK(es, n, ls)
  PROVE  /\ IsFiniteSet(DOMAIN es)
         /\ \A d, a : /\ IsFiniteSet(OwnEntries(es, d, a))
                      /\ Cardinality(OwnEntries(es, d, a)) \in Nat
<1>1. IsFiniteSet(1..n)
  BY FS_Interval DEF BookOK
<1>2. IsFiniteSet(DOMAIN es)
  BY <1>1, FS_Subset DEF BookOK
<1>3. \A d, a : OwnEntries(es, d, a) \subseteq DOMAIN es
  BY DEF OwnEntries, EntriesOf
<1> QED
  BY <1>2, <1>3, FS_Subset, FS_CardinalityType

LEMMA AmountInType ==
  ASSUME NEW e \in Entry, NEW d
  PROVE  AmountIn(e, d) \in Nat
BY DEF AmountIn, Entry

\* Writing one entry changes the sum of its denom by that entry alone.
LEMMA EntrySumWith ==
  ASSUME NEW S, IsFiniteSet(S), NEW es \in [S -> Entry], NEW d, NEW i,
         NEW e \in Entry
  PROVE  /\ EntrySum(Without(es, {i}), d) \in Nat
         /\ EntrySum(With(es, i, e), d) = EntrySum(Without(es, {i}), d) + AmountIn(e, d)
<1> DEFINE f == [j \in DOMAIN es |-> AmountIn(es[j], d)]
           g == [j \in DOMAIN With(es, i, e) |-> AmountIn(With(es, i, e)[j], d)]
           h == [j \in DOMAIN Without(es, {i}) |-> AmountIn(Without(es, {i})[j], d)]
<1>1. f \in [S -> Nat] /\ AmountIn(e, d) \in Nat
  BY AmountInType
<1>2. g = With(f, i, AmountIn(e, d))
  BY DEF With
<1>3. h = Without(f, {i})
  BY DEF Without
<1>4. /\ SumOf(Without(f, {i})) \in Nat
      /\ SumOf(With(f, i, AmountIn(e, d))) = SumOf(Without(f, {i})) + AmountIn(e, d)
  BY <1>1, SumWith
<1> QED
  BY <1>2, <1>3, <1>4 DEF EntrySum

\* Taking one entry out takes its amount off the sum of its denom.
LEMMA EntrySumWithout ==
  ASSUME NEW S, IsFiniteSet(S), NEW es \in [S -> Entry], NEW d, NEW i \in S
  PROVE  /\ EntrySum(Without(es, {i}), d) \in Nat
         /\ EntrySum(es, d) = EntrySum(Without(es, {i}), d) + AmountIn(es[i], d)
<1>1. With(es, i, es[i]) = es
  BY DEF With
<1> QED
  BY <1>1, EntrySumWith

\* A new index leaves the entries as they are.
LEMMA EntrySumNew ==
  ASSUME NEW S, NEW es \in [S -> Entry], NEW i, i \notin S
  PROVE  Without(es, {i}) = es
BY DEF Without

\* The place of an index is a number, and no two indexes have the same.
LEMMA PlaceType ==
  ASSUME NEW i \in Nat
  PROVE  Place(i) \in Nat
BY DEF Place

LEMMA PlaceInjective ==
  ASSUME NEW i \in Nat, NEW j \in Nat, Place(i) = Place(j)
  PROVE  i = j
<1>1. /\ i \div 10 \in Nat /\ i % 10 \in 0..9 /\ i = 10 * (i \div 10) + (i % 10)
      /\ j \div 10 \in Nat /\ j % 10 \in 0..9 /\ j = 10 * (j \div 10) + (j % 10)
  OBVIOUS
<1> DEFINE q == i \div 10
           r == i % 10
           u == j \div 10
           v == j % 10
<1>2. /\ q \in Nat /\ r \in 0..9 /\ i = 10 * q + r
      /\ u \in Nat /\ v \in 0..9 /\ j = 10 * u + v
  BY <1>1
<1>3. /\ Place(i) = IF i < 10 THEN 11 * i ELSE IF i < 100 THEN 11 * q + r + 1 ELSE i + 100
      /\ Place(j) = IF j < 10 THEN 11 * j ELSE IF j < 100 THEN 11 * u + v + 1 ELSE j + 100
  BY DEF Place
<1> HIDE DEF q, r, u, v
<1> QED
  BY <1>2, <1>3

\* Of two indexes one has the rank 2.
LEMMA RankTwo ==
  ASSUME NEW I \in SUBSET Nat, IsFiniteSet(I), Cardinality(I) = 2
  PROVE  \E i \in I : Rank(I, i) = 2
<1>1. I # {}
  BY FS_EmptySet
<1>2. PICK x \in I : TRUE
  BY <1>1
<1>3. IsFiniteSet(I \ {x}) /\ Cardinality(I \ {x}) = 1
  BY FS_RemoveElement
<1>4. PICK y : I \ {x} = {y}
  BY <1>3, FS_Singleton
<1>5. I = {x, y} /\ x \in Nat /\ y \in Nat
  BY <1>4
<1> /\ Place(x) \in Nat /\ Place(y) \in Nat
  BY <1>5, PlaceType
<1>6. CASE Place(x) <= Place(y)
  <2>1. {j \in I : Place(j) <= Place(y)} = I
    BY <1>5, <1>6
  <2> QED
    BY <1>5, <2>1 DEF Rank
<1>7. CASE Place(y) <= Place(x)
  <2>1. {j \in I : Place(j) <= Place(x)} = I
    BY <1>5, <1>7
  <2> QED
    BY <1>5, <2>1 DEF Rank
<1> QED
  BY <1>5, <1>6, <1>7

\* addLiquidity writes the second entry of the address, or a new one if it has
\* fewer than two.
LEMMA TargetCases ==
  ASSUME BookOK(entries, nextIndex, liqSum), NEW d \in Denoms, NEW a \in Addresses
  PROVE  \/ TargetIndex(d, a) \in OwnEntries(entries, d, a)
         \/ /\ TargetIndex(d, a) = nextIndex + 1
            /\ Cardinality(OwnEntries(entries, d, a)) <= 1
<1> DEFINE I == OwnEntries(entries, d, a)
<1>1. IsFiniteSet(I) /\ Cardinality(I) \in Nat /\ Cardinality(I) <= 2
  BY BookFinite DEF BookOK
<1>2. I \in SUBSET Nat
  BY DEF BookOK, OwnEntries, EntriesOf
<1> HIDE DEF I
<1>3. CASE Cardinality(I) >= 2
  <2>1. Cardinality(I) = 2
    BY <1>1, <1>3
  <2>2. \E i \in I : Rank(I, i) = 2
    BY <1>1, <1>2, <2>1, RankTwo
  <2> QED
    BY <1>3, <2>2 DEF TargetIndex, I
<1>4. CASE Cardinality(I) < 2
  BY <1>1, <1>4 DEF TargetIndex, I
<1> QED
  BY <1>1, <1>3, <1>4

\* addLiquidity keeps the book.
LEMMA AddToBookKeeps ==
  ASSUME BookOK(entries, nextIndex, liqSum),
         NEW d \in Denoms, NEW a \in Addresses, NEW amount \in Nat,
         AddToBook(d, a, amount)
  PROVE  /\ BookOK(entries', nextIndex', liqSum')
         /\ liqSum' = Add(liqSum, d, amount)
<1> DEFINE S == DOMAIN entries
           i == TargetIndex(d, a)
           e == [denom |-> d, address |-> a, amount |-> AmountAt(i) + amount]
<1>1. IsFiniteSet(S) /\ entries \in [S -> Entry]
  BY BookFinite DEF BookOK
<1>2. i \in Nat /\ i > 0
  <2>1. i \in OwnEntries(entries, d, a) \/ i = nextIndex + 1
    BY TargetCases
  <2>2. OwnEntries(entries, d, a) \subseteq 1..nextIndex /\ nextIndex \in Nat
    BY DEF BookOK, OwnEntries, EntriesOf
  <2> QED
    BY <2>1, <2>2
<1>3. AmountAt(i) \in Nat
  BY DEF BookOK, AmountAt, Entry
<1>4. e \in Entry /\ e.denom = d /\ e.address = a /\ e.amount = AmountAt(i) + amount
  BY <1>3 DEF Entry
<1> HIDE DEF e
<1>5. entries' = With(entries, i, e) /\ liqSum' = Add(liqSum, d, amount)
      /\ nextIndex' = IF i > nextIndex THEN i ELSE nextIndex
  BY DEF AddToBook, e
<1>6. nextIndex' \in Nat /\ nextIndex' >= nextIndex /\ i \in 1..nextIndex'
  BY <1>2, <1>5 DEF BookOK
<1>7. /\ entries' \in [DOMAIN entries' -> Entry]
      /\ DOMAIN entries' \subseteq 1..nextIndex'
      /\ DOMAIN entries' = S \cup {i}
  BY <1>4, <1>5, <1>6 DEF BookOK, With
<1>8. liqSum' \in [Denoms -> Nat]
  BY <1>5 DEF BookOK, Add
<1>9. ASSUME NEW o \in Denoms PROVE liqSum'[o] = EntrySum(entries', o)
  <2>1. /\ EntrySum(Without(entries, {i}), o) \in Nat
        /\ EntrySum(entries', o) = EntrySum(Without(entries, {i}), o) + AmountIn(e, o)
    BY <1>1, <1>4, <1>5, EntrySumWith
  <2>2. liqSum[o] = EntrySum(entries, o) /\ liqSum[o] \in Nat
    BY DEF BookOK
  <2>3. liqSum'[o] = IF o = d THEN liqSum[o] + amount ELSE liqSum[o]
    BY <1>5 DEF Add, BookOK
  <2>4. CASE i \in OwnEntries(entries, d, a)
    <3>1. i \in S /\ entries[i].denom = d
      BY <2>4 DEF OwnEntries, EntriesOf
    <3>2. EntrySum(entries, o) = EntrySum(Without(entries, {i}), o) + AmountIn(entries[i], o)
      BY <1>1, <3>1, EntrySumWithout
    <3>3. /\ AmountIn(entries[i], o) = IF o = d THEN AmountAt(i) ELSE 0
          /\ AmountIn(e, o) = IF o = d THEN AmountAt(i) + amount ELSE 0
      BY <1>4, <3>1 DEF AmountIn, AmountAt
    <3> QED
      BY <1>3, <2>1, <2>2, <2>3, <3>2, <3>3
  <2>5. CASE i = nextIndex + 1
    <3>1. i \notin S
      BY <2>5 DEF BookOK
    <3>2. EntrySum(entries, o) = EntrySum(Without(entries, {i}), o)
      BY <1>1, <3>1, EntrySumNew
    <3>3. AmountIn(e, o) = IF o = d THEN amount ELSE 0
      BY <1>4, <3>1 DEF AmountIn, AmountAt
    <3> QED
      BY <2>1, <2>2, <2>3, <3>2, <3>3
  <2> QED
    BY <2>4, <2>5, TargetCases
<1>10. ASSUME NEW o \in Denoms, NEW b \in Addresses
       PROVE  Cardinality(OwnEntries(entries', o, b)) <= 2
  <2>1. /\ IsFiniteSet(OwnEntries(entries, o, b))
        /\ Cardinality(OwnEntries(entries, o, b)) \in Nat
        /\ Cardinality(OwnEntries(entries, o, b)) <= 2
    BY BookFinite DEF BookOK
  <2>2. CASE i \in OwnEntries(entries, d, a)
    <3>1. OwnEntries(entries', o, b) = OwnEntries(entries, o, b)
      BY <1>4, <1>5, <1>7, <2>2 DEF OwnEntries, EntriesOf, With
    <3> QED
      BY <2>1, <3>1
  <2>3. CASE i = nextIndex + 1 /\ Cardinality(OwnEntries(entries, d, a)) <= 1
    <3>1. i \notin S
      BY <2>3 DEF BookOK
    <3>2. CASE o = d /\ b = a
      <4>1. OwnEntries(entries', o, b) = OwnEntries(entries, o, b) \cup {i}
        BY <1>4, <1>5, <1>7, <3>1, <3>2 DEF OwnEntries, EntriesOf, With
      <4>2. i \notin OwnEntries(entries, o, b)
        BY <3>1 DEF OwnEntries, EntriesOf
      <4>3. Cardinality(OwnEntries(entries', o, b)) = Cardinality(OwnEntries(entries, o, b)) + 1
        BY <2>1, <4>1, <4>2, FS_AddElement
      <4> QED
        BY <2>1, <2>3, <3>2, <4>3
    <3>3. CASE ~(o = d /\ b = a)
      <4>1. OwnEntries(entries', o, b) = OwnEntries(entries, o, b)
        BY <1>4, <1>5, <1>7, <3>1, <3>3 DEF OwnEntries, EntriesOf, With
      <4> QED
        BY <2>1, <4>1
    <3> QED
      BY <3>2, <3>3
  <2> QED
    BY <2>2, <2>3, TargetCases
<1> QED
  BY <1>5, <1>6, <1>7, <1>8, <1>9, <1>10 DEF BookOK

\* Coins are taken out of one entry, all of them or a part.
LEMMA ReduceEntry ==
  ASSUME NEW es, NEW n, NEW ls, BookOK(es, n, ls), NEW d \in Denoms,
         NEW i \in EntriesOf(es, d), NEW used \in Nat, used <= es[i].amount
  PROVE  BookOK([es EXCEPT ![i].amount = @ - used], n, Add(ls, d, -used))
<1> DEFINE S == DOMAIN es
           e == [es[i] EXCEPT !.amount = @ - used]
           fs == [es EXCEPT ![i].amount = @ - used]
<1>1. IsFiniteSet(S) /\ es \in [S -> Entry]
  BY BookFinite DEF BookOK
<1>2. i \in S /\ es[i].denom = d /\ es[i] \in Entry /\ es[i].amount \in Nat
  BY <1>1 DEF EntriesOf, Entry
<1>3. /\ e \in Entry /\ e.denom = d /\ e.address = es[i].address
      /\ e.amount = es[i].amount - used
  BY <1>2 DEF Entry
<1> HIDE DEF e
<1>4. fs = With(es, i, e) /\ fs \in [S -> Entry]
  BY <1>1, <1>2, <1>3 DEF With, e
<1> HIDE DEF fs
<1>5. ASSUME NEW o \in Denoms
      PROVE  Add(ls, d, -used)[o] = EntrySum(fs, o) /\ EntrySum(fs, o) \in Nat
  <2>1. /\ EntrySum(Without(es, {i}), o) \in Nat
        /\ EntrySum(fs, o) = EntrySum(Without(es, {i}), o) + AmountIn(e, o)
        /\ EntrySum(es, o) = EntrySum(Without(es, {i}), o) + AmountIn(es[i], o)
    BY <1>1, <1>2, <1>3, <1>4, EntrySumWith, EntrySumWithout
  <2>2. /\ AmountIn(e, o) = IF o = d THEN es[i].amount - used ELSE 0
        /\ AmountIn(es[i], o) = IF o = d THEN es[i].amount ELSE 0
    BY <1>2, <1>3 DEF AmountIn
  <2>3. /\ ls[o] = EntrySum(es, o) /\ ls[o] \in Nat
        /\ Add(ls, d, -used)[o] = IF o = d THEN ls[o] - used ELSE ls[o]
    BY DEF BookOK, Add
  <2> QED
    BY <1>2, <2>1, <2>2, <2>3
<1>6. Add(ls, d, -used) \in [Denoms -> Nat]
  <2>1. Add(ls, d, -used) \in [Denoms -> Int]
    BY DEF BookOK, Add
  <2> QED
    BY <1>5, <2>1
<1>7. \A o, b : OwnEntries(fs, o, b) = OwnEntries(es, o, b)
  BY <1>1, <1>2, <1>3, <1>4 DEF OwnEntries, EntriesOf, With
<1>8. BookOK(fs, n, Add(ls, d, -used))
  BY <1>4, <1>5, <1>6, <1>7 DEF BookOK
<1> QED
  BY <1>8 DEF fs

LEMMA DropEntry ==
  ASSUME NEW es, NEW n, NEW ls, BookOK(es, n, ls), NEW d \in Denoms,
         NEW i \in EntriesOf(es, d), NEW used \in Nat, used = es[i].amount
  PROVE  BookOK(Without(es, {i}), n, Add(ls, d, -used))
<1> DEFINE S == DOMAIN es
           fs == Without(es, {i})
<1>1. IsFiniteSet(S) /\ es \in [S -> Entry]
  BY BookFinite DEF BookOK
<1>2. i \in S /\ es[i].denom = d
  BY <1>1 DEF EntriesOf
<1>3. fs \in [S \ {i} -> Entry]
  BY <1>1 DEF Without
<1>4. ASSUME NEW o \in Denoms
      PROVE  Add(ls, d, -used)[o] = EntrySum(fs, o) /\ EntrySum(fs, o) \in Nat
  <2>1. /\ EntrySum(fs, o) \in Nat
        /\ EntrySum(es, o) = EntrySum(fs, o) + AmountIn(es[i], o)
    BY <1>1, <1>2, EntrySumWithout
  <2>2. AmountIn(es[i], o) = IF o = d THEN used ELSE 0
    BY <1>2 DEF AmountIn
  <2>3. /\ ls[o] = EntrySum(es, o) /\ ls[o] \in Nat
        /\ Add(ls, d, -used)[o] = IF o = d THEN ls[o] - used ELSE ls[o]
    BY DEF BookOK, Add
  <2> QED
    BY <2>1, <2>2, <2>3
<1>5. Add(ls, d, -used) \in [Denoms -> Nat]
  <2>1. Add(ls, d, -used) \in [Denoms -> Int]
    BY DEF BookOK, Add
  <2> QED
    BY <1>4, <2>1
<1>6. ASSUME NEW o \in Denoms, NEW b \in Addresses
      PROVE  Cardinality(OwnEntries(fs, o, b)) <= 2
  <2>1. /\ IsFiniteSet(OwnEntries(es, o, b))
        /\ Cardinality(OwnEntries(es, o, b)) <= 2
        /\ Cardinality(OwnEntries(es, o, b)) \in Nat
    BY BookFinite DEF BookOK
  <2>2. OwnEntries(fs, o, b) \subseteq OwnEntries(es, o, b)
    BY DEF OwnEntries, EntriesOf, Without
  <2>3. /\ Cardinality(OwnEntries(fs, o, b)) <= Cardinality(OwnEntries(es, o, b))
        /\ Cardinality(OwnEntries(fs, o, b)) \in Nat
    BY <2>1, <2>2, FS_Subset, FS_CardinalityType
  <2> QED
    BY <2>1, <2>3
<1> HIDE DEF fs
<1>7. fs \in [DOMAIN fs -> Entry] /\ DOMAIN fs \subseteq 1..n
  BY <1>3 DEF BookOK
<1>8. BookOK(fs, n, Add(ls, d, -used))
  BY <1>4, <1>5, <1>6, <1>7 DEF BookOK
<1> QED
  BY <1>8 DEF fs

\* The amounts of one and of two entries.
LEMMA AmountsOfOne ==
  ASSUME NEW x, entries[x].amount \in Nat
  PROVE  SumOf([j \in {x} |-> entries[j].amount]) = entries[x].amount
<1> DEFINE f == [j \in {x} |-> entries[j].amount]
<1>1. f \in [{x} -> Nat] /\ f[x] = entries[x].amount
  OBVIOUS
<1> HIDE DEF f
<1>2. SumOf(f) = f[x]
  BY <1>1, SumOne
<1> QED
  BY <1>1, <1>2 DEF f

LEMMA AmountsOfTwo ==
  ASSUME NEW x, NEW y, x # y, entries[x].amount \in Nat, entries[y].amount \in Nat
  PROVE  SumOf([j \in {x, y} |-> entries[j].amount]) = entries[x].amount + entries[y].amount
<1> DEFINE f == [j \in {x, y} |-> entries[j].amount]
           g == [j \in {x} |-> entries[j].amount]
<1>1. f \in [{x, y} -> Nat] /\ f[y] = entries[y].amount
  OBVIOUS
<1>2. Without(f, {y}) = g
  BY DEF Without
<1>3. IsFiniteSet({x, y})
  <2>1. IsFiniteSet({x} \cup {y})
    BY FS_Singleton, FS_AddElement
  <2>2. {x} \cup {y} = {x, y}
    OBVIOUS
  <2> QED
    BY <2>1, <2>2
<1> HIDE DEF f
<1>4. /\ SumOf(Without(f, {y})) \in Nat
      /\ SumOf(f) = SumOf(Without(f, {y})) + f[y]
  BY <1>1, <1>3, SumWithout
<1>5. SumOf(g) = entries[x].amount
  BY AmountsOfOne
<1> QED
  BY <1>1, <1>2, <1>4, <1>5 DEF f

\* A set of at most two indexes, in the order of their keys.
UpToTwo(I) ==
  \/ I = {}
  \/ \E x \in I : I = {x}
  \/ \E x, y \in I : I = {x, y} /\ Place(x) < Place(y)

LEMMA CountUpToTwo ==
  ASSUME NEW I \in SUBSET Nat, IsFiniteSet(I), Cardinality(I) \in Nat,
         Cardinality(I) <= 2
  PROVE  UpToTwo(I)
<1>1. CASE Cardinality(I) = 0
  BY <1>1, FS_EmptySet DEF UpToTwo
<1>2. CASE Cardinality(I) # 0
  <2>1. I # {}
    BY <1>2, FS_EmptySet
  <2>2. PICK x \in I : TRUE
    BY <2>1
  <2>3. /\ IsFiniteSet(I \ {x})
        /\ Cardinality(I \ {x}) = Cardinality(I) - 1
    BY <2>2, FS_RemoveElement
  <2>4. CASE Cardinality(I) = 1
    <3>1. I \ {x} = {}
      BY <2>3, <2>4, FS_EmptySet
    <3> QED
      BY <2>2, <3>1 DEF UpToTwo
  <2>5. CASE Cardinality(I) = 2
    <3>1. Cardinality(I \ {x}) = 1
      BY <2>3, <2>5
    <3>2. PICK y : I \ {x} = {y}
      BY <2>3, <3>1, FS_Singleton
    <3>3. I = {x, y} /\ x \in Nat /\ y \in Nat /\ x # y
      BY <3>2
    <3>4. CASE Place(x) < Place(y)
      BY <3>3, <3>4 DEF UpToTwo
    <3>5. CASE Place(y) < Place(x)
      BY <3>3, <3>5 DEF UpToTwo
    <3>6. /\ Place(x) \in Nat /\ Place(y) \in Nat /\ Place(x) # Place(y)
      BY <3>3, PlaceType, PlaceInjective
    <3> QED
      BY <3>4, <3>5, <3>6
  <2> QED
    BY <1>2, <2>4, <2>5
<1> QED
  BY <1>1, <1>2

LEMMA OwnUpToTwo ==
  ASSUME BookOK(entries, nextIndex, liqSum), NEW d \in Denoms, NEW a \in Addresses
  PROVE  UpToTwo(OwnEntries(entries, d, a))
<1> DEFINE I == OwnEntries(entries, d, a)
<1>1. IsFiniteSet(I) /\ Cardinality(I) \in Nat /\ Cardinality(I) <= 2
  BY BookFinite DEF BookOK
<1>2. I \in SUBSET Nat
  BY DEF BookOK, OwnEntries, EntriesOf
<1> QED
  BY <1>1, <1>2, CountUpToTwo

\* What an address has in a denom is a natural number.
LEMMA OwnSumType ==
  ASSUME BookOK(entries, nextIndex, liqSum), NEW d, NEW a
  PROVE  SumOf([i \in OwnEntries(entries, d, a) |-> entries[i].amount]) \in Nat
<1> DEFINE I == OwnEntries(entries, d, a)
           f == [i \in I |-> entries[i].amount]
<1>1. IsFiniteSet(I)
  BY BookFinite
<1>2. f \in [I -> Nat]
  BY DEF OwnEntries, EntriesOf, BookOK, Entry
<1> QED
  BY <1>1, <1>2, SumType

\* What removeLiquidityForAddress leaves of the entries.
Remaining(I, d, amount) ==
  [i \in DOMAIN entries \ UsedUp(I, d, amount) |->
     IF i \in Reached(I, d, amount)
       THEN [entries[i] EXCEPT !.amount = @ - (amount - Before(I, i))]
       ELSE entries[i]]

\* The loop stops in the first entry it reaches.
LEMMA RemoveFromOne ==
  ASSUME BookOK(entries, nextIndex, liqSum), NEW d \in Denoms, NEW I, NEW amount \in Nat,
         NEW x \in EntriesOf(entries, d), Reached(I, d, amount) = {x},
         Before(I, x) = 0, amount <= entries[x].amount
  PROVE  BookOK(Remaining(I, d, amount), nextIndex, Add(liqSum, d, -amount))
<1>1. x \in DOMAIN entries /\ entries[x] \in Entry /\ entries[x].amount \in Nat
  BY DEF BookOK, EntriesOf, Entry
<1>2. CASE entries[x].amount = amount
  <2>1. UsedUp(I, d, amount) = {x}
    BY <1>1, <1>2 DEF UsedUp
  <2>2. Remaining(I, d, amount) = Without(entries, {x})
    BY <2>1 DEF Remaining, Without
  <2> QED
    BY <1>2, <2>2, DropEntry
<1>3. CASE amount < entries[x].amount
  <2>1. UsedUp(I, d, amount) = {}
    BY <1>1, <1>3 DEF UsedUp
  <2>2. entries \in [DOMAIN entries -> Entry]
    BY DEF BookOK
  <2>3. [entries[x] EXCEPT !.amount = @ - (amount - 0)] = [entries[x] EXCEPT !.amount = @ - amount]
    BY <1>1 DEF Entry
  <2>4. Remaining(I, d, amount) = [entries EXCEPT ![x].amount = @ - amount]
    BY <1>1, <2>1, <2>2, <2>3 DEF Remaining
  <2>5. BookOK([entries EXCEPT ![x].amount = @ - amount], nextIndex, Add(liqSum, d, -amount))
    BY ReduceEntry
  <2> QED
    BY <2>4, <2>5
<1> QED
  BY <1>1, <1>2, <1>3

\* The loop uses the first entry up and stops in the second.
LEMMA RemoveFromTwo ==
  ASSUME BookOK(entries, nextIndex, liqSum), NEW d \in Denoms, NEW I, NEW amount \in Nat,
         NEW x \in EntriesOf(entries, d), NEW y \in EntriesOf(entries, d), x # y,
         Reached(I, d, amount) = {x, y}, Before(I, x) = 0,
         Before(I, y) = entries[x].amount, entries[x].amount <= amount,
         amount <= entries[x].amount + entries[y].amount
  PROVE  BookOK(Remaining(I, d, amount), nextIndex, Add(liqSum, d, -amount))
<1> DEFINE p == entries[x].amount
           q == entries[y].amount
           es == Without(entries, {x})
           ls == Add(liqSum, d, -p)
<1>1. /\ x \in DOMAIN entries /\ y \in DOMAIN entries
      /\ entries[x] \in Entry /\ entries[y] \in Entry /\ p \in Nat /\ q \in Nat
      /\ entries \in [DOMAIN entries -> Entry]
  BY DEF BookOK, EntriesOf, Entry
<1>2. BookOK(es, nextIndex, ls)
  BY <1>1, DropEntry
<1>3. y \in EntriesOf(es, d) /\ es[y] = entries[y]
  BY DEF EntriesOf, Without
<1>4. Add(ls, d, -(amount - p)) = Add(liqSum, d, -amount)
  <2>1. liqSum \in [Denoms -> Nat] /\ liqSum[d] \in Nat
    BY DEF BookOK
  <2>2. (liqSum[d] + -p) + -(amount - p) = liqSum[d] + -amount
    BY <1>1, <2>1
  <2>3. Add(ls, d, -(amount - p)) = [liqSum EXCEPT ![d] = (liqSum[d] + -p) + -(amount - p)]
    BY <2>1 DEF Add
  <2> QED
    BY <2>2, <2>3 DEF Add
<1>5. amount - p \in Nat /\ amount - p <= q
  BY <1>1
<1>6. CASE amount = p + q
  <2>1. UsedUp(I, d, amount) = {x, y}
    BY <1>1, <1>6 DEF UsedUp
  <2>2. Remaining(I, d, amount) = Without(es, {y})
    BY <2>1 DEF Remaining, Without
  <2>3. BookOK(Without(es, {y}), nextIndex, Add(ls, d, -(amount - p)))
    <3>1. amount - p = es[y].amount
      BY <1>1, <1>3, <1>6
    <3> HIDE DEF es, ls, p
    <3> QED
      BY <1>2, <1>3, <1>5, <3>1, DropEntry
  <2> QED
    BY <1>4, <2>2, <2>3
<1>7. CASE amount < p + q
  <2>1. UsedUp(I, d, amount) = {x}
    BY <1>1, <1>7 DEF UsedUp
  <2>2. Remaining(I, d, amount) = [es EXCEPT ![y].amount = @ - (amount - p)]
    BY <1>1, <2>1 DEF Remaining, Without
  <2>3. BookOK([es EXCEPT ![y].amount = @ - (amount - p)], nextIndex, Add(ls, d, -(amount - p)))
    <3>1. amount - p <= es[y].amount
      BY <1>3, <1>5
    <3> HIDE DEF es, ls, p
    <3> QED
      BY <1>2, <1>3, <1>5, <3>1, ReduceEntry
  <2> QED
    BY <1>4, <2>2, <2>3
<1> QED
  BY <1>1, <1>6, <1>7

\* removeLiquidityForAddress keeps the book.
LEMMA RemoveKeeps ==
  ASSUME BookOK(entries, nextIndex, liqSum), NEW d \in Denoms, NEW a \in Addresses,
         NEW amount \in Nat,
         SumOf([i \in OwnEntries(entries, d, a) |-> entries[i].amount]) >= amount
  PROVE  BookOK(Remaining(OwnEntries(entries, d, a), d, amount), nextIndex,
                Add(liqSum, d, -amount))
<1> DEFINE I == OwnEntries(entries, d, a)
           R == Reached(I, d, amount)
<1>1. I \subseteq EntriesOf(entries, d)
  BY DEF OwnEntries
<1>2. \A i \in EntriesOf(entries, d) : i \in Nat /\ entries[i].amount \in Nat
  BY DEF BookOK, EntriesOf, Entry
<1>3. UpToTwo(I)
  BY OwnUpToTwo
<1>4. SumOf([i \in I |-> entries[i].amount]) >= amount
  OBVIOUS
<1> HIDE DEF I
<1> \A i \in EntriesOf(entries, d) : Place(i) \in Nat
  BY <1>2, PlaceType
<1>5. ASSUME NEW i, {k \in I : Place(k) < Place(i)} = {} PROVE Before(I, i) = 0
  BY <1>5, SumZero DEF Before
<1>6. CASE amount = 0
  <2>1. \A i \in I : Before(I, i) \in Nat
    <3>1. ASSUME NEW i \in I PROVE Before(I, i) \in Nat
      <4> DEFINE J == {k \in I : Place(k) < Place(i)}
                 f == [j \in J |-> entries[j].amount]
      <4>1. f \in [J -> Nat]
        BY <1>1, <1>2
      <4>2. IsFiniteSet(I)
        BY BookFinite DEF I
      <4>3. IsFiniteSet(J)
        BY <4>2, FS_Subset
      <4> HIDE DEF J, f
      <4>4. SumOf(f) \in Nat
        BY <4>1, <4>3, SumType
      <4> QED
        BY <4>4 DEF Before, J, f
    <3> QED
      BY <3>1
  <2>2. R = {i \in I : \A j \in EntriesOf(entries, d) : Place(i) <= Place(j)}
    BY <1>6, <2>1 DEF Reached
  <2>3. CASE R = {}
    <3>1. UsedUp(I, d, amount) = {}
      BY <2>3 DEF UsedUp
    <3>2. Remaining(I, d, amount) = entries
      BY <2>3, <3>1 DEF Remaining, BookOK
    <3>3. Add(liqSum, d, -amount) = liqSum
      BY <1>6 DEF Add, BookOK
    <3> QED
      BY <3>2, <3>3 DEF I
  <2>4. CASE R # {}
    <3>1. PICK x \in R : TRUE
      BY <2>4
    <3>2. x \in EntriesOf(entries, d) /\ \A j \in EntriesOf(entries, d) : Place(x) <= Place(j)
      BY <1>1, <2>2, <3>1
    <3>3. R = {x}
      <4>1. ASSUME NEW z \in R PROVE z = x
        <5>1. z \in EntriesOf(entries, d) /\ Place(z) <= Place(x) /\ Place(x) <= Place(z)
          BY <1>1, <2>2, <3>2, <4>1
        <5> QED
          BY <1>2, <3>2, <5>1, PlaceInjective
      <4> QED
        BY <3>1, <4>1
    <3>4. {k \in I : Place(k) < Place(x)} = {}
      BY <1>1, <1>2, <3>2
    <3>5. Before(I, x) = 0
      BY <1>5, <3>4
    <3> HIDE DEF R
    <3>6. BookOK(Remaining(I, d, amount), nextIndex, Add(liqSum, d, -amount))
      BY <1>2, <1>6, <3>2, <3>3, <3>5, RemoveFromOne DEF R
    <3> QED
      BY <3>6 DEF I
  <2> QED
    BY <2>3, <2>4
<1>7. CASE amount > 0 /\ I = {}
  <2>1. SumOf([i \in I |-> entries[i].amount]) = 0
    BY <1>7, SumZero
  <2> QED
    BY <1>4, <1>7, <2>1
<1>8. ASSUME amount > 0, NEW x \in I, I = {x}
      PROVE  BookOK(Remaining(I, d, amount), nextIndex, Add(liqSum, d, -amount))
  <2>1. Before(I, x) = 0
    <3>1. Place(x) \in Nat
      BY <1>1
    <3>2. {k \in I : Place(k) < Place(x)} = {}
      BY <1>8, <3>1
    <3> QED
      BY <1>5, <3>2
  <2>2. R = {x}
    BY <1>8, <2>1 DEF Reached
  <2>3. amount <= entries[x].amount
    BY <1>1, <1>2, <1>4, <1>8, AmountsOfOne
  <2> HIDE DEF R
  <2> QED
    BY <1>1, <2>1, <2>2, <2>3, RemoveFromOne DEF R
<1>9. ASSUME amount > 0, NEW x \in I, NEW y \in I, I = {x, y}, Place(x) < Place(y)
      PROVE  BookOK(Remaining(I, d, amount), nextIndex, Add(liqSum, d, -amount))
  <2>1. /\ Place(x) \in Nat /\ Place(y) \in Nat /\ x # y
        /\ entries[x].amount \in Nat /\ entries[y].amount \in Nat
    BY <1>1, <1>2, <1>9
  <2>2. Before(I, x) = 0
    <3>1. {k \in I : Place(k) < Place(x)} = {}
      BY <1>9, <2>1
    <3> QED
      BY <1>5, <3>1
  <2>3. Before(I, y) = entries[x].amount
    <3>1. {k \in I : Place(k) < Place(y)} = {x}
      BY <1>9, <2>1
    <3> QED
      BY <2>1, <3>1, AmountsOfOne DEF Before
  <2>4. amount <= entries[x].amount + entries[y].amount
    BY <1>4, <1>9, <2>1, AmountsOfTwo
  <2>5. CASE entries[x].amount < amount
    <3>1. R = {x, y}
      BY <1>9, <2>1, <2>2, <2>3, <2>5 DEF Reached
    <3> HIDE DEF R
    <3> QED
      BY <1>1, <2>1, <2>2, <2>3, <2>4, <2>5, <3>1, RemoveFromTwo DEF R
  <2>6. CASE amount <= entries[x].amount
    <3>1. R = {x}
      BY <1>9, <2>1, <2>2, <2>3, <2>6 DEF Reached
    <3> HIDE DEF R
    <3> QED
      BY <1>1, <2>2, <2>6, <3>1, RemoveFromOne DEF R
  <2> QED
    BY <2>1, <2>5, <2>6
<1>10. BookOK(Remaining(I, d, amount), nextIndex, Add(liqSum, d, -amount))
  BY <1>3, <1>6, <1>7, <1>8, <1>9 DEF UpToTwo, I
<1> QED
  BY <1>10 DEF I

-----------------------------------------------------------------------------
(* Pairs and ratios.                                                       *)

\* Virtual amounts and ratios are no negative numbers.
PricesOK(ps, rs) ==
  /\ ps \in [Others -> [base: Nat, other: Nat]]
  /\ DOMAIN rs \subseteq Others
  /\ rs \in [DOMAIN rs -> Nat]

LEMMA ToDecType == ASSUME NEW i \in Nat PROVE ToDec(i) \in Nat
BY ScaleAssumption DEF ToDec

\* The full pools of a pair.
LEMMA FullType ==
  ASSUME NEW ls \in [Denoms -> Nat], NEW ps \in [Others -> [base: Nat, other: Nat]],
         NEW d \in Others
  PROVE  FullBase(ls, ps, d) \in Nat /\ FullOther(ls, ps, d) \in Nat
<1>1. ls[Base] \in Nat /\ ls[d] \in Nat /\ ps[d].base \in Nat /\ ps[d].other \in Nat
  BY DEF Denoms
<1> QED
  BY <1>1, ToDecType DEF FullBase, FullOther

\* updatePair leaves no negative amount: the product with whole coins is exact,
\* so the quotient is not below the coins of the base currency.
LEMMA BalancedPairType ==
  ASSUME NEW ls \in [Denoms -> Nat], NEW d \in Others, ratios[d] \in Nat, ratios[d] > 0
  PROVE  BalancedPair(ls, d) \in [base: Nat, other: Nat]
<1> DEFINE base == ToDec(ls[Base])
           other == ToDec(ls[d])
           r == ratios[d]
<1>1. ls[Base] \in Nat /\ ls[d] \in Nat
  BY DEF Denoms
<1>2. base \in Nat /\ other \in Nat
  BY <1>1, ToDecType
<1>3. Mul(base, r) = ls[Base] * r /\ Mul(base, r) \in Nat
  <2> DEFINE m == ls[Base]
  <2>1. m \in Nat /\ r \in Nat
    BY <1>1
  <2> HIDE DEF m, r
  <2>2. Mul(ToDec(m), r) = m * r /\ m * r \in Nat
    BY <2>1, MulWhole
  <2> QED
    BY <2>2 DEF m
<1> HIDE DEF other
<1>4. CASE Mul(base, r) > other
  BY <1>2, <1>3, <1>4 DEF BalancedPair, other
<1>5. CASE Mul(base, r) <= other
  <2>1. Quo(other, r) \in Nat /\ base <= Quo(other, r)
    BY <1>1, <1>2, <1>3, <1>5, QuoAtLeast
  <2> QED
    BY <1>2, <1>3, <1>5, <2>1 DEF BalancedPair, other
<1> QED
  BY <1>2, <1>3, <1>4, <1>5

LEMMA UpdatePairsKeeps ==
  ASSUME PricesOK(pairs, ratios), NEW ls \in [Denoms -> Nat], NEW d \in Denoms,
         UpdatePairs(ls, d)
  PROVE  PricesOK(pairs', ratios')
<1>1. \A o \in Concerned(d) \cap DOMAIN ratios :
        BalancedPair(ls, o) \in [base: Nat, other: Nat]
  <2>1. ASSUME NEW o \in Concerned(d) \cap DOMAIN ratios
        PROVE  BalancedPair(ls, o) \in [base: Nat, other: Nat]
    <3>1. o \in Others /\ ratios[o] \in Nat /\ ratios[o] > 0
      BY DEF UpdatePairs, Divisible, PricesOK
    <3> QED
      BY <3>1, BalancedPairType
  <2> QED
    BY <2>1
<1>2. pairs' \in [Others -> [base: Nat, other: Nat]]
  BY <1>1 DEF UpdatePairs, PricesOK
<1>3. Concerned(d) \subseteq Others
  BY DEF Concerned, Denoms
<1>4. /\ DOMAIN ratios' = DOMAIN ratios \cup Concerned(d)
      /\ ratios' \in [DOMAIN ratios' -> Nat]
  BY LiquidityAssumption DEF UpdatePairs, PricesOK
<1> QED
  BY <1>2, <1>3, <1>4 DEF PricesOK

LEMMA UpdatedRatiosType ==
  ASSUME PricesOK(pairs, ratios), NEW ls \in [Denoms -> Nat],
         NEW ps \in [Others -> [base: Nat, other: Nat]], NEW ds
  PROVE  PricesOK(ps, UpdatedRatios(ls, ps, ds))
<1> DEFINE known == {d \in ds \cap Others : FullBase(ls, ps, d) > 0}
           rs == UpdatedRatios(ls, ps, ds)
<1>1. ASSUME NEW d \in known
      PROVE  QuoInParts(FullOther(ls, ps, d), FullBase(ls, ps, d)) \in Nat
  <2>1. FullBase(ls, ps, d) \in Nat /\ FullOther(ls, ps, d) \in Nat /\ FullBase(ls, ps, d) > 0
    BY FullType
  <2> QED
    BY <2>1, QuoInPartsExact, QuoType
<1>2. DOMAIN rs = DOMAIN ratios \cup known
  BY DEF UpdatedRatios
<1>3. rs \in [DOMAIN ratios \cup known -> Nat]
  BY <1>1 DEF UpdatedRatios, PricesOK
<1> QED
  BY <1>2, <1>3 DEF PricesOK

LEMMA DecayedType ==
  ASSUME liqSum \in [Denoms -> Nat], NEW pair \in [base: Nat, other: Nat]
  PROVE  Decayed(pair) \in [base: Nat, other: Nat]
<1>1. liqSum[Base] \in Nat
  BY DEF Denoms
<1>2. ToDec(liqSum[Base]) \in Nat
  BY <1>1, ToDecType
<1>3. Quo(ToDec(liqSum[Base]), Factor) \in Nat
  BY <1>2, QuoType, LiquidityAssumption
<1>4. pair.other \in Nat /\ Mul(pair.other, Decay) \in Nat
  BY MulType, LiquidityAssumption
<1> QED
  BY <1>3, <1>4 DEF Decayed

\* The two pools of a step.
LEMMA PoolTypes ==
  ASSUME PricesOK(pairs, ratios), liqSum \in [Denoms -> Nat],
         NEW f \in Denoms, NEW t \in Denoms, f # t, Base \in {f, t}
  PROVE  PoolFrom(f, t) \in Nat /\ PoolTo(f, t) \in Nat
<1>1. CASE f = Base
  BY <1>1, FullType DEF PoolFrom, PoolTo, PricesOK, Denoms
<1>2. CASE f # Base
  BY <1>2, FullType DEF PoolFrom, PoolTo, PricesOK, Denoms
<1> QED
  BY <1>1, <1>2

\* Forward asks for no negative amount: its quotient is above the pool by less
\* than one coin.
LEMMA ForwardType ==
  ASSUME NEW from \in Nat, NEW to \in Nat, NEW offer \in Nat, from + ToDec(offer) > 0
  PROVE  Forward(from, to, offer) \in Nat
<1> DEFINE g == from + ToDec(offer)
           n == from * to
           m == HalfEven(n)
           q == Quo(m, g)
<1>1. ToDec(offer) \in Nat /\ g \in Nat /\ g > 0 /\ n \in Nat
  BY ToDecType
<1>2. n <= g * to
  <2> DEFINE o == ToDec(offer)
  <2>1. o \in Nat
    BY <1>1
  <2> HIDE DEF o
  <2>2. (from + o) * to = from * to + o * to /\ o * to \in Nat
    BY <2>1
  <2> QED
    BY <2>2, <1>1 DEF o
<1> HIDE DEF n, g
<1>3. m \in Nat /\ 2 * (Scale * m) <= 2 * n + Scale
  BY <1>1, HalfEvenBounds, HalfEvenNear
<1> HIDE DEF m
<1>4. q \in Nat /\ 2 * (q * g) <= 2 * (m * Scale) + g
  BY <1>1, <1>3, QuoType, QuoNear
<1>5. QuoInParts(Mul(from, to), g) = q
  <2>1. Mul(from, to) = m
    BY <1>1 DEF Mul, ChopRound, m, n
  <2> QED
    BY <1>1, <1>3, <2>1, QuoInPartsExact
<1> HIDE DEF q
<1>6. q < to + Scale
  <2>1. SUFFICES ASSUME q >= to + Scale PROVE FALSE
    BY <1>4, ScaleAssumption
  <2>2. 2 * (q * g) <= 2 * (g * to) + Scale + g
    <3> DEFINE x == q * g
               y == g * to
               z == m * Scale
    <3>1. x \in Nat /\ y \in Nat /\ z \in Nat /\ Scale * m = z
      BY <1>1, <1>3, <1>4, ScaleAssumption
    <3>2. 2 * x <= 2 * z + g /\ 2 * z <= 2 * n + Scale /\ n <= y
      BY <1>2, <1>3, <1>4, <3>1
    <3> HIDE DEF x, y, z
    <3>3. 2 * x <= 2 * y + Scale + g
      BY <1>1, <3>1, <3>2, ScaleAssumption
    <3> QED
      BY <3>3 DEF x, y
  <2>3. (to + Scale) * g <= q * g
    BY <1>1, <1>4, <2>1, ScaleAssumption
  <2>4. (to + Scale) * g = g * to + Scale * g
    BY <1>1, ScaleAssumption
  <2>5. Scale * g >= Scale + g - 1 /\ Scale * g >= Scale /\ Scale * g >= 2 * g
    BY <1>1, ScaleAssumption
  <2> DEFINE x == q * g
             y == g * to
             z == Scale * g
  <2>6. x \in Nat /\ y \in Nat /\ z \in Nat
    BY <1>1, <1>4, ScaleAssumption
  <2>7. /\ 2 * x <= 2 * y + Scale + g
        /\ y + z <= x
        /\ z >= Scale + g - 1
        /\ z >= Scale
        /\ z >= 2 * g
    BY <2>2, <2>3, <2>4, <2>5
  <2> HIDE DEF x, y, z
  <2> QED
    BY <1>1, <2>6, <2>7, ScaleAssumption
<1>7. CASE to - q >= 0
  <2>1. to - q \in Nat
    BY <1>4, <1>7
  <2> QED
    BY <1>5, <2>1, RoundTruncate DEF Forward, g
<1>8. CASE to - q < 0
  <2>1. -(to - q) \in Nat /\ -(to - q) < (0 + 1) * Scale
    BY <1>4, <1>6, <1>8, ScaleAssumption
  <2>2. (-(to - q)) \div Scale = 0
    BY <2>1, ScaleAssumption, DivMod, DivBelow
  <2> QED
    BY <1>5, <1>8, <2>2 DEF Forward, TruncateInt, g
<1> QED
  BY <1>4, <1>7, <1>8

-----------------------------------------------------------------------------
(* The inductive invariant.                                                *)

ChainOK ==
  /\ strays \subseteq Unlisted
  /\ unchecked \subseteq Denoms \cup Unlisted
  /\ halted \in BOOLEAN
  /\ genesis \in BOOLEAN
  /\ txs \in 0..MaxTxs
  /\ blocks \in 0..MaxBlocks
  /\ stage # "idle" => unchecked = {}

DriftOK ==
  /\ drift \in [Denoms -> Int]
  /\ dropped \in [Denoms -> Nat]

BankOK(p, t, r) ==
  /\ p \in [Denoms -> Nat]
  /\ t \in [Denoms -> Nat]
  /\ r \in [Denoms -> Nat]

\* The running trade: its denoms differ, a step with a pool has two of them,
\* and no more is taken than is wanted.
DealOK ==
  /\ stage \in {"idle", "begin", "take", "pay", "end"}
  /\ deal \in [start: Denoms, end: Denoms, fee: 0..Scale, liquidation: BOOLEAN]
  /\ step \in {1, 2}
  /\ stage # "idle" => deal.start # deal.end
  /\ stage = "end" => step = 2
  /\ stage \in {"take", "pay"} => From # To

WorkOK ==
  /\ work \in Work
  /\ work.feeNext > 0
  /\ work.giveNext > 0
  /\ work.left <= work.wanted
  /\ stage = "take" => work.wanted > 0
  /\ stage # "pay" => work.given = 0

\* What PoolTrade holds: between the steps of a trade the base currency that
\* the second step offers, while a step pays the coins it still has to move.
FlowOK ==
  /\ stage # "pay" => \A d \in Others : tradePool[d] = 0
  /\ stage \in {"begin", "take"} /\ step = 2 => tradePool[Base] >= work.offer
  /\ stage = "pay" =>
       /\ \A d \in Others \ {From, To} : tradePool[d] = 0
       /\ tradePool[From] >= work.used
       /\ From # Base => tradePool[From] = work.used
       /\ tradePool[To] >= work.feeLeft + work.feeForReserve

\* What a failing trade falls back to is a state between transactions.
SavedOK ==
  stage # "idle" =>
    /\ BookOK(saved.entries, saved.nextIndex, saved.liqSum)
    /\ BankOK(saved.pool, saved.tradePool, saved.reserve)
    /\ saved.drift \in [Denoms -> Int]
    /\ \A d \in Denoms : saved.liqSum[d] = saved.pool[d] + (saved.drift[d] - dropped[d])
    /\ \A d \in Others : saved.tradePool[d] = 0

\* Coins in the accounts of the dex, now and before the running trade.
Held(d) == pool[d] + tradePool[d] + reserve[d]
HeldBefore(d) == saved.pool[d] + saved.tradePool[d] + saved.reserve[d]

\* What the entries of the bought denom have given up and may get back as fees.
Owed == IF stage = "take" THEN Gross ELSE IF stage = "pay" THEN work.feeLeft ELSE 0

\* How far a running trade has moved coins and claims: only those of its two
\* denoms, and the claims on the base currency in between.
Progress ==
  stage # "idle" =>
    /\ \A d \in Denoms \ {deal.start, deal.end} : Held(d) = HeldBefore(d)
    /\ Held(deal.start) >= HeldBefore(deal.start)
    /\ Held(deal.end) <= HeldBefore(deal.end)
    /\ \A d \in Denoms \ {deal.start, deal.end, Base} : liqSum[d] = saved.liqSum[d]
    /\ liqSum[deal.start] >= saved.liqSum[deal.start]
    /\ liqSum[deal.end] <= saved.liqSum[deal.end]
    /\ To = deal.end => liqSum[To] + Owed <= saved.liqSum[To]

Inv ==
  /\ ChainOK
  /\ BookOK(entries, nextIndex, liqSum)
  /\ PricesOK(pairs, ratios)
  /\ BankOK(pool, tradePool, reserve)
  /\ DriftOK
  /\ DealOK
  /\ WorkOK
  /\ FlowOK
  /\ PoolAccounting
  /\ SavedOK
  /\ Progress

LEMMA ExcessType ==
  ASSUME Inv, NEW d \in Denoms
  PROVE  Excess(d) \in Int /\ drift[d] \in Int /\ dropped[d] \in Nat
BY DEF Inv, DriftOK, Excess

LEMMA ExcessFrame ==
  ASSUME drift' = drift, dropped' = dropped
  PROVE  \A d : Excess(d)' = Excess(d)
BY DEF Excess

\* Between transactions the entries of a denom promise what the pool holds, up
\* to the Excess.
LEMMA IdleAccounting ==
  ASSUME stage = "idle"
  PROVE  PoolAccounting <=> \A d \in Denoms : liqSum[d] + 0 = pool[d] + 0 + Excess(d)
BY DEF PoolAccounting, Taken, Given

LEMMA InvInit == Init => Inv
<1> SUFFICES ASSUME Init PROVE Inv
  OBVIOUS
<1> USE LiquidityAssumption DEF Init
<1>1. ChainOK
  <2>1. halted \in BOOLEAN /\ genesis \in BOOLEAN
    BY Zenon
  <2>2. txs \in 0..MaxTxs /\ blocks \in 0..MaxBlocks
    OBVIOUS
  <2> QED
    BY <2>1, <2>2 DEF ChainOK
<1>2. BookOK(entries, nextIndex, liqSum)
  <2>1. DOMAIN entries = {} /\ entries \in [DOMAIN entries -> Entry]
    OBVIOUS
  <2>2. ASSUME NEW d \in Denoms PROVE EntrySum(entries, d) = 0
    BY <2>1, SumZero DEF EntrySum
  <2>3. ASSUME NEW d \in Denoms, NEW a \in Addresses
        PROVE  Cardinality(OwnEntries(entries, d, a)) = 0
    <3>1. OwnEntries(entries, d, a) = {}
      BY <2>1 DEF OwnEntries, EntriesOf
    <3> QED
      BY <3>1, FS_EmptySet
  <2> QED
    BY <2>1, <2>2, <2>3 DEF BookOK
<1>3. PricesOK(pairs, ratios)
  BY DEF PricesOK
<1>4. BankOK(pool, tradePool, reserve) /\ DriftOK
  BY DEF BankOK, DriftOK
<1>5. DealOK
  BY ScaleAssumption DEF DealOK, NoDeal, Denoms
<1>6. WorkOK
  BY DEF WorkOK, NoWork, Work
<1>7. FlowOK /\ SavedOK /\ Progress
  BY DEF FlowOK, SavedOK, Progress, Denoms
<1>8. PoolAccounting
  BY IdleAccounting DEF Excess
<1> QED
  BY <1>1, <1>2, <1>3, <1>4, <1>5, <1>6, <1>7, <1>8 DEF Inv

\* Steps outside of a trade leave what is about trades as it is.
LEMMA IdleFrame ==
  ASSUME Inv, stage = "idle", UNCHANGED trading, UNCHANGED <<tradePool, drift, dropped>>,
         pool' \in [Denoms -> Nat], reserve' \in [Denoms -> Nat],
         \A d \in Denoms : liqSum'[d] - pool'[d] = liqSum[d] - pool[d],
         liqSum' \in [Denoms -> Nat]
  PROVE  /\ BankOK(pool', tradePool', reserve')
         /\ DriftOK'
         /\ DealOK'
         /\ WorkOK'
         /\ FlowOK'
         /\ PoolAccounting'
         /\ SavedOK'
         /\ Progress'
<1> USE DEF trading
<1>1. BankOK(pool', tradePool', reserve') /\ DriftOK'
  BY DEF Inv, BankOK, DriftOK
<1>2. DealOK' /\ WorkOK' /\ FlowOK'
  BY DEF Inv, DealOK, WorkOK, FlowOK, From, To
<1>3. SavedOK' /\ Progress'
  BY DEF SavedOK, Progress
<1>4. PoolAccounting'
  <2>1. \A d \in Denoms : liqSum[d] + 0 = pool[d] + 0 + Excess(d)
    BY IdleAccounting DEF Inv
  <2>2. ASSUME NEW d \in Denoms PROVE liqSum'[d] + 0 = pool'[d] + 0 + Excess(d)'
    <3>1. /\ liqSum[d] \in Nat /\ pool[d] \in Nat /\ Excess(d) \in Int
          /\ liqSum'[d] \in Nat /\ pool'[d] \in Nat /\ Excess(d)' = Excess(d)
      BY ExcessType, ExcessFrame DEF Inv, BookOK, BankOK
    <3> QED
      BY <2>1, <3>1
  <2> QED
    BY <2>2 DEF PoolAccounting, Taken, Given
<1> QED
  BY <1>1, <1>2, <1>3, <1>4

\* AddLiquidity of the keeper keeps the book and the prices.
LEMMA AddAndBalanceKeeps ==
  ASSUME Inv, NEW d \in Denoms, NEW a \in Addresses, NEW amount \in Nat,
         AddAndBalance(d, a, amount)
  PROVE  /\ BookOK(entries', nextIndex', liqSum')
         /\ PricesOK(pairs', ratios')
         /\ liqSum' = Add(liqSum, d, amount)
         /\ liqSum' \in [Denoms -> Nat]
<1>1. BookOK(entries', nextIndex', liqSum') /\ liqSum' = Add(liqSum, d, amount)
  BY AddToBookKeeps DEF Inv, AddAndBalance
<1>2. liqSum' \in [Denoms -> Nat]
  BY <1>1 DEF BookOK
<1>3. PricesOK(pairs', ratios')
  BY <1>2, UpdatePairsKeeps DEF Inv, AddAndBalance
<1> QED
  BY <1>1, <1>2, <1>3

\* A sum and a balance that move together keep their difference.
LEMMA AddBoth ==
  ASSUME NEW f \in [Denoms -> Nat], NEW g \in [Denoms -> Nat], NEW d \in Denoms,
         NEW a \in Int
  PROVE  \A o \in Denoms : Add(f, d, a)[o] - Add(g, d, a)[o] = f[o] - g[o]
<1>1. ASSUME NEW o \in Denoms
      PROVE  Add(f, d, a)[o] - Add(g, d, a)[o] = f[o] - g[o]
  <2>1. f[o] \in Nat /\ g[o] \in Nat
    OBVIOUS
  <2>2. CASE o = d
    BY <2>1, <2>2 DEF Add
  <2>3. CASE o # d
    BY <2>1, <2>3 DEF Add
  <2> QED
    BY <2>2, <2>3
<1> QED
  BY <1>1

LEMMA AddLiquidityKeeps ==
  ASSUME Inv, txs' \in 0..MaxTxs, NEW u \in Users, NEW d \in Denoms, NEW amount \in Nat,
         AddLiquidity(u, d, amount)
  PROVE  Inv'
<1>1. u \in Addresses
  BY DEF Addresses
<1>2. /\ BookOK(entries', nextIndex', liqSum')
      /\ PricesOK(pairs', ratios')
      /\ liqSum' = Add(liqSum, d, amount)
      /\ liqSum' \in [Denoms -> Nat]
  BY <1>1, AddAndBalanceKeeps DEF AddLiquidity
<1>3. ChainOK'
  BY DEF AddLiquidity, Inv, ChainOK, chain, trading
<1>4. pool' \in [Denoms -> Nat] /\ reserve' \in [Denoms -> Nat]
  BY DEF AddLiquidity, Inv, BankOK, Add
<1>5. \A o \in Denoms : liqSum'[o] - pool'[o] = liqSum[o] - pool[o]
  <2>1. liqSum \in [Denoms -> Nat] /\ pool \in [Denoms -> Nat] /\ amount \in Int
    BY DEF Inv, BookOK, BankOK
  <2>2. pool' = Add(pool, d, amount)
    BY DEF AddLiquidity
  <2> QED
    BY <1>2, <2>1, <2>2, AddBoth
<1>6. stage = "idle" /\ UNCHANGED trading /\ UNCHANGED <<tradePool, drift, dropped>>
  BY DEF AddLiquidity, InTx, Idle
<1> QED
  BY <1>2, <1>3, <1>4, <1>5, <1>6, IdleFrame DEF Inv

LEMMA RemoveLiquidityKeeps ==
  ASSUME Inv, txs' \in 0..MaxTxs, NEW u \in Users, NEW d \in Denoms, NEW amount \in Nat,
         RemoveLiquidityForAddress(u, d, amount)
  PROVE  Inv'
<1> DEFINE I == OwnEntries(entries, d, u)
<1>1. u \in Addresses
  BY DEF Addresses
<1>2. /\ SumOf([i \in I |-> entries[i].amount]) >= amount
      /\ amount <= pool[d]
      /\ entries' = Remaining(I, d, amount)
      /\ nextIndex' = nextIndex
      /\ liqSum' = Add(liqSum, d, -amount)
      /\ pool' = Add(pool, d, -amount)
      /\ UpdatePairs(liqSum', d)
  BY DEF RemoveLiquidityForAddress, Remaining
<1>3. BookOK(entries', nextIndex', liqSum')
  BY <1>1, <1>2, RemoveKeeps DEF Inv
<1>4. liqSum' \in [Denoms -> Nat]
  BY <1>3 DEF BookOK
<1>5. PricesOK(pairs', ratios')
  BY <1>2, <1>4, UpdatePairsKeeps DEF Inv
<1>6. ChainOK'
  BY DEF RemoveLiquidityForAddress, Inv, ChainOK, chain, trading
<1>7. pool' \in [Denoms -> Nat] /\ reserve' \in [Denoms -> Nat]
  <2>1. reserve' = reserve
    BY DEF RemoveLiquidityForAddress
  <2>2. pool \in [Denoms -> Nat] /\ reserve \in [Denoms -> Nat] /\ pool[d] - amount \in Nat
    BY <1>2 DEF Inv, BankOK
  <2> QED
    BY <1>2, <2>1, <2>2 DEF Add
<1>8. \A o \in Denoms : liqSum'[o] - pool'[o] = liqSum[o] - pool[o]
  <2>1. liqSum \in [Denoms -> Nat] /\ pool \in [Denoms -> Nat] /\ -amount \in Int
    BY DEF Inv, BookOK, BankOK
  <2> QED
    BY <1>2, <2>1, AddBoth
<1>9. stage = "idle" /\ UNCHANGED trading /\ UNCHANGED <<tradePool, drift, dropped>>
  BY DEF RemoveLiquidityForAddress, InTx, Idle
<1> QED
  BY <1>3, <1>4, <1>5, <1>6, <1>7, <1>8, <1>9, IdleFrame DEF Inv

\* The vault gets no more than the reserve has.
LEMMA VaultShareBounds ==
  ASSUME reserve \in [Denoms -> Nat], NEW d \in Denoms
  PROVE  VaultShare(d) \in Nat /\ VaultShare(d) <= reserve[d]
<1> DEFINE a == ToDec(reserve[d])
           b == DexFeeShare[d]
<1>1. reserve[d] \in Nat /\ b \in Nat /\ b <= Scale
  BY LiquidityAssumption, ScaleAssumption
<1>2. a \in Nat
  BY <1>1, ToDecType
<1> HIDE DEF b
<1>3. Mul(a, b) \in Nat /\ Mul(a, b) <= a
  BY <1>1, <1>2, MulType, MulBelow
<1>4. RoundInt(Mul(a, b)) \in Nat /\ RoundInt(Mul(a, b)) <= reserve[d]
  BY <1>1, <1>3, RoundTruncate, RoundBelow
<1> QED
  BY <1>4 DEF VaultShare, b

LEMMA BeginBlockKeeps ==
  ASSUME Inv, txs' = txs, NEW check \in BOOLEAN, BeginBlock(check)
  PROVE  Inv'
<1>1. /\ stage = "idle" /\ UNCHANGED trading /\ UNCHANGED <<tradePool, drift, dropped>>
      /\ UNCHANGED book /\ UNCHANGED bank
  BY DEF BeginBlock, Idle, bank
<1>2. /\ entries' = entries /\ nextIndex' = nextIndex /\ liqSum' = liqSum
      /\ pool' = pool /\ reserve' = reserve
  BY <1>1 DEF book, bank
<1>3. BookOK(entries', nextIndex', liqSum')
  BY <1>2 DEF Inv
<1>4. /\ liqSum \in [Denoms -> Nat] /\ pairs \in [Others -> [base: Nat, other: Nat]]
      /\ pool \in [Denoms -> Nat] /\ reserve \in [Denoms -> Nat]
  BY DEF Inv, BookOK, PricesOK, BankOK
<1>5. pairs' \in [Others -> [base: Nat, other: Nat]]
  <2>1. \A d \in Others : Decayed(pairs[d]) \in [base: Nat, other: Nat]
    BY <1>4, DecayedType
  <2> QED
    BY <1>4, <2>1 DEF BeginBlock
<1>6. PricesOK(pairs', ratios')
  BY <1>4, <1>5, UpdatedRatiosType DEF BeginBlock, Inv
<1>7. ChainOK'
  <2>1. halted' \in BOOLEAN /\ genesis' \in BOOLEAN
    BY Zenon DEF BeginBlock, Inv, ChainOK
  <2>2. txs' \in 0..MaxTxs /\ blocks' \in 0..MaxBlocks
    BY LiquidityAssumption DEF BeginBlock, Inv, ChainOK
  <2>3. strays' \subseteq Unlisted /\ unchecked' \subseteq Denoms \cup Unlisted
    BY DEF BeginBlock, Inv, ChainOK
  <2> QED
    BY <1>1, <2>1, <2>2, <2>3 DEF ChainOK, trading
<1>8. \A o \in Denoms : liqSum'[o] - pool'[o] = liqSum[o] - pool[o]
  BY <1>2
<1> QED
  BY <1>1, <1>2, <1>3, <1>4, <1>6, <1>7, <1>8, IdleFrame DEF Inv

LEMMA BurnReserveKeeps ==
  ASSUME Inv, txs' = txs, NEW d \in Denoms, BurnReserve(d)
  PROVE  Inv'
<1>1. /\ stage = "idle" /\ UNCHANGED trading /\ UNCHANGED <<tradePool, drift, dropped>>
      /\ UNCHANGED book /\ UNCHANGED prices /\ pool' = pool
  BY DEF BurnReserve, Due, Inv, ChainOK
<1>2. BookOK(entries', nextIndex', liqSum') /\ PricesOK(pairs', ratios') /\ liqSum' = liqSum
  BY <1>1 DEF book, prices, Inv
<1>3. liqSum \in [Denoms -> Nat] /\ pool \in [Denoms -> Nat] /\ reserve' \in [Denoms -> Nat]
  BY DEF Inv, BookOK, BankOK, BurnReserve
<1>4. ChainOK'
  BY <1>1 DEF BurnReserve, Inv, ChainOK, trading
<1>5. \A o \in Denoms : liqSum'[o] - pool'[o] = liqSum[o] - pool[o]
  BY <1>1, <1>2
<1> QED
  BY <1>1, <1>2, <1>3, <1>4, <1>5, IdleFrame DEF Inv

LEMMA CheckReserveKeeps ==
  ASSUME Inv, txs' = txs, NEW d \in Denoms, CheckReserveForDenom(d)
  PROVE  Inv'
<1> DEFINE amount == reserve[d] - VaultShare(d)
<1>1. /\ stage = "idle" /\ UNCHANGED trading /\ UNCHANGED <<tradePool, drift, dropped>>
  BY DEF CheckReserveForDenom, Due, Inv, ChainOK
<1>2. /\ liqSum \in [Denoms -> Nat] /\ pool \in [Denoms -> Nat]
      /\ reserve \in [Denoms -> Nat] /\ reserve[d] \in Nat
  BY DEF Inv, BookOK, BankOK
<1>3. amount \in Nat
  BY <1>2, VaultShareBounds
<1>4. AddAndBalance(d, Reserve, amount) /\ pool' = Add(pool, d, amount)
  BY DEF CheckReserveForDenom
<1> HIDE DEF amount
<1>5. Reserve \in Addresses
  BY DEF Addresses
<1>6. /\ BookOK(entries', nextIndex', liqSum')
      /\ PricesOK(pairs', ratios')
      /\ liqSum' = Add(liqSum, d, amount)
      /\ liqSum' \in [Denoms -> Nat]
  BY <1>3, <1>4, <1>5, AddAndBalanceKeeps
<1>7. pool' \in [Denoms -> Nat]
  BY <1>2, <1>3, <1>4 DEF Add
<1>8. reserve' \in [Denoms -> Nat]
  BY <1>2 DEF CheckReserveForDenom
<1>9. ChainOK'
  BY <1>1 DEF CheckReserveForDenom, Inv, ChainOK, trading
<1>10. \A o \in Denoms : liqSum'[o] - pool'[o] = liqSum[o] - pool[o]
  BY <1>2, <1>3, <1>4, <1>6, AddBoth
<1> QED
  BY <1>1, <1>6, <1>7, <1>8, <1>9, <1>10, IdleFrame DEF Inv

LEMMA CheckReserveFailsKeeps ==
  ASSUME Inv, txs' = txs, NEW d \in Denoms \cup Unlisted, CheckReserveFails(d)
  PROVE  Inv'
<1>1. /\ stage = "idle" /\ UNCHANGED trading /\ UNCHANGED <<tradePool, drift, dropped>>
      /\ UNCHANGED book /\ UNCHANGED prices /\ UNCHANGED bank
  BY DEF CheckReserveFails, Due, Inv, ChainOK, bank
<1>2. /\ BookOK(entries', nextIndex', liqSum') /\ PricesOK(pairs', ratios')
      /\ liqSum' = liqSum /\ pool' = pool /\ reserve' = reserve
  BY <1>1 DEF book, prices, bank, Inv
<1>3. /\ liqSum \in [Denoms -> Nat] /\ pool \in [Denoms -> Nat] /\ reserve \in [Denoms -> Nat]
  BY DEF Inv, BookOK, BankOK
<1>4. ChainOK'
  BY <1>1 DEF CheckReserveFails, Inv, ChainOK, trading
<1>5. \A o \in Denoms : liqSum'[o] - pool'[o] = liqSum[o] - pool[o]
  BY <1>2
<1> QED
  BY <1>1, <1>2, <1>3, <1>4, <1>5, IdleFrame DEF Inv

LEMMA RestartKeeps ==
  ASSUME Inv, txs' = txs, Restart
  PROVE  Inv'
<1>1. /\ stage = "idle" /\ UNCHANGED trading /\ UNCHANGED <<tradePool, drift, dropped>>
      /\ UNCHANGED book /\ pairs' = pairs /\ UNCHANGED bank
  BY DEF Restart, InTx, Idle, bank
<1>2. /\ BookOK(entries', nextIndex', liqSum')
      /\ liqSum' = liqSum /\ pool' = pool /\ reserve' = reserve
  BY <1>1 DEF book, bank, Inv
<1>3. /\ liqSum \in [Denoms -> Nat] /\ pool \in [Denoms -> Nat]
      /\ reserve \in [Denoms -> Nat] /\ pairs \in [Others -> [base: Nat, other: Nat]]
  BY DEF Inv, BookOK, BankOK, PricesOK
<1>4. PricesOK(pairs', ratios')
  <2>1. \A d \in Others : PairRatio(d) \in Nat
    BY <1>3, FullType, MulType DEF PairRatio
  <2> QED
    BY <1>1, <1>3, <2>1 DEF Restart, PricesOK
<1>5. ChainOK'
  <2>1. halted' \in BOOLEAN /\ genesis' \in BOOLEAN
    BY Zenon DEF Restart, Inv, ChainOK
  <2> QED
    BY <1>1, <2>1 DEF Restart, Inv, ChainOK, trading
<1>6. \A o \in Denoms : liqSum'[o] - pool'[o] = liqSum[o] - pool[o]
  BY <1>2
<1> QED
  BY <1>1, <1>2, <1>3, <1>4, <1>5, <1>6, IdleFrame DEF Inv

-----------------------------------------------------------------------------
(* The steps of a trade.                                                   *)

LEMMA AddAt ==
  ASSUME NEW f \in [Denoms -> Int], NEW d \in Denoms, NEW a \in Int
  PROVE  /\ Add(f, d, a) \in [Denoms -> Int]
         /\ \A o \in Denoms : Add(f, d, a)[o] = IF o = d THEN f[o] + a ELSE f[o]
BY DEF Add

LEMMA NatFunction ==
  ASSUME NEW f \in [Denoms -> Int], \A d \in Denoms : f[d] >= 0
  PROVE  f \in [Denoms -> Nat]
OBVIOUS

LEMMA TruncateType ==
  ASSUME NEW a \in Int
  PROVE  TruncateInt(a) \in Int
<1>1. CASE a < 0
  <2>1. -a \in Nat
    BY <1>1
  <2>2. (-a) \div Scale \in Nat
    BY <2>1, DivMod, ScaleAssumption
  <2> QED
    BY <1>1, <2>2 DEF TruncateInt
<1>2. CASE a >= 0
  <2>1. a \div Scale \in Nat
    BY <1>2, DivMod, ScaleAssumption
  <2> QED
    BY <1>2, <2>1 DEF TruncateInt
<1> QED
  BY <1>1, <1>2

\* No limit, or one amount.
AtMostOne(cap) == cap = {} \/ \E c \in Int : cap = {c}

LEMMA SingleMaximumType ==
  ASSUME Inv, NEW f \in Denoms, NEW t \in Denoms, f # t, Base \in {f, t}, NEW cap,
         AtMostOne(cap)
  PROVE  AtMostOne(SingleMaximum(f, t, cap))
<1> DEFINE actualTo == ToDec(pool[t])
           from == ToDec(pool[f]) + Virtual(f, t).from
           to == actualTo + Virtual(f, t).to
           virtualTo == IF \E m \in cap : ToDec(m) < actualTo
                          THEN to - ToDec(CHOOSE m \in cap : TRUE)
                          ELSE Virtual(f, t).to
<1>1. Virtual(f, t).from \in Nat /\ Virtual(f, t).to \in Nat
  BY DEF Virtual, Inv, PricesOK, Denoms
<1>2. pool[t] \in Nat /\ pool[f] \in Nat
  BY DEF Inv, BankOK
<1>3. actualTo \in Nat /\ from \in Nat /\ to \in Nat /\ actualTo <= to
  BY <1>1, <1>2, ToDecType
<1> HIDE DEF actualTo, from, to
<1>4. virtualTo \in Nat
  <2>1. CASE \E m \in cap : ToDec(m) < actualTo
    <3>1. PICK c \in Int : cap = {c}
      BY <2>1 DEF AtMostOne
    <3>2. (CHOOSE m \in cap : TRUE) = c /\ ToDec(c) < actualTo
      BY <2>1, <3>1
    <3>3. ToDec(c) \in Int
      BY <3>1, ScaleAssumption DEF ToDec
    <3>4. virtualTo = to - ToDec(CHOOSE m \in cap : TRUE)
      BY <2>1
    <3>5. virtualTo = to - ToDec(c)
      BY <3>2, <3>4
    <3> HIDE DEF virtualTo
    <3> QED
      BY <1>3, <3>2, <3>3, <3>5
  <2>2. CASE ~ \E m \in cap : ToDec(m) < actualTo
    BY <1>1, <2>2
  <2> QED
    BY <2>1, <2>2
<1> HIDE DEF virtualTo
<1>5. SingleMaximum(f, t, cap)
        = IF virtualTo = 0 THEN {}
          ELSE {TruncateInt(QuoInParts(Mul(from, to), virtualTo) - from)}
  BY DEF SingleMaximum, virtualTo, from, to, actualTo
<1>6. CASE virtualTo # 0
  <2>1. Mul(from, to) \in Nat
    BY <1>3, MulType
  <2>2. QuoInParts(Mul(from, to), virtualTo) \in Nat
    BY <1>4, <1>6, <2>1, QuoInPartsExact, QuoType
  <2>3. TruncateInt(QuoInParts(Mul(from, to), virtualTo) - from) \in Int
    BY <1>3, <2>2, TruncateType
  <2> QED
    BY <1>5, <1>6, <2>3 DEF AtMostOne
<1> QED
  BY <1>5, <1>6 DEF AtMostOne

LEMMA GivenAmountType ==
  ASSUME Inv, NEW s \in Denoms, NEW e \in Denoms, s # e, NEW amount \in Nat
  PROVE  GivenAmount(s, e, amount) \in Int
<1> DEFINE second == IF e = Base THEN {} ELSE SingleMaximum(Base, e, {})
<1>1. Base \in Denoms /\ AtMostOne({})
  BY DEF Denoms, AtMostOne
<1>2. AtMostOne(second)
  BY <1>1, SingleMaximumType
<1> HIDE DEF second
<1>3. MaximumTradable(s, e) = IF s = Base THEN second ELSE SingleMaximum(s, Base, second)
  BY DEF MaximumTradable, second
<1>4. AtMostOne(MaximumTradable(s, e))
  BY <1>1, <1>2, <1>3, SingleMaximumType
<1>5. CASE \E m \in MaximumTradable(s, e) : m < amount
  <2>1. (CHOOSE m \in MaximumTradable(s, e) : TRUE) \in MaximumTradable(s, e)
    BY <1>5
  <2> QED
    BY <1>4, <1>5, <2>1 DEF GivenAmount, AtMostOne
<1>6. CASE ~ \E m \in MaximumTradable(s, e) : m < amount
  BY <1>6 DEF GivenAmount
<1> QED
  BY <1>5, <1>6

LEMMA FeeOfType ==
  ASSUME NEW s, NEW e
  PROVE  FeeOf(s, e) \in 0..Scale
<1>1. TradeFee \in Nat /\ TradeFee <= Scale
  BY LiquidityAssumption, ScaleAssumption
<1>2. ToDec(2) \in Nat /\ ToDec(2) > 0 /\ TradeFee <= ToDec(2)
  BY <1>1, ScaleAssumption DEF ToDec
<1>3. Quo(TradeFee, ToDec(2)) \in Nat /\ Quo(TradeFee, ToDec(2)) <= Scale
  BY <1>1, <1>2, QuoType, QuoBelow
<1> QED
  BY <1>1, <1>3, ScaleAssumption DEF FeeOf

\* The variables of a step that has not begun.
LEMMA FreshWork ==
  ASSUME NEW a \in Nat
  PROVE  LET w == [NoWork EXCEPT !.offer = a]
         IN /\ w \in Work
            /\ w.offer = a
            /\ w.wanted = 0 /\ w.left = 0
            /\ w.feeNext > 0 /\ w.giveNext > 0 /\ w.given = 0
<1>1. NoWork \in Work
  BY DEF Work, NoWork
<1>2. [NoWork EXCEPT !.offer = a] \in Work
  BY <1>1 DEF Work
<1> QED
  BY <1>2 DEF NoWork

\* A trade begins: nothing has moved.
LEMMA ExecuteTradeKeeps ==
  ASSUME Inv, txs' \in 0..MaxTxs, NEW s \in Denoms, NEW e \in Denoms, NEW amount \in Nat,
         NEW incomplete \in BOOLEAN, NEW liquidation \in BOOLEAN,
         ExecuteTrade(s, e, amount, incomplete, liquidation)
  PROVE  Inv'
<1> DEFINE a == GivenAmount(s, e, amount)
<1>1. /\ stage = "idle" /\ unchecked = {} /\ s # e /\ a >= MinTradeAmount
      /\ stage' = "begin" /\ step' = 1 /\ saved' = Snapshot
      /\ deal' = [start |-> s, end |-> e, fee |-> FeeOf(s, e), liquidation |-> liquidation]
      /\ work' = [NoWork EXCEPT !.offer = a]
      /\ UNCHANGED book /\ UNCHANGED prices /\ UNCHANGED bank /\ UNCHANGED chain
      /\ drift' = drift /\ dropped' = dropped
  BY DEF ExecuteTrade, InTx, Idle
<1>2. a \in Int
  BY <1>1, GivenAmountType
<1> HIDE DEF a
<1>3. a \in Nat
  BY <1>1, <1>2, LiquidityAssumption
<1>4. /\ BookOK(entries', nextIndex', liqSum') /\ PricesOK(pairs', ratios')
      /\ BankOK(pool', tradePool', reserve') /\ DriftOK'
  BY <1>1 DEF Inv, DriftOK, book, prices, bank
<1>5. ChainOK'
  BY <1>1 DEF Inv, ChainOK, chain
<1>6. DealOK'
  <2>1. deal' \in [start: Denoms, end: Denoms, fee: 0..Scale, liquidation: BOOLEAN]
    BY <1>1, FeeOfType
  <2> QED
    BY <1>1, <2>1 DEF DealOK
<1>7. WorkOK'
  BY <1>1, <1>3, FreshWork DEF WorkOK
<1>8. FlowOK'
  BY <1>1 DEF Inv, FlowOK, bank
<1>9. \A d \in Denoms : liqSum[d] + 0 = pool[d] + 0 + Excess(d)
  BY <1>1, IdleAccounting DEF Inv
<1>10. PoolAccounting'
  BY <1>1, <1>9, ExcessFrame DEF PoolAccounting, Taken, Given, book, bank
<1>11. /\ saved'.entries = entries /\ saved'.nextIndex = nextIndex /\ saved'.liqSum = liqSum
       /\ saved'.pool = pool /\ saved'.tradePool = tradePool /\ saved'.reserve = reserve
       /\ saved'.drift = drift
  BY <1>1 DEF Snapshot
<1>12. SavedOK'
  <2>1. \A d \in Denoms : liqSum[d] = pool[d] + Excess(d)
    BY <1>9, ExcessType DEF Inv, BookOK, BankOK
  <2> QED
    BY <1>1, <1>11, <2>1 DEF SavedOK, Inv, FlowOK, DriftOK, Excess
<1>13. Progress'
  <2>1. /\ \A d \in Denoms : liqSum[d] \in Nat /\ pool[d] \in Nat /\ tradePool[d] \in Nat
                             /\ reserve[d] \in Nat
    BY DEF Inv, BookOK, BankOK
  <2>2. deal'.start = s /\ deal'.end = e /\ To' = Base /\ Owed' = 0
    BY <1>1 DEF To, Owed
  <2>3. liqSum' = liqSum /\ pool' = pool /\ tradePool' = tradePool /\ reserve' = reserve
    BY <1>1 DEF book, bank
  <2> QED
    BY <1>11, <2>1, <2>2, <2>3 DEF Progress, Held, HeldBefore, Denoms
<1> QED
  BY <1>4, <1>5, <1>6, <1>7, <1>8, <1>10, <1>12, <1>13 DEF Inv

\* The parts that no step of a trade but its end touches.
LEMMA TradeFrame ==
  ASSUME Inv, stage # "idle", txs' = txs, UNCHANGED <<prices, chain, deal, saved>>,
         dropped' = dropped
  PROVE  /\ ChainOK'
         /\ PricesOK(pairs', ratios')
         /\ SavedOK'
         /\ deal' = deal
         /\ saved' = saved
<1>1. ChainOK'
  BY DEF Inv, ChainOK, chain
<1>2. PricesOK(pairs', ratios')
  BY DEF Inv, prices
<1>3. SavedOK'
  BY DEF Inv, SavedOK
<1> QED
  BY <1>1, <1>2, <1>3

LEMMA TradeTypes ==
  ASSUME Inv
  PROVE  /\ deal.start \in Denoms /\ deal.end \in Denoms
         /\ From \in Denoms /\ To \in Denoms /\ Base \in Denoms
         /\ \A d \in Denoms : /\ liqSum[d] \in Nat /\ pool[d] \in Nat
                              /\ tradePool[d] \in Nat /\ reserve[d] \in Nat
                              /\ Excess(d) \in Int /\ drift[d] \in Int
                              /\ dropped[d] \in Nat
         /\ liqSum \in [Denoms -> Int] /\ pool \in [Denoms -> Int]
         /\ tradePool \in [Denoms -> Int] /\ reserve \in [Denoms -> Int]
         /\ stage # "idle" => \A d \in Denoms :
              /\ saved.liqSum[d] \in Nat /\ saved.pool[d] \in Nat
              /\ saved.tradePool[d] \in Nat /\ saved.reserve[d] \in Nat
<1>1. deal.start \in Denoms /\ deal.end \in Denoms /\ Base \in Denoms
  BY DEF Inv, DealOK, Denoms
<1>2. From \in Denoms /\ To \in Denoms
  BY <1>1 DEF From, To
<1>3. /\ \A d \in Denoms : /\ liqSum[d] \in Nat /\ pool[d] \in Nat
                           /\ tradePool[d] \in Nat /\ reserve[d] \in Nat
                           /\ Excess(d) \in Int /\ drift[d] \in Int
                           /\ dropped[d] \in Nat
      /\ liqSum \in [Denoms -> Int] /\ pool \in [Denoms -> Int]
      /\ tradePool \in [Denoms -> Int] /\ reserve \in [Denoms -> Int]
  BY ExcessType DEF Inv, BookOK, BankOK
<1>4. stage # "idle" => \A d \in Denoms :
              /\ saved.liqSum[d] \in Nat /\ saved.pool[d] \in Nat
              /\ saved.tradePool[d] \in Nat /\ saved.reserve[d] \in Nat
  BY DEF Inv, SavedOK, BookOK, BankOK
<1> QED
  BY <1>1, <1>2, <1>3, <1>4

LEMMA WorkTypes ==
  ASSUME Inv
  PROVE  /\ work.offer \in Nat /\ work.wanted \in Nat /\ work.left \in Nat
         /\ work.used \in Nat /\ work.feeLeft \in Nat /\ work.feeForReserve \in Nat
         /\ work.given \in Nat /\ work.feeNext \in Nat /\ work.giveNext \in Nat
         /\ work.providers \in Seq([address: Addresses, provided: Nat])
         /\ work.left <= work.wanted /\ Gross \in Nat
         /\ work.feeNext > 0 /\ work.giveNext > 0
         /\ work \in Work
BY DEF Inv, WorkOK, Work, Gross

\* A step of a trade returns, and the second one is next or the trade is over.
LEMMA ReturnKeeps ==
  ASSUME Inv, stage # "idle", NEW payout \in Nat, Return(payout)
  PROVE  /\ DealOK' /\ WorkOK'
         /\ stage' \in {"begin", "end"} /\ step' = 2
         /\ work'.offer = payout
         /\ Owed' = 0 /\ To' = deal.end
         /\ deal' = deal /\ saved' = saved
<1>1. /\ stage' = (IF step = 1 THEN "begin" ELSE "end") /\ step' = 2
      /\ work' = [NoWork EXCEPT !.offer = payout] /\ deal' = deal /\ saved' = saved
  BY DEF Return
<1>2. stage' \in {"begin", "end"}
  BY <1>1
<1>3. DealOK'
  BY <1>1, <1>2 DEF Inv, DealOK
<1>4. WorkOK' /\ work'.offer = payout
  BY <1>1, <1>2, FreshWork DEF WorkOK
<1>5. Owed' = 0 /\ To' = deal.end
  BY <1>1, <1>2 DEF Owed, To
<1> QED
  BY <1>1, <1>2, <1>3, <1>4, <1>5

LEMMA RollBackKeeps ==
  ASSUME Inv, txs' = txs, RollBack
  PROVE  Inv'
<1>1. /\ stage # "idle" /\ stage' = "idle" /\ step' = 1 /\ deal' = NoDeal /\ work' = NoWork
      /\ entries' = saved.entries /\ nextIndex' = saved.nextIndex /\ liqSum' = saved.liqSum
      /\ pool' = saved.pool /\ tradePool' = saved.tradePool /\ reserve' = saved.reserve
      /\ drift' = saved.drift /\ dropped' = dropped /\ UNCHANGED prices /\ UNCHANGED chain
  BY DEF RollBack
<1>2. /\ BookOK(entries', nextIndex', liqSum') /\ BankOK(pool', tradePool', reserve')
      /\ DriftOK'
      /\ \A d \in Denoms : liqSum'[d] = pool'[d] + Excess(d)'
      /\ \A d \in Others : tradePool'[d] = 0
  BY <1>1 DEF Inv, SavedOK, DriftOK, Excess
<1>3. PricesOK(pairs', ratios') /\ ChainOK'
  BY <1>1 DEF Inv, prices, ChainOK, chain
<1>4. DealOK'
  BY <1>1, ScaleAssumption DEF DealOK, NoDeal, Denoms
<1>5. WorkOK'
  BY <1>1 DEF WorkOK, NoWork, Work
<1>6. FlowOK' /\ SavedOK' /\ Progress'
  BY <1>1, <1>2 DEF FlowOK, SavedOK, Progress
<1>7. PoolAccounting'
  <2>1. ASSUME NEW d \in Denoms PROVE liqSum'[d] + 0 = pool'[d] + 0 + Excess(d)'
    <3>1. liqSum'[d] \in Nat /\ pool'[d] \in Nat /\ Excess(d)' \in Int
      BY <1>2 DEF BookOK, BankOK, DriftOK, Excess
    <3> QED
      BY <1>2, <3>1
  <2> QED
    BY <1>1, <2>1 DEF PoolAccounting, Taken, Given
<1> QED
  BY <1>2, <1>3, <1>4, <1>5, <1>6, <1>7 DEF Inv

\* The trader's base currency comes in, or goes out, without a pool.
LEMMA DepositBaseKeeps ==
  ASSUME Inv, txs' = txs, DepositBase
  PROVE  Inv'
<1>1. /\ stage = "begin" /\ step = 1 /\ deal.start = Base
      /\ tradePool' = Add(tradePool, Base, work.offer) /\ Return(work.offer)
      /\ UNCHANGED <<book, prices, pool, reserve, chain, drift, dropped>>
  BY DEF DepositBase
<1>2. UNCHANGED <<prices, chain, deal, saved>>
  BY <1>1 DEF Return
<1>3. /\ ChainOK' /\ PricesOK(pairs', ratios') /\ SavedOK' /\ saved' = saved
  BY <1>1, <1>2, TradeFrame
<1>4. /\ DealOK' /\ WorkOK' /\ stage' \in {"begin", "end"} /\ step' = 2
      /\ work'.offer = work.offer /\ Owed' = 0 /\ To' = deal.end /\ deal' = deal
  BY <1>1, ReturnKeeps, WorkTypes
<1>5. work.offer \in Nat
  BY WorkTypes
<1>6. /\ tradePool' \in [Denoms -> Int]
      /\ \A o \in Denoms :
           tradePool'[o] = IF o = Base THEN tradePool[o] + work.offer ELSE tradePool[o]
  <2>1. tradePool \in [Denoms -> Int] /\ Base \in Denoms
    BY TradeTypes
  <2> QED
    BY <1>1, <1>5, <2>1, AddAt
<1>7. BankOK(pool', tradePool', reserve')
  BY <1>1, <1>5, <1>6, TradeTypes DEF Inv, BankOK
<1>8. /\ entries' = entries /\ nextIndex' = nextIndex /\ liqSum' = liqSum
      /\ pool' = pool /\ reserve' = reserve /\ drift' = drift /\ dropped' = dropped
  BY <1>1 DEF book
<1>9. BookOK(entries', nextIndex', liqSum') /\ DriftOK'
  BY <1>8 DEF Inv, DriftOK
<1>10. FlowOK'
  <2>1. \A d \in Others : tradePool'[d] = 0
    BY <1>1, <1>6, LiquidityAssumption DEF Inv, FlowOK, Denoms
  <2>2. tradePool'[Base] >= work'.offer
    BY <1>4, <1>5, <1>6, TradeTypes
  <2> QED
    BY <1>4, <2>1, <2>2 DEF FlowOK
<1>11. PoolAccounting'
  BY <1>1, <1>4, <1>8 DEF Inv, PoolAccounting, Excess, Taken, Given
<1>12. Progress'
  BY <1>1, <1>3, <1>4, <1>5, <1>6, <1>8, TradeTypes DEF Inv, DealOK, Progress, Held, HeldBefore
<1> QED
  BY <1>3, <1>4, <1>7, <1>9, <1>10, <1>11, <1>12 DEF Inv

LEMMA WithdrawBaseKeeps ==
  ASSUME Inv, txs' = txs, WithdrawBase
  PROVE  Inv'
<1>1. /\ stage = "begin" /\ step = 2 /\ deal.end = Base
      /\ tradePool' = Add(tradePool, Base, -work.offer) /\ Return(work.offer)
      /\ UNCHANGED <<book, prices, pool, reserve, chain, drift, dropped>>
  BY DEF WithdrawBase
<1>2. UNCHANGED <<prices, chain, deal, saved>>
  BY <1>1 DEF Return
<1>3. /\ ChainOK' /\ PricesOK(pairs', ratios') /\ SavedOK' /\ saved' = saved
  BY <1>1, <1>2, TradeFrame
<1>4. /\ DealOK' /\ WorkOK' /\ stage' \in {"begin", "end"} /\ step' = 2
      /\ work'.offer = work.offer /\ Owed' = 0 /\ To' = deal.end /\ deal' = deal
  BY <1>1, ReturnKeeps, WorkTypes
<1>5. work.offer \in Nat /\ -work.offer \in Int /\ tradePool[Base] >= work.offer /\ stage' = "end"
  BY <1>1, WorkTypes DEF Inv, FlowOK, Return
<1>6. /\ tradePool' \in [Denoms -> Int]
      /\ \A o \in Denoms :
           tradePool'[o] = IF o = Base THEN tradePool[o] + -work.offer ELSE tradePool[o]
  <2>1. tradePool \in [Denoms -> Int] /\ Base \in Denoms
    BY TradeTypes
  <2> QED
    BY <1>1, <1>5, <2>1, AddAt
<1>7. BankOK(pool', tradePool', reserve')
  <2>1. \A o \in Denoms : tradePool'[o] >= 0
    BY <1>5, <1>6, TradeTypes
  <2> QED
    BY <1>1, <1>6, <2>1, NatFunction DEF Inv, BankOK
<1>8. /\ entries' = entries /\ nextIndex' = nextIndex /\ liqSum' = liqSum
      /\ pool' = pool /\ reserve' = reserve /\ drift' = drift /\ dropped' = dropped
  BY <1>1 DEF book
<1>9. BookOK(entries', nextIndex', liqSum') /\ DriftOK'
  BY <1>8 DEF Inv, DriftOK
<1>10. FlowOK'
  <2>1. \A d \in Others : tradePool'[d] = 0
    BY <1>1, <1>6, LiquidityAssumption DEF Inv, FlowOK, Denoms
  <2> QED
    BY <1>5, <2>1 DEF FlowOK
<1>11. PoolAccounting'
  BY <1>1, <1>4, <1>8 DEF Inv, PoolAccounting, Excess, Taken, Given
<1>12. Progress'
  BY <1>1, <1>3, <1>4, <1>5, <1>6, <1>8, TradeTypes DEF Inv, DealOK, Progress, Held, HeldBefore
<1> QED
  BY <1>3, <1>4, <1>7, <1>9, <1>10, <1>11, <1>12 DEF Inv

LEMMA BuyNothingKeeps ==
  ASSUME Inv, txs' = txs, BuyNothing
  PROVE  Inv'
<1>1. /\ stage = "begin" /\ Return(0)
      /\ UNCHANGED <<book, prices, bank, chain, drift, dropped>>
  BY DEF BuyNothing
<1>2. UNCHANGED <<prices, chain, deal, saved>>
  BY <1>1 DEF Return
<1>3. /\ ChainOK' /\ PricesOK(pairs', ratios') /\ SavedOK' /\ saved' = saved
  BY <1>1, <1>2, TradeFrame
<1>4. /\ DealOK' /\ WorkOK' /\ stage' \in {"begin", "end"} /\ step' = 2
      /\ work'.offer = 0 /\ Owed' = 0 /\ To' = deal.end /\ deal' = deal
  BY <1>1, ReturnKeeps
<1>5. /\ entries' = entries /\ nextIndex' = nextIndex /\ liqSum' = liqSum
      /\ pool' = pool /\ tradePool' = tradePool /\ reserve' = reserve
      /\ drift' = drift /\ dropped' = dropped
  BY <1>1 DEF book, bank
<1>6. /\ BookOK(entries', nextIndex', liqSum') /\ DriftOK'
      /\ BankOK(pool', tradePool', reserve')
  BY <1>5 DEF Inv, DriftOK
<1>7. FlowOK'
  BY <1>1, <1>4, <1>5, TradeTypes DEF Inv, FlowOK
<1>8. PoolAccounting'
  BY <1>1, <1>4, <1>5 DEF Inv, PoolAccounting, Excess, Taken, Given
<1>9. Progress'
  BY <1>1, <1>3, <1>4, <1>5, TradeTypes DEF Inv, Progress, Held, HeldBefore
<1> QED
  BY <1>3, <1>4, <1>6, <1>7, <1>8, <1>9 DEF Inv

LEMMA BeginStepKeeps ==
  ASSUME Inv, txs' = txs, BeginStep
  PROVE  Inv'
<1>1. /\ stage = "begin" /\ stage' = "take" /\ From # To /\ Offered > 0 /\ Wanted # 0
      /\ work' = [work EXCEPT !.wanted = Wanted, !.left = Wanted,
                              !.product = PoolFrom(From, To) * PoolTo(From, To)]
      /\ UNCHANGED <<book, prices, bank, chain, deal, step, saved, drift, dropped>>
  BY DEF BeginStep
<1>2. /\ ChainOK' /\ PricesOK(pairs', ratios') /\ SavedOK' /\ saved' = saved /\ deal' = deal
  BY <1>1, TradeFrame
<1>3. PoolFrom(From, To) \in Nat /\ PoolTo(From, To) \in Nat
  <2>1. /\ liqSum \in [Denoms -> Nat] /\ PricesOK(pairs, ratios)
        /\ From \in Denoms /\ To \in Denoms
    BY TradeTypes DEF Inv, BookOK
  <2>2. Base \in {From, To}
    BY DEF From, To
  <2> QED
    BY <1>1, <2>1, <2>2, PoolTypes
<1>4. Wanted \in Nat
  BY <1>1, <1>3, WorkTypes, ForwardType DEF Wanted, Offered
<1>5. PoolFrom(From, To) * PoolTo(From, To) \in Nat
  BY <1>3
<1>6. /\ work' \in Work /\ work'.feeNext = work.feeNext /\ work'.giveNext = work.giveNext
      /\ work'.wanted = Wanted /\ work'.left = Wanted /\ work'.offer = work.offer
      /\ work'.given = work.given
  BY <1>1, <1>4, <1>5, WorkTypes DEF Work
<1>7. WorkOK'
  BY <1>1, <1>4, <1>6, WorkTypes DEF Inv, WorkOK
<1>8. /\ entries' = entries /\ nextIndex' = nextIndex /\ liqSum' = liqSum /\ step' = step
      /\ pool' = pool /\ tradePool' = tradePool /\ reserve' = reserve
      /\ drift' = drift /\ dropped' = dropped
  BY <1>1 DEF book, bank
<1>9. From' = From /\ To' = To /\ Gross' = 0
  BY <1>2, <1>4, <1>6, <1>8 DEF From, To, Gross
<1>10. /\ BookOK(entries', nextIndex', liqSum') /\ DriftOK'
       /\ BankOK(pool', tradePool', reserve')
  BY <1>8 DEF Inv, DriftOK
<1>11. DealOK'
  BY <1>1, <1>2, <1>8, <1>9 DEF Inv, DealOK
<1>12. FlowOK'
  BY <1>1, <1>6, <1>8 DEF Inv, FlowOK
<1>13. PoolAccounting'
  BY <1>1, <1>8, <1>9 DEF Inv, PoolAccounting, Excess, Taken, Given
<1>14. Progress'
  <2>1. Owed' = 0 /\ Owed = 0
    BY <1>1, <1>9 DEF Owed
  <2> QED
    BY <1>1, <1>2, <1>8, <1>9, <2>1 DEF Inv, Progress, Held, HeldBefore
<1> QED
  BY <1>2, <1>7, <1>10, <1>11, <1>12, <1>13, <1>14 DEF Inv

\* The entry at i gives the coins it has, or those that are still wanted.
TakenFrom(i) == IF work.left < entries[i].amount THEN work.left ELSE entries[i].amount

LEMMA TakeFromBook ==
  ASSUME Inv, NEW i \in Ahead
  PROVE  /\ TakenFrom(i) \in Nat /\ TakenFrom(i) <= work.left
         /\ i \in Nat /\ entries[i].address \in Addresses
         /\ BookOK(IF work.left < entries[i].amount
                     THEN [entries EXCEPT ![i].amount = @ - TakenFrom(i)]
                     ELSE Without(entries, {i}),
                   nextIndex, Add(liqSum, To, -TakenFrom(i)))
<1> DEFINE used == TakenFrom(i)
<1>1. i \in EntriesOf(entries, To) /\ To \in Denoms /\ work.left \in Nat
  BY TradeTypes, WorkTypes DEF Ahead
<1>2. BookOK(entries, nextIndex, liqSum)
  BY DEF Inv
<1>3. i \in Nat /\ entries[i].amount \in Nat /\ entries[i].address \in Addresses
  BY <1>1, <1>2 DEF BookOK, EntriesOf, Entry
<1>4. CASE work.left < entries[i].amount
  <2>1. used \in Nat /\ used <= work.left /\ used <= entries[i].amount
    BY <1>1, <1>3, <1>4 DEF TakenFrom
  <2> HIDE DEF used
  <2>2. BookOK([entries EXCEPT ![i].amount = @ - used], nextIndex, Add(liqSum, To, -used))
    BY <1>1, <1>2, <2>1, ReduceEntry
  <2> QED
    BY <1>3, <1>4, <2>1, <2>2 DEF used
<1>5. CASE ~(work.left < entries[i].amount)
  <2>1. used \in Nat /\ used <= work.left /\ used = entries[i].amount
    BY <1>1, <1>3, <1>5 DEF TakenFrom
  <2> HIDE DEF used
  <2>2. BookOK(Without(entries, {i}), nextIndex, Add(liqSum, To, -used))
    BY <1>1, <1>2, <2>1, DropEntry
  <2> QED
    BY <1>3, <1>5, <2>1, <2>2 DEF used
<1> QED
  BY <1>4, <1>5

LEMMA TakeLiquidityKeeps ==
  ASSUME Inv, txs' = txs, TakeLiquidity
  PROVE  Inv'
<1>1. /\ stage = "take" /\ stage' = stage
      /\ UNCHANGED <<prices, chain, deal, saved>>
      /\ UNCHANGED <<nextIndex, bank, step, drift, dropped>>
  BY DEF TakeLiquidity
<1>2. PICK i \in Ahead :
       LET part == work.left < entries[i].amount
           used == IF part THEN work.left ELSE entries[i].amount
       IN /\ \A j \in Ahead : Place(i) <= Place(j)
          /\ entries' = IF part THEN [entries EXCEPT ![i].amount = @ - used]
                                ELSE Without(entries, {i})
          /\ liqSum' = Add(liqSum, To, -used)
          /\ work' = [work EXCEPT !.left = @ - used, !.cursor = Place(i),
               !.providers = Append(@, [address |-> entries[i].address,
                                        provided |-> ToDec(used)])]
  BY DEF TakeLiquidity
<1> DEFINE used == TakenFrom(i)
           p == [address |-> entries[i].address, provided |-> ToDec(used)]
<1>3. /\ used \in Nat /\ used <= work.left
      /\ Place(i) \in Nat /\ entries[i].address \in Addresses
      /\ BookOK(entries', nextIndex, liqSum')
  <2>1. /\ entries' = IF work.left < entries[i].amount
                        THEN [entries EXCEPT ![i].amount = @ - used]
                        ELSE Without(entries, {i})
        /\ liqSum' = Add(liqSum, To, -used)
    BY <1>2 DEF TakenFrom
  <2> QED
    BY <2>1, TakeFromBook, PlaceType
<1>4. /\ liqSum' = Add(liqSum, To, -used)
      /\ work' = [work EXCEPT !.left = @ - used, !.cursor = Place(i), !.providers = Append(@, p)]
  BY <1>2 DEF TakenFrom
<1> HIDE DEF used
<1>5. p \in [address: Addresses, provided: Nat]
  BY <1>3, ToDecType
<1> HIDE DEF p
<1>6. Append(work.providers, p) \in Seq([address: Addresses, provided: Nat])
  BY <1>5, WorkTypes
<1>7. work.left - used \in Nat
  BY <1>3, WorkTypes
<1>8. /\ work' \in Work /\ work'.left = work.left - used /\ work'.wanted = work.wanted
      /\ work'.feeNext = work.feeNext /\ work'.giveNext = work.giveNext
      /\ work'.offer = work.offer /\ work'.given = work.given
  BY <1>3, <1>4, <1>6, <1>7, WorkTypes DEF Work
<1>9. WorkOK'
  <2>1. /\ work.feeNext > 0 /\ work.giveNext > 0 /\ work.left <= work.wanted
        /\ work.left \in Nat /\ work.wanted \in Nat
        /\ work.wanted > 0 /\ work.given = 0
    BY <1>1, WorkTypes DEF Inv, WorkOK
  <2>2. work.left - used <= work.wanted
    BY <1>3, <2>1
  <2> QED
    BY <1>1, <1>8, <2>1, <2>2 DEF WorkOK
<1>10. /\ ChainOK' /\ PricesOK(pairs', ratios') /\ SavedOK' /\ saved' = saved /\ deal' = deal
  BY <1>1, TradeFrame
<1>11. /\ nextIndex' = nextIndex /\ step' = step /\ pool' = pool /\ tradePool' = tradePool
       /\ reserve' = reserve /\ drift' = drift /\ dropped' = dropped
  BY <1>1 DEF bank
<1>12. BookOK(entries', nextIndex', liqSum') /\ BankOK(pool', tradePool', reserve')
       /\ DriftOK'
  BY <1>3, <1>11 DEF Inv, DriftOK
<1>13. From' = From /\ To' = To /\ Gross' = Gross + used
  BY <1>3, <1>8, <1>10, <1>11, WorkTypes DEF From, To, Gross
<1>14. DealOK'
  BY <1>1, <1>10, <1>11, <1>13 DEF Inv, DealOK
<1>15. FlowOK'
  BY <1>1, <1>8, <1>11 DEF Inv, FlowOK
<1>16. \A o \in Denoms : liqSum'[o] = IF o = To THEN liqSum[o] - used ELSE liqSum[o]
  BY <1>3, <1>4, TradeTypes DEF Add
<1>17. PoolAccounting'
  <2>1. ASSUME NEW d \in Denoms
        PROVE  liqSum'[d] + Taken(d)' = pool'[d] + Given(d)' + Excess(d)'
    <3>1. /\ Taken(d) = IF d = To THEN Gross ELSE 0
          /\ Taken(d)' = IF d = To THEN Gross + used ELSE 0
          /\ Given(d) = 0 /\ Given(d)' = 0
      BY <1>1, <1>13 DEF Taken, Given
    <3>2. liqSum[d] + Taken(d) = pool[d] + Given(d) + Excess(d)
      BY DEF Inv, PoolAccounting
    <3>3. liqSum[d] \in Nat /\ pool[d] \in Nat /\ Excess(d) \in Int /\ Gross \in Nat
      BY TradeTypes, WorkTypes
    <3> QED
      BY <1>3, <1>11, <1>16, <3>1, <3>2, <3>3, ExcessFrame
  <2> QED
    BY <2>1 DEF PoolAccounting
<1>18. Progress'
  <2>1. Owed' = Gross + used /\ Owed = Gross /\ Gross \in Nat
    BY <1>1, <1>13, WorkTypes DEF Owed
  <2>2. /\ stage # "idle" /\ stage' # "idle" /\ deal.start # deal.end /\ From # To
    BY <1>1 DEF Inv, DealOK
  <2>3. deal.start # To /\ (To = Base \/ To = deal.end)
    BY <2>2 DEF From, To
  <2>4. \A d \in Denoms : Held(d)' = Held(d) /\ HeldBefore(d)' = HeldBefore(d)
    BY <1>10, <1>11 DEF Held, HeldBefore
  <2>5. /\ liqSum'[deal.start] = liqSum[deal.start]
        /\ \A d \in Denoms \ {deal.start, deal.end, Base} : liqSum'[d] = liqSum[d]
    BY <1>16, <2>3, TradeTypes
  <2>6. Progress
    BY DEF Inv
  <2>7. /\ liqSum'[deal.end] <= saved.liqSum[deal.end]
        /\ To = deal.end => liqSum'[To] + (Gross + used) <= saved.liqSum[To]
    <3>1. CASE To = deal.end
      <4>1. liqSum[To] + Gross <= saved.liqSum[To] /\ liqSum'[To] = liqSum[To] - used
        BY <1>16, <2>1, <2>2, <2>6, <3>1, TradeTypes DEF Progress
      <4>2. /\ liqSum[To] \in Nat /\ saved.liqSum[To] \in Nat
        BY <2>2, TradeTypes
      <4> QED
        BY <1>3, <2>1, <3>1, <4>1, <4>2
    <3>2. CASE To # deal.end
      BY <1>16, <2>2, <2>6, <3>2, TradeTypes DEF Progress
    <3> QED
      BY <3>1, <3>2
  <2> QED
    BY <1>10, <1>13, <2>1, <2>2, <2>4, <2>5, <2>6, <2>7, TradeTypes DEF Progress
<1> QED
  BY <1>9, <1>10, <1>12, <1>14, <1>15, <1>17, <1>18 DEF Inv

\* A step uses no more than is offered, and charges no more than it buys.
LEMMA AmountUsedBounds ==
  ASSUME Inv, stage = "take"
  PROVE  AmountUsed \in Nat /\ AmountUsed <= work.offer
<1>1. /\ Gross \in Nat /\ work.wanted \in Nat /\ work.wanted > 0 /\ Gross <= work.wanted
      /\ work.offer \in Nat
  BY WorkTypes DEF Inv, WorkOK, Gross
<1> DEFINE g == ToDec(Gross)
           w == ToDec(work.wanted)
           o == ToDec(work.offer)
<1>2. g \in Nat /\ w \in Nat /\ o \in Nat
  BY <1>1, ToDecType
<1>3. w > 0 /\ g <= w
  BY <1>1, ScaleAssumption DEF ToDec
<1> HIDE DEF g, w
<1>4. Quo(g, w) \in Nat /\ Quo(g, w) <= Scale
  BY <1>2, <1>3, QuoType, QuoBelow
<1> DEFINE x == Mul(Quo(g, w), o)
<1>5. x \in Nat /\ x <= o
  <2>1. Mul(Quo(g, w), o) = Mul(o, Quo(g, w))
    <3> DEFINE q == Quo(g, w)
    <3>1. q \in Nat /\ o \in Nat
      BY <1>2, <1>4
    <3> HIDE DEF q, o
    <3>2. q * o = o * q
      BY <3>1
    <3> QED
      BY <3>2 DEF Mul, q
  <2> QED
    BY <1>2, <1>4, <2>1, MulType, MulBelow
<1> HIDE DEF x
<1>6. RoundInt(x) \in Nat /\ RoundInt(x) <= work.offer
  BY <1>1, <1>5, RoundTruncate, RoundBelow
<1> QED
  BY <1>6 DEF AmountUsed, x, g, w, o

LEMMA FeeBounds ==
  ASSUME Inv
  PROVE  /\ FeeForReserve \in Nat /\ FeeForProviders \in Nat
         /\ FeeForReserve + FeeForProviders <= Gross
<1>1. /\ Gross \in Nat /\ deal.fee \in Nat /\ deal.fee <= Scale
      /\ ReserveShare \in Nat /\ ReserveShare <= Scale
  BY WorkTypes, LiquidityAssumption, ScaleAssumption DEF Inv, DealOK
<1>2. ToDec(Gross) \in Nat
  BY <1>1, ToDecType
<1>3. FeeAmount \in Nat /\ FeeAmount <= ToDec(Gross)
  BY <1>1, <1>2, MulType, MulBelow DEF FeeAmount
<1>4. RoundInt(FeeAmount) <= Gross
  BY <1>1, <1>3, RoundBelow
<1>5. /\ RoundInt(Mul(FeeAmount, ReserveShare)) \in Nat
      /\ RoundInt(FeeAmount) \in Nat
      /\ RoundInt(Mul(FeeAmount, ReserveShare)) <= RoundInt(FeeAmount)
  BY <1>1, <1>3, RoundPart
<1> QED
  BY <1>1, <1>4, <1>5 DEF FeeForReserve, FeeForProviders

\* The bought and the sold coins come to PoolTrade.
LEMMA CollectCoinsKeeps ==
  ASSUME Inv, txs' = txs, CollectCoins
  PROVE  Inv'
<1>1. /\ stage = "take" /\ stage' = "pay" /\ pool[To] >= Gross
      /\ pool' = Add(pool, To, -Gross)
      /\ tradePool' = LET bought == Add(tradePool, To, Gross)
                      IN IF From = Base THEN bought ELSE Add(bought, From, AmountUsed)
      /\ work' = [work EXCEPT !.used = AmountUsed, !.feeLeft = FeeForProviders,
                              !.feeForReserve = FeeForReserve]
      /\ UNCHANGED <<prices, chain, deal, saved>>
      /\ UNCHANGED <<book, reserve, step, drift, dropped>>
  BY DEF CollectCoins, TakenUp
<1>2. AmountUsed \in Nat /\ AmountUsed <= work.offer
  BY <1>1, AmountUsedBounds
<1>3. /\ FeeForReserve \in Nat /\ FeeForProviders \in Nat
      /\ FeeForReserve + FeeForProviders <= Gross /\ Gross \in Nat
  BY FeeBounds, WorkTypes
<1>4. /\ work' \in Work /\ work'.used = AmountUsed /\ work'.feeLeft = FeeForProviders
      /\ work'.feeForReserve = FeeForReserve /\ work'.feeNext = work.feeNext
      /\ work'.giveNext = work.giveNext /\ work'.left = work.left
      /\ work'.wanted = work.wanted /\ work'.given = work.given
  BY <1>1, <1>2, <1>3, WorkTypes DEF Work
<1>5. WorkOK'
  BY <1>1, <1>4, WorkTypes DEF WorkOK
<1>6. /\ ChainOK' /\ PricesOK(pairs', ratios') /\ SavedOK' /\ saved' = saved /\ deal' = deal
  BY <1>1, TradeFrame
<1>7. /\ entries' = entries /\ nextIndex' = nextIndex /\ liqSum' = liqSum /\ step' = step
      /\ reserve' = reserve /\ drift' = drift /\ dropped' = dropped
  BY <1>1 DEF book
<1>8. BookOK(entries', nextIndex', liqSum') /\ DriftOK'
  BY <1>7 DEF Inv, DriftOK
<1>9. From' = From /\ To' = To /\ From # To
  BY <1>1, <1>6, <1>7 DEF Inv, DealOK, From, To
<1>10. /\ From \in Denoms /\ To \in Denoms /\ pool \in [Denoms -> Int]
       /\ tradePool \in [Denoms -> Int]
  BY TradeTypes
<1>11. /\ pool' \in [Denoms -> Int]
       /\ \A o \in Denoms : pool'[o] = IF o = To THEN pool[o] + -Gross ELSE pool[o]
  <2>1. -Gross \in Int /\ To \in Denoms /\ pool \in [Denoms -> Int]
    BY <1>3, <1>10
  <2>2. pool' = Add(pool, To, -Gross)
    BY <1>1
  <2>3. /\ Add(pool, To, -Gross) \in [Denoms -> Int]
        /\ \A o \in Denoms :
             Add(pool, To, -Gross)[o] = IF o = To THEN pool[o] + -Gross ELSE pool[o]
    BY <2>1, AddAt
  <2> QED
    BY <2>2, <2>3
<1>12. /\ tradePool' \in [Denoms -> Int]
       /\ \A o \in Denoms : tradePool'[o] = IF o = To THEN tradePool[o] + Gross
                              ELSE IF o = From /\ From # Base THEN tradePool[o] + AmountUsed
                              ELSE tradePool[o]
  <2> DEFINE bought == Add(tradePool, To, Gross)
  <2>1. /\ bought \in [Denoms -> Int]
        /\ \A o \in Denoms : bought[o] = IF o = To THEN tradePool[o] + Gross ELSE tradePool[o]
    <3>1. /\ Add(tradePool, To, Gross) \in [Denoms -> Int]
          /\ \A o \in Denoms : Add(tradePool, To, Gross)[o]
                                 = IF o = To THEN tradePool[o] + Gross ELSE tradePool[o]
      <4>1. Gross \in Int /\ To \in Denoms /\ tradePool \in [Denoms -> Int]
        BY <1>3, <1>10
      <4> HIDE DEF bought
      <4> QED
        BY <4>1, AddAt
    <3> QED
      BY <3>1
  <2>2. tradePool' = IF From = Base THEN bought ELSE Add(bought, From, AmountUsed)
    BY <1>1
  <2> HIDE DEF bought
  <2>3. CASE From = Base
    BY <2>1, <2>2, <2>3
  <2>4. CASE From # Base
    <3>1. /\ Add(bought, From, AmountUsed) \in [Denoms -> Int]
          /\ \A o \in Denoms : Add(bought, From, AmountUsed)[o]
                                 = IF o = From THEN bought[o] + AmountUsed ELSE bought[o]
      <4>1. AmountUsed \in Int /\ bought \in [Denoms -> Int] /\ From \in Denoms
        BY <1>2, <1>10, <2>1
      <4> QED
        BY <4>1, AddAt
    <3> QED
      BY <1>9, <2>1, <2>2, <2>4, <3>1
  <2> QED
    BY <2>3, <2>4
<1>13. BankOK(pool', tradePool', reserve')
  <2>1. \A o \in Denoms : pool'[o] >= 0
    BY <1>1, <1>3, <1>11, TradeTypes
  <2>2. \A o \in Denoms : tradePool'[o] >= 0
    BY <1>2, <1>3, <1>12, TradeTypes
  <2> QED
    BY <1>7, <1>11, <1>12, <2>1, <2>2, NatFunction DEF Inv, BankOK
<1>14. DealOK'
  BY <1>1, <1>6, <1>7, <1>9 DEF Inv, DealOK
<1>15. FlowOK'
  <2>1. \A d \in Others : tradePool[d] = 0 /\ d \in Denoms
    BY <1>1 DEF Inv, FlowOK, Denoms
  <2>2. \A d \in Others \ {From, To} : tradePool'[d] = 0
    BY <1>12, <2>1
  <2>3. tradePool'[To] >= FeeForProviders + FeeForReserve
    BY <1>3, <1>10, <1>12, TradeTypes
  <2>4. CASE From = Base
    <3>1. step = 2
      BY <1>9, <2>4 DEF Inv, DealOK, From, To
    <3>2. tradePool[Base] >= work.offer /\ work.offer \in Nat
      BY <1>1, <3>1, WorkTypes DEF Inv, FlowOK
    <3>3. tradePool'[From] = tradePool[Base]
      BY <1>9, <1>10, <1>12, <2>4
    <3>4. tradePool'[From] >= AmountUsed
      BY <1>2, <2>4, <3>2, <3>3, TradeTypes
    <3> QED
      BY <1>1, <1>4, <1>9, <2>2, <2>3, <2>4, <3>4 DEF FlowOK
  <2>5. CASE From # Base
    <3>1. From \in Others
      BY <1>10, <2>5 DEF Denoms
    <3>2. tradePool'[From] = AmountUsed
      BY <1>2, <1>9, <1>10, <1>12, <2>1, <2>5, <3>1
    <3> QED
      BY <1>1, <1>2, <1>4, <1>9, <2>2, <2>3, <3>2 DEF FlowOK
  <2> QED
    BY <2>4, <2>5
<1>16. PoolAccounting'
  <2>1. ASSUME NEW d \in Denoms
        PROVE  liqSum'[d] + Taken(d)' = pool'[d] + Given(d)' + Excess(d)'
    <3>1. /\ Taken(d) = IF d = To THEN Gross ELSE 0
          /\ Taken(d)' = 0 /\ Given(d) = 0
      BY <1>1 DEF Taken, Given
    <3>2. Given(d)' = 0
      BY <1>1, <1>4 DEF Inv, WorkOK, Given
    <3>3. liqSum[d] + Taken(d) = pool[d] + Given(d) + Excess(d)
      BY DEF Inv, PoolAccounting
    <3>4. liqSum[d] \in Nat /\ pool[d] \in Nat /\ Excess(d) \in Int
      BY TradeTypes
    <3> QED
      BY <1>3, <1>7, <1>11, <3>1, <3>2, <3>3, <3>4, ExcessFrame
  <2> QED
    BY <2>1 DEF PoolAccounting
<1>17. Progress'
  <2>1. Owed' = FeeForProviders /\ Owed = Gross
    BY <1>1, <1>4 DEF Owed
  <2>2. stage # "idle" /\ stage' # "idle" /\ deal.start # deal.end
    BY <1>1 DEF Inv, DealOK
  <2>3. From # Base => From = deal.start
    BY DEF From
  <2>4. /\ \A d \in Denoms : HeldBefore(d)' = HeldBefore(d)
        /\ \A d \in Denoms : Held(d) \in Nat /\ HeldBefore(d) \in Nat
    BY <1>6, <2>2, TradeTypes DEF Held, HeldBefore
  <2>5. \A d \in Denoms : Held(d)' = IF d = From /\ From # Base THEN Held(d) + AmountUsed
                                    ELSE Held(d)
    <3>1. ASSUME NEW d \in Denoms
          PROVE  Held(d)' = IF d = From /\ From # Base THEN Held(d) + AmountUsed ELSE Held(d)
      <4>1. pool[d] \in Nat /\ tradePool[d] \in Nat /\ reserve[d] \in Nat
        BY TradeTypes
      <4> QED
        BY <1>2, <1>3, <1>7, <1>9, <1>11, <1>12, <4>1 DEF Held
    <3> QED
      BY <3>1
  <2>6. Progress
    BY DEF Inv
  <2>7. To = deal.end => liqSum'[To] + FeeForProviders <= saved.liqSum[To]
    <3>1. SUFFICES ASSUME To = deal.end PROVE liqSum'[To] + FeeForProviders <= saved.liqSum[To]
      OBVIOUS
    <3>2. liqSum[To] + Gross <= saved.liqSum[To]
      BY <2>1, <2>2, <2>6, <3>1 DEF Progress
    <3>3. liqSum[To] \in Nat /\ saved.liqSum[To] \in Nat
      BY <2>2, TradeTypes
    <3> QED
      BY <1>3, <1>7, <3>2, <3>3
  <2>8. /\ \A d \in Denoms \ {deal.start, deal.end} : Held(d)' = HeldBefore(d)
        /\ Held(deal.start)' >= HeldBefore(deal.start)
        /\ Held(deal.end)' <= HeldBefore(deal.end)
    <3>1. deal.start \in Denoms /\ deal.end \in Denoms /\ deal' = deal
      BY <1>6, TradeTypes
    <3>2. /\ \A d \in Denoms \ {deal.start, deal.end} : Held(d) = HeldBefore(d)
          /\ Held(deal.start) >= HeldBefore(deal.start)
          /\ Held(deal.end) <= HeldBefore(deal.end)
      BY <2>2, <2>6 DEF Progress
    <3>3. /\ Held(deal.start)' >= Held(deal.start)
          /\ Held(deal.end)' = Held(deal.end)
          /\ \A d \in Denoms \ {deal.start, deal.end} : Held(d)' = Held(d)
      BY <1>2, <2>2, <2>3, <2>4, <2>5, <3>1
    <3>4. Held(deal.start)' \in Int
      BY <1>2, <2>4, <2>5, <3>1
    <3> QED
      BY <2>4, <3>1, <3>2, <3>3, <3>4
  <2> QED
    BY <1>6, <1>7, <1>9, <2>1, <2>2, <2>4, <2>6, <2>7, <2>8, TradeTypes DEF Progress
<1> QED
  BY <1>5, <1>6, <1>8, <1>13, <1>14, <1>15, <1>16, <1>17 DEF Inv

\* The providers of the bought coins get their part of the fee.
LEMMA PayFeeKeeps ==
  ASSUME Inv, txs' = txs, PayFee
  PROVE  Inv'
<1> DEFINE P == [address: Addresses, provided: Nat]
           n == work.feeNext
           p == work.providers[n]
           amount == IF work.feeLeft < RoundInt(p.provided) THEN work.feeLeft
                                                            ELSE RoundInt(p.provided)
           q == [p EXCEPT !.provided = Mul(@, ProviderFee)]
<1>1. /\ stage = "pay" /\ stage' = stage /\ work.feeNext <= Len(work.providers)
      /\ AddToBook(To, p.address, amount)
      /\ pool' = Add(pool, To, amount) /\ tradePool' = Add(tradePool, To, -amount)
      /\ work' = [work EXCEPT !.feeLeft = @ - amount, !.feeNext = @ + 1,
           !.providers = [work.providers EXCEPT ![n].provided = Mul(@, ProviderFee)]]
      /\ UNCHANGED <<prices, chain, deal, saved>>
      /\ UNCHANGED <<reserve, step, drift, dropped>>
  BY DEF PayFee
<1>2. /\ work.providers \in Seq(P) /\ n \in 1..Len(work.providers)
      /\ work.feeLeft \in Nat /\ n \in Nat /\ work \in Work
  <2>1. /\ work.providers \in Seq(P) /\ work.feeLeft \in Nat /\ n \in Nat /\ n > 0
        /\ work \in Work
    BY WorkTypes
  <2>2. Len(work.providers) \in Nat /\ n <= Len(work.providers)
    BY <1>1, <2>1, LenProperties
  <2> QED
    BY <2>1, <2>2
<1>3. p \in P /\ p.address \in Addresses /\ p.provided \in Nat
  <2>1. p \in P
    BY <1>2, ElementOfSeq
  <2> QED
    BY <2>1
<1>4. RoundInt(p.provided) \in Nat /\ ProviderFee \in Nat
  <2>1. TradeFee \in Nat /\ ReserveShare \in Nat
    BY LiquidityAssumption, ScaleAssumption
  <2>2. p.provided \in Nat
    BY <1>3
  <2> QED
    BY <2>1, <2>2, RoundTruncate, MulType DEF ProviderFee
<1>5. Mul(p.provided, ProviderFee) \in Nat
  BY <1>3, <1>4, MulType
<1>6. amount \in Nat /\ amount <= work.feeLeft
  BY <1>2, <1>4
<1>7. work' = [work EXCEPT !.feeLeft = @ - amount, !.feeNext = @ + 1,
                            !.providers = [work.providers EXCEPT ![n] = q]]
  BY <1>1
<1>8. q \in P
  BY <1>3, <1>5
<1> HIDE DEF amount, p, q
<1>9. [work.providers EXCEPT ![n] = q] \in Seq(P)
  BY <1>2, <1>8, ExceptSeq
<1>10. work.feeLeft - amount \in Nat /\ work.feeNext + 1 \in Nat
  BY <1>2, <1>6
<1>11. /\ work' \in Work /\ work'.feeLeft = work.feeLeft - amount
       /\ work'.feeNext = work.feeNext + 1 /\ work'.giveNext = work.giveNext
       /\ work'.left = work.left /\ work'.wanted = work.wanted /\ work'.given = work.given
       /\ work'.used = work.used /\ work'.feeForReserve = work.feeForReserve
       /\ work'.offer = work.offer
  <2> DEFINE ps == [work.providers EXCEPT ![n] = q]
  <2>1. ps \in Seq(P)
    BY <1>9
  <2>2. work' = [work EXCEPT !.feeLeft = @ - amount, !.feeNext = @ + 1, !.providers = ps]
    BY <1>7
  <2> HIDE DEF ps
  <2> QED
    BY <1>2, <1>10, <2>1, <2>2 DEF Work
<1>12. WorkOK'
  BY <1>1, <1>11, WorkTypes DEF Inv, WorkOK
<1>13. /\ ChainOK' /\ PricesOK(pairs', ratios') /\ SavedOK' /\ saved' = saved /\ deal' = deal
  BY <1>1, TradeFrame
<1>14. step' = step /\ reserve' = reserve /\ drift' = drift /\ dropped' = dropped /\ DriftOK'
  BY <1>1 DEF Inv, DriftOK
<1>15. From' = From /\ To' = To /\ From # To
  BY <1>1, <1>13, <1>14 DEF Inv, DealOK, From, To
<1>16. From \in Denoms /\ To \in Denoms
  BY TradeTypes
<1>17. BookOK(entries', nextIndex', liqSum') /\ liqSum' = Add(liqSum, To, amount)
  BY <1>1, <1>3, <1>6, <1>16, AddToBookKeeps DEF Inv
<1>18. /\ pool' \in [Denoms -> Int] /\ tradePool' \in [Denoms -> Int]
       /\ \A o \in Denoms :
            /\ liqSum'[o] = IF o = To THEN liqSum[o] + amount ELSE liqSum[o]
            /\ pool'[o] = IF o = To THEN pool[o] + amount ELSE pool[o]
            /\ tradePool'[o] = IF o = To THEN tradePool[o] + -amount ELSE tradePool[o]
  <2>1. amount \in Int /\ -amount \in Int
    BY <1>6
  <2>2. liqSum \in [Denoms -> Int] /\ pool \in [Denoms -> Int] /\ tradePool \in [Denoms -> Int]
    BY TradeTypes
  <2>3. \A o \in Denoms : liqSum'[o] = IF o = To THEN liqSum[o] + amount ELSE liqSum[o]
    BY <1>16, <1>17, <2>1, <2>2 DEF Add
  <2>4. /\ pool' \in [Denoms -> Int]
        /\ \A o \in Denoms : pool'[o] = IF o = To THEN pool[o] + amount ELSE pool[o]
    BY <1>1, <1>16, <2>1, <2>2 DEF Add
  <2>5. /\ tradePool' \in [Denoms -> Int]
        /\ \A o \in Denoms :
             tradePool'[o] = IF o = To THEN tradePool[o] + -amount ELSE tradePool[o]
    BY <1>1, <1>16, <2>1, <2>2 DEF Add
  <2> QED
    BY <2>3, <2>4, <2>5
<1>19. FlowOK'
  <2>1. /\ \A d \in Others \ {From, To} : tradePool[d] = 0
        /\ tradePool[From] >= work.used
        /\ From # Base => tradePool[From] = work.used
        /\ tradePool[To] >= work.feeLeft + work.feeForReserve
    BY <1>1 DEF Inv, FlowOK
  <2>2. tradePool'[To] >= work'.feeLeft + work'.feeForReserve
    <3>1. tradePool[To] \in Nat /\ work.feeForReserve \in Nat
      BY <1>16, TradeTypes, WorkTypes
    <3> QED
      BY <1>2, <1>6, <1>11, <1>16, <1>18, <2>1, <3>1
  <2>3. tradePool'[From] = tradePool[From]
    BY <1>15, <1>16, <1>18
  <2>4. \A d \in Others \ {From, To} : tradePool'[d] = 0
    BY <1>18, <2>1 DEF Denoms
  <2> QED
    BY <1>1, <1>11, <1>15, <2>1, <2>2, <2>3, <2>4 DEF FlowOK
<1>20. BankOK(pool', tradePool', reserve')
  <2>1. \A o \in Denoms : pool'[o] >= 0
    BY <1>6, <1>18, TradeTypes
  <2>2. \A o \in Denoms : tradePool'[o] >= 0
    <3>1. tradePool[To] >= amount
      <4>1. tradePool[To] >= work.feeLeft + work.feeForReserve
        BY <1>1 DEF Inv, FlowOK
      <4>2. tradePool[To] \in Nat /\ work.feeForReserve \in Nat
        BY <1>16, TradeTypes, WorkTypes
      <4> QED
        BY <1>2, <1>6, <4>1, <4>2
    <3> QED
      BY <1>6, <1>16, <1>18, <3>1, TradeTypes
  <2> QED
    BY <1>14, <1>18, <2>1, <2>2, NatFunction DEF Inv, BankOK
<1>21. DealOK'
  BY <1>1, <1>13, <1>14, <1>15 DEF Inv, DealOK
<1>22. PoolAccounting'
  <2>1. ASSUME NEW d \in Denoms
        PROVE  liqSum'[d] + Taken(d)' = pool'[d] + Given(d)' + Excess(d)'
    <3>1. /\ Taken(d) = 0 /\ Taken(d)' = 0
          /\ Given(d)' = Given(d) /\ Given(d) \in Nat
      BY <1>1, <1>11, <1>15, WorkTypes DEF Taken, Given
    <3>2. liqSum[d] + Taken(d) = pool[d] + Given(d) + Excess(d)
      BY DEF Inv, PoolAccounting
    <3>3. liqSum[d] \in Nat /\ pool[d] \in Nat /\ Excess(d) \in Int
      BY TradeTypes
    <3> QED
      BY <1>6, <1>14, <1>18, <3>1, <3>2, <3>3, ExcessFrame
  <2> QED
    BY <2>1 DEF PoolAccounting
<1>23. Progress'
  <2>1. Owed' = work.feeLeft - amount /\ Owed = work.feeLeft
    BY <1>1, <1>11 DEF Owed
  <2>2. stage # "idle" /\ stage' # "idle" /\ deal.start # deal.end
    BY <1>1 DEF Inv, DealOK
  <2>3. deal.start # To /\ (To = Base \/ To = deal.end)
    BY <1>15, <2>2 DEF From, To
  <2>4. \A d \in Denoms : Held(d)' = Held(d) /\ HeldBefore(d)' = HeldBefore(d)
    <3>1. ASSUME NEW d \in Denoms PROVE Held(d)' = Held(d)
      <4>1. pool[d] \in Nat /\ tradePool[d] \in Nat /\ reserve[d] \in Nat
        BY TradeTypes
      <4> QED
        BY <1>6, <1>14, <1>18, <4>1 DEF Held
    <3> QED
      BY <1>13, <3>1 DEF HeldBefore
  <2>5. /\ liqSum'[deal.start] = liqSum[deal.start]
        /\ \A d \in Denoms \ {deal.start, deal.end, Base} : liqSum'[d] = liqSum[d]
    BY <1>18, <2>3, TradeTypes
  <2>6. Progress
    BY DEF Inv
  <2>7. /\ liqSum'[deal.end] <= saved.liqSum[deal.end]
        /\ To = deal.end => liqSum'[To] + (work.feeLeft - amount) <= saved.liqSum[To]
    <3>1. CASE To = deal.end
      <4>1. liqSum[To] + work.feeLeft <= saved.liqSum[To] /\ liqSum'[To] = liqSum[To] + amount
        BY <1>16, <1>18, <2>1, <2>2, <2>6, <3>1 DEF Progress
      <4>2. /\ liqSum[To] \in Nat /\ saved.liqSum[To] \in Nat
        BY <1>16, <2>2, TradeTypes
      <4> QED
        BY <1>2, <1>6, <3>1, <4>1, <4>2
    <3>2. CASE To # deal.end
      BY <1>18, <2>2, <2>6, <3>2, TradeTypes DEF Progress
    <3> QED
      BY <3>1, <3>2
  <2> QED
    BY <1>13, <1>15, <2>1, <2>2, <2>4, <2>5, <2>6, <2>7, TradeTypes DEF Progress
<1> QED
  BY <1>12, <1>13, <1>14, <1>17, <1>19, <1>20, <1>21, <1>22, <1>23 DEF Inv

\* The share of a provider in the sold coins.
LEMMA EligableType ==
  ASSUME Inv, NEW p \in [address: Addresses, provided: Nat]
  PROVE  Eligable(p) \in Nat
<1> DEFINE P == [address: Addresses, provided: Nat]
           f == [i \in DOMAIN work.providers |-> work.providers[i].provided]
           S == 1..Len(work.providers)
<1>1. work.providers \in Seq(P) /\ work.used \in Nat
  BY WorkTypes
<1>2. /\ Len(work.providers) \in Nat /\ DOMAIN work.providers = S
      /\ work.providers \in [S -> P]
  BY <1>1, LenProperties
<1>3. f \in [S -> Nat]
  BY <1>2
<1>4. IsFiniteSet(S)
  BY <1>2, FS_Interval
<1> HIDE DEF f, S
<1>5. SumOf(f) \in Nat
  BY <1>3, <1>4, SumType
<1>6. SumProvided \in Nat
  BY <1>5 DEF SumProvided, f
<1>7. p.provided \in Nat
  OBVIOUS
<1>8. ShareProvided(p) \in Nat
  BY <1>6, <1>7, QuoType DEF ShareProvided
<1>9. ToDec(work.used) \in Nat
  BY <1>1, ToDecType
<1>10. Mul(ShareProvided(p), ToDec(work.used)) \in Nat
  BY <1>8, <1>9, MulType
<1> QED
  BY <1>10, RoundTruncate DEF Eligable

\* A provider is given a share of the sold coins.
LEMMA GiveFundsKeeps ==
  ASSUME Inv, txs' = txs, GiveFunds
  PROVE  Inv'
<1> DEFINE P == [address: Addresses, provided: Nat]
           p == work.providers[work.giveNext]
           x == Eligable(p)
<1>1. /\ stage = "pay" /\ stage' = stage /\ ~(work.giveNext > Len(work.providers))
      /\ AddToBook(From, p.address, x)
      /\ work' = [work EXCEPT !.giveNext = @ + 1, !.given = @ + x]
      /\ UNCHANGED <<prices, chain, deal, saved>>
      /\ UNCHANGED <<bank, step, drift, dropped>>
  BY DEF GiveFunds, Giving, AllGiven
<1>2. /\ work.providers \in Seq(P) /\ work.giveNext \in 1..Len(work.providers)
      /\ work.given \in Nat /\ work.giveNext \in Nat /\ work \in Work
  <2>1. /\ work.providers \in Seq(P) /\ work.given \in Nat /\ work.giveNext \in Nat
        /\ work \in Work /\ work.giveNext > 0
    BY WorkTypes
  <2>2. Len(work.providers) \in Nat
    BY <2>1, LenProperties
  <2> QED
    BY <1>1, <2>1, <2>2
<1>3. p \in P
  BY <1>2, ElementOfSeq
<1>4. p.address \in Addresses
  BY <1>3
<1>5. x \in Nat
  BY <1>3, EligableType
<1> HIDE DEF p, x
<1>6. work.given + x \in Nat /\ work.giveNext + 1 \in Nat
  BY <1>2, <1>5
<1>7. /\ work' \in Work /\ work'.given = work.given + x
      /\ work'.giveNext = work.giveNext + 1 /\ work'.feeNext = work.feeNext
      /\ work'.left = work.left /\ work'.wanted = work.wanted
      /\ work'.feeLeft = work.feeLeft
      /\ work'.used = work.used /\ work'.feeForReserve = work.feeForReserve
  BY <1>1, <1>2, <1>6 DEF Work
<1>8. WorkOK'
  BY <1>1, <1>7, WorkTypes DEF Inv, WorkOK
<1>9. /\ ChainOK' /\ PricesOK(pairs', ratios') /\ SavedOK' /\ saved' = saved /\ deal' = deal
  BY <1>1, TradeFrame
<1>10. /\ step' = step /\ pool' = pool /\ tradePool' = tradePool /\ reserve' = reserve
       /\ drift' = drift /\ dropped' = dropped /\ DriftOK' /\ BankOK(pool', tradePool', reserve')
  BY <1>1 DEF Inv, DriftOK, bank
<1>11. From' = From /\ To' = To /\ From # To
  BY <1>1, <1>9, <1>10 DEF Inv, DealOK, From, To
<1>12. From \in Denoms /\ To \in Denoms
  BY TradeTypes
<1>13. BookOK(entries', nextIndex', liqSum') /\ liqSum' = Add(liqSum, From, x)
  BY <1>1, <1>4, <1>5, <1>12, AddToBookKeeps DEF Inv
<1>14. \A o \in Denoms : liqSum'[o] = IF o = From THEN liqSum[o] + x ELSE liqSum[o]
  <2>1. liqSum \in [Denoms -> Int]
    BY TradeTypes
  <2> QED
    BY <1>12, <1>13, <2>1 DEF Add
<1>15. FlowOK'
  BY <1>1, <1>7, <1>10, <1>11 DEF Inv, FlowOK
<1>16. DealOK'
  BY <1>1, <1>9, <1>10, <1>11 DEF Inv, DealOK
<1>17. PoolAccounting'
  <2>1. ASSUME NEW d \in Denoms
        PROVE  liqSum'[d] + Taken(d)' = pool'[d] + Given(d)' + Excess(d)'
    <3>1. /\ Taken(d) = 0 /\ Taken(d)' = 0
          /\ Given(d) = IF d = From THEN work.given ELSE 0
          /\ Given(d)' = IF d = From THEN work.given + x ELSE 0
      BY <1>1, <1>7, <1>11 DEF Taken, Given
    <3>2. liqSum[d] + Taken(d) = pool[d] + Given(d) + Excess(d)
      BY DEF Inv, PoolAccounting
    <3>3. liqSum[d] \in Nat /\ pool[d] \in Nat /\ Excess(d) \in Int
      BY TradeTypes
    <3>4. /\ liqSum'[d] = IF d = From THEN liqSum[d] + x ELSE liqSum[d]
          /\ pool'[d] = pool[d] /\ Excess(d)' = Excess(d)
      BY <1>10, <1>14, ExcessFrame
    <3>5. x \in Nat /\ work.given \in Nat
      BY <1>2, <1>5
    <3>6. CASE d = From
      BY <3>1, <3>2, <3>3, <3>4, <3>5, <3>6
    <3>7. CASE d # From
      BY <3>1, <3>2, <3>3, <3>4, <3>7
    <3> QED
      BY <3>6, <3>7
  <2> QED
    BY <2>1 DEF PoolAccounting
<1>18. Progress'
  <2>1. Owed' = Owed
    BY <1>1, <1>7 DEF Owed
  <2>2. stage # "idle" /\ stage' # "idle" /\ deal.start # deal.end
    BY <1>1 DEF Inv, DealOK
  <2>3. deal.end # From /\ (From = Base \/ From = deal.start)
    BY <1>11, <2>2 DEF From, To
  <2>4. \A d \in Denoms : Held(d)' = Held(d) /\ HeldBefore(d)' = HeldBefore(d)
    BY <1>9, <1>10 DEF Held, HeldBefore
  <2>5. /\ liqSum'[deal.end] = liqSum[deal.end] /\ liqSum'[To] = liqSum[To]
        /\ \A d \in Denoms \ {deal.start, deal.end, Base} : liqSum'[d] = liqSum[d]
    BY <1>11, <1>12, <1>14, <2>3, TradeTypes
  <2>6. Progress
    BY DEF Inv
  <2>7. liqSum'[deal.start] >= saved.liqSum[deal.start]
    <3>1. /\ liqSum[deal.start] >= saved.liqSum[deal.start]
          /\ liqSum[deal.start] \in Nat /\ saved.liqSum[deal.start] \in Nat
          /\ deal.start \in Denoms
      BY <2>2, <2>6, TradeTypes DEF Progress
    <3> QED
      BY <1>5, <1>14, <3>1
  <2> QED
    BY <1>9, <1>11, <2>1, <2>2, <2>4, <2>5, <2>6, <2>7, TradeTypes DEF Progress
<1> QED
  BY <1>8, <1>9, <1>10, <1>13, <1>15, <1>16, <1>17, <1>18 DEF Inv

\* The sold coins move to PoolLiquidity, and PoolTrade pays out the rest.
LEMMA FinishStepKeeps ==
  ASSUME Inv, txs' = txs, FinishStep
  PROVE  Inv'
<1> DEFINE received == Add(tradePool, From, -work.used)
           payout == received[To] - work.feeForReserve
<1>1. /\ stage = "pay" /\ work.feeLeft = 0
      /\ pool' = Add(pool, From, work.used)
      /\ reserve' = Add(reserve, To, work.feeForReserve)
      /\ tradePool' = [received EXCEPT ![To] = IF To = Base THEN payout ELSE 0]
      /\ drift' = Add(drift, From, work.given - work.used)
      /\ Return(payout)
      /\ UNCHANGED <<book, prices, chain, dropped>>
  BY DEF FinishStep, AllGiven, Giving
<1>2. /\ work.used \in Nat /\ work.given \in Nat /\ work.feeForReserve \in Nat
  BY WorkTypes
<1>3. /\ From \in Denoms /\ To \in Denoms /\ Base \in Denoms /\ From # To
      /\ pool \in [Denoms -> Int] /\ reserve \in [Denoms -> Int]
      /\ tradePool \in [Denoms -> Int] /\ drift \in [Denoms -> Int]
  BY <1>1, TradeTypes DEF Inv, DealOK, DriftOK
<1>4. /\ \A d \in Others \ {From, To} : tradePool[d] = 0
      /\ tradePool[From] >= work.used
      /\ From # Base => tradePool[From] = work.used
      /\ tradePool[To] >= work.feeForReserve
  <2>1. tradePool[To] >= work.feeLeft + work.feeForReserve
    BY <1>1 DEF Inv, FlowOK
  <2> QED
    BY <1>1, <1>2, <2>1 DEF Inv, FlowOK
<1>5. /\ received \in [Denoms -> Int]
      /\ \A o \in Denoms : received[o] = IF o = From THEN tradePool[o] + -work.used
                                                     ELSE tradePool[o]
  BY <1>2, <1>3 DEF Add
<1>6. payout = tradePool[To] - work.feeForReserve /\ payout \in Nat
  BY <1>2, <1>3, <1>4, <1>5
<1> HIDE DEF received, payout
<1>7. /\ tradePool' \in [Denoms -> Int]
      /\ \A o \in Denoms : tradePool'[o] =
           IF o = To THEN (IF To = Base THEN payout ELSE 0)
           ELSE IF o = From THEN tradePool[o] + -work.used ELSE tradePool[o]
  BY <1>1, <1>3, <1>5, <1>6
<1>8. /\ pool' \in [Denoms -> Int] /\ reserve' \in [Denoms -> Int]
      /\ DriftOK' /\ dropped' = dropped
      /\ \A o \in Denoms :
           /\ pool'[o] = IF o = From THEN pool[o] + work.used ELSE pool[o]
           /\ reserve'[o] = IF o = To THEN reserve[o] + work.feeForReserve ELSE reserve[o]
           /\ drift'[o] = IF o = From THEN drift[o] + (work.given - work.used) ELSE drift[o]
  <2>1. /\ pool' \in [Denoms -> Int]
        /\ \A o \in Denoms : pool'[o] = IF o = From THEN pool[o] + work.used ELSE pool[o]
    BY <1>1, <1>2, <1>3 DEF Add
  <2>2. /\ reserve' \in [Denoms -> Int]
        /\ \A o \in Denoms :
             reserve'[o] = IF o = To THEN reserve[o] + work.feeForReserve ELSE reserve[o]
    BY <1>1, <1>2, <1>3 DEF Add
  <2>3. /\ drift' \in [Denoms -> Int]
        /\ \A o \in Denoms :
             drift'[o] = IF o = From THEN drift[o] + (work.given - work.used) ELSE drift[o]
    BY <1>1, <1>2, <1>3 DEF Add
  <2>4. dropped' = dropped /\ dropped' \in [Denoms -> Nat]
    BY <1>1 DEF Inv, DriftOK
  <2> QED
    BY <2>1, <2>2, <2>3, <2>4 DEF DriftOK
<1>9. UNCHANGED <<prices, chain, deal, saved>>
  BY <1>1 DEF Return
<1>10. /\ ChainOK' /\ PricesOK(pairs', ratios') /\ SavedOK' /\ saved' = saved
  BY <1>1, <1>9, TradeFrame
<1>11. /\ DealOK' /\ WorkOK' /\ stage' \in {"begin", "end"} /\ step' = 2
       /\ work'.offer = payout /\ Owed' = 0 /\ To' = deal.end /\ deal' = deal
  BY <1>1, <1>6, ReturnKeeps
<1>12. /\ entries' = entries /\ nextIndex' = nextIndex /\ liqSum' = liqSum
       /\ BookOK(entries', nextIndex', liqSum')
  BY <1>1 DEF book, Inv
<1>13. BankOK(pool', tradePool', reserve')
  <2>1. \A o \in Denoms : pool'[o] >= 0 /\ reserve'[o] >= 0
    BY <1>2, <1>8, TradeTypes
  <2>2. \A o \in Denoms : tradePool'[o] >= 0
    BY <1>2, <1>3, <1>4, <1>6, <1>7, TradeTypes
  <2> QED
    BY <1>7, <1>8, <2>1, <2>2, NatFunction DEF BankOK
<1>14. FlowOK'
  <2>1. ASSUME NEW d \in Others PROVE tradePool'[d] = 0
    <3>1. d \in Denoms /\ d # Base
      BY LiquidityAssumption DEF Denoms
    <3>2. CASE d = From
      BY <1>2, <1>3, <1>4, <1>7, <3>1, <3>2
    <3>3. CASE d # From
      BY <1>4, <1>7, <3>1, <3>3
    <3> QED
      BY <3>2, <3>3
  <2>2. stage' = "begin" => tradePool'[Base] >= work'.offer
    <3>1. SUFFICES ASSUME stage' = "begin" PROVE tradePool'[Base] >= work'.offer
      OBVIOUS
    <3>2. step = 1
      BY <1>1, <3>1 DEF Return
    <3>3. To = Base
      BY <3>2 DEF To
    <3> QED
      BY <1>3, <1>6, <1>7, <1>11, <3>3
  <2> QED
    BY <1>11, <2>1, <2>2 DEF FlowOK
<1>15. PoolAccounting'
  <2>1. ASSUME NEW d \in Denoms
        PROVE  liqSum'[d] + Taken(d)' = pool'[d] + Given(d)' + Excess(d)'
    <3>1. /\ Taken(d) = 0 /\ Taken(d)' = 0 /\ Given(d)' = 0
          /\ Given(d) = IF d = From THEN work.given ELSE 0
      BY <1>1, <1>11 DEF Taken, Given
    <3>2. liqSum[d] + Taken(d) = pool[d] + Given(d) + Excess(d)
      BY DEF Inv, PoolAccounting
    <3>3. liqSum[d] \in Nat /\ pool[d] \in Nat /\ drift[d] \in Int /\ dropped[d] \in Nat
      BY TradeTypes
    <3>4. Excess(d) = drift[d] - dropped[d] /\ Excess(d)' = drift'[d] - dropped[d]
      BY <1>8 DEF Excess
    <3>5. CASE d = From
      BY <1>2, <1>8, <1>12, <3>1, <3>2, <3>3, <3>4, <3>5
    <3>6. CASE d # From
      BY <1>8, <1>12, <3>1, <3>2, <3>3, <3>4, <3>6
    <3> QED
      BY <3>5, <3>6
  <2> QED
    BY <2>1 DEF PoolAccounting
<1>16. Progress'
  <2>1. stage # "idle" /\ stage' # "idle" /\ deal.start # deal.end
    BY <1>1, <1>11 DEF Inv, DealOK
  <2>2. To # Base => To = deal.end
    BY DEF To
  <2>3. \A d \in Denoms : HeldBefore(d)' = HeldBefore(d) /\ HeldBefore(d) \in Nat
    BY <1>10, <2>1, TradeTypes DEF HeldBefore
  <2>4. ASSUME NEW d \in Denoms
        PROVE  /\ Held(d) \in Int /\ Held(d)' \in Int
               /\ IF d = To /\ To # Base THEN Held(d)' <= Held(d) ELSE Held(d)' = Held(d)
    <3>1. pool[d] \in Nat /\ tradePool[d] \in Nat /\ reserve[d] \in Nat
      BY TradeTypes
    <3> QED
      BY <1>2, <1>3, <1>4, <1>6, <1>7, <1>8, <3>1 DEF Held
  <2>5. deal.start \in Denoms /\ deal.end \in Denoms
    BY TradeTypes
  <2>6. Progress
    BY DEF Inv
  <2>7. /\ \A d \in Denoms \ {deal.start, deal.end} : Held(d) = HeldBefore(d)
        /\ Held(deal.start) >= HeldBefore(deal.start)
        /\ Held(deal.end) <= HeldBefore(deal.end)
    BY <2>1, <2>6 DEF Progress
  <2>8. \A d \in Denoms \ {deal.start, deal.end} : Held(d)' = HeldBefore(d)
    BY <2>2, <2>4, <2>7
  <2>9. Held(deal.start)' >= HeldBefore(deal.start)
    BY <1>11, <2>1, <2>2, <2>4, <2>5, <2>7
  <2>10. Held(deal.end)' <= HeldBefore(deal.end)
    BY <1>11, <2>1, <2>3, <2>4, <2>5, <2>7
  <2>11. liqSum'[deal.end] + 0 <= saved.liqSum[deal.end]
    BY <1>12, <2>1, <2>5, <2>6, TradeTypes DEF Progress
  <2> QED
    BY <1>10, <1>11, <1>12, <2>1, <2>3, <2>5, <2>6, <2>8, <2>9, <2>10, <2>11 DEF Progress
<1> QED
  BY <1>8, <1>10, <1>11, <1>12, <1>13, <1>14, <1>15, <1>16 DEF Inv

LEMMA EndTradeKeeps ==
  ASSUME Inv, txs' = txs, EndTrade
  PROVE  Inv'
<1>1. /\ stage = "end" /\ stage' = "idle" /\ step' = 1 /\ deal' = NoDeal /\ work' = NoWork
      /\ ratios' = UpdatedRatios(liqSum, pairs, {deal.start, deal.end})
      /\ UNCHANGED <<book, pairs, bank, chain, drift, dropped>>
  BY DEF EndTrade
<1>2. /\ entries' = entries /\ nextIndex' = nextIndex /\ liqSum' = liqSum /\ pairs' = pairs
      /\ pool' = pool /\ tradePool' = tradePool /\ reserve' = reserve
      /\ drift' = drift /\ dropped' = dropped
  BY <1>1 DEF book, bank
<1>3. /\ BookOK(entries', nextIndex', liqSum') /\ BankOK(pool', tradePool', reserve')
      /\ DriftOK'
  BY <1>2 DEF Inv, DriftOK
<1>4. PricesOK(pairs', ratios')
  <2>1. liqSum \in [Denoms -> Nat] /\ pairs \in [Others -> [base: Nat, other: Nat]]
    BY DEF Inv, BookOK, PricesOK
  <2>2. PricesOK(pairs, ratios)
    BY DEF Inv
  <2> QED
    BY <1>1, <1>2, <2>1, <2>2, UpdatedRatiosType
<1>5. ChainOK'
  BY <1>1 DEF Inv, ChainOK, chain
<1>6. DealOK'
  BY <1>1, ScaleAssumption DEF DealOK, NoDeal, Denoms
<1>7. WorkOK'
  BY <1>1 DEF WorkOK, NoWork, Work
<1>8. FlowOK' /\ SavedOK' /\ Progress'
  BY <1>1, <1>2 DEF Inv, FlowOK, SavedOK, Progress
<1>9. PoolAccounting'
  BY <1>1, <1>2 DEF Inv, PoolAccounting, Excess, Taken, Given
<1> QED
  BY <1>3, <1>4, <1>5, <1>6, <1>7, <1>8, <1>9 DEF Inv

\* A trade of a liquidation stops: what was taken is dropped, and PoolLiquidity
\* holds what it held.
LEMMA AbandonTradeKeeps ==
  ASSUME Inv, txs' = txs, AbandonTrade
  PROVE  Inv'
<1>1. /\ stage = "take" /\ stage' = "idle" /\ step' = 1 /\ deal' = NoDeal
      /\ work' = NoWork /\ dropped' = Add(dropped, To, Gross)
      /\ UNCHANGED <<book, prices, bank, chain, drift>>
  BY DEF AbandonTrade, TakenUp
<1>2. /\ entries' = entries /\ nextIndex' = nextIndex /\ liqSum' = liqSum /\ pairs' = pairs
      /\ ratios' = ratios /\ pool' = pool /\ tradePool' = tradePool /\ reserve' = reserve
      /\ drift' = drift
  BY <1>1 DEF book, prices, bank
<1>3. /\ BookOK(entries', nextIndex', liqSum') /\ BankOK(pool', tradePool', reserve')
      /\ PricesOK(pairs', ratios')
  BY <1>2 DEF Inv
<1>4. Gross \in Nat /\ To \in Denoms
  BY WorkTypes, TradeTypes
<1>5. /\ dropped' \in [Denoms -> Nat]
      /\ \A o \in Denoms : dropped'[o] = IF o = To THEN dropped[o] + Gross ELSE dropped[o]
  BY <1>1, <1>4 DEF Inv, DriftOK, Add
<1>6. DriftOK'
  BY <1>2, <1>5 DEF Inv, DriftOK
<1>7. ChainOK'
  BY <1>1 DEF Inv, ChainOK, chain
<1>8. DealOK'
  BY <1>1, ScaleAssumption DEF DealOK, NoDeal, Denoms
<1>9. WorkOK'
  BY <1>1 DEF WorkOK, NoWork, Work
<1>10. FlowOK' /\ SavedOK' /\ Progress'
  BY <1>1, <1>2 DEF Inv, FlowOK, SavedOK, Progress
<1>11. PoolAccounting'
  <2>1. ASSUME NEW d \in Denoms PROVE liqSum'[d] + 0 = pool'[d] + 0 + Excess(d)'
    <3>1. /\ Taken(d) = IF d = To THEN Gross ELSE 0
          /\ Given(d) = 0
      BY <1>1 DEF Taken, Given
    <3>2. liqSum[d] + Taken(d) = pool[d] + Given(d) + Excess(d)
      BY DEF Inv, PoolAccounting
    <3>3. liqSum[d] \in Nat /\ pool[d] \in Nat /\ drift[d] \in Int /\ dropped[d] \in Nat
      BY TradeTypes
    <3>4. Excess(d) = drift[d] - dropped[d] /\ Excess(d)' = drift[d] - dropped'[d]
      BY <1>2 DEF Excess
    <3> QED
      BY <1>2, <1>4, <1>5, <3>1, <3>2, <3>3, <3>4
  <2> QED
    BY <1>1, <2>1 DEF PoolAccounting, Taken, Given
<1> QED
  BY <1>3, <1>6, <1>7, <1>8, <1>9, <1>10, <1>11 DEF Inv

\* Coins that are sent to the reserve are in no entry and in no pool.
LEMMA SendToReserveKeeps ==
  ASSUME Inv, txs' \in 0..MaxTxs, NEW d, NEW amount \in Nat, SendToReserve(d, amount)
  PROVE  Inv'
<1>1. /\ stage = "idle" /\ UNCHANGED trading /\ UNCHANGED <<tradePool, drift, dropped>>
      /\ UNCHANGED book /\ UNCHANGED prices /\ pool' = pool /\ UNCHANGED chain
      /\ reserve' = Add(reserve, d, amount) /\ d \in Denoms
  BY DEF SendToReserve, InTx, Idle
<1>2. /\ BookOK(entries', nextIndex', liqSum') /\ PricesOK(pairs', ratios')
      /\ liqSum' = liqSum
  BY <1>1 DEF book, prices, Inv
<1>3. liqSum \in [Denoms -> Nat] /\ pool \in [Denoms -> Nat] /\ reserve' \in [Denoms -> Nat]
  <2>1. reserve \in [Denoms -> Nat] /\ reserve[d] + amount \in Nat
    BY <1>1 DEF Inv, BankOK
  <2>2. reserve' \in [Denoms -> Nat]
    BY <1>1, <2>1 DEF Add
  <2> QED
    BY <2>2 DEF Inv, BookOK, BankOK
<1>4. ChainOK'
  BY <1>1 DEF Inv, ChainOK, chain, trading
<1>5. \A o \in Denoms : liqSum'[o] - pool'[o] = liqSum[o] - pool[o]
  BY <1>1, <1>2
<1> QED
  BY <1>1, <1>2, <1>3, <1>4, <1>5, IdleFrame DEF Inv

LEMMA SendUnlistedKeeps ==
  ASSUME Inv, txs' \in 0..MaxTxs, NEW d, SendUnlistedToReserve(d)
  PROVE  Inv'
<1>1. /\ stage = "idle" /\ UNCHANGED trading /\ UNCHANGED <<tradePool, drift, dropped>>
      /\ UNCHANGED book /\ UNCHANGED prices /\ pool' = pool /\ reserve' = reserve
  BY DEF SendUnlistedToReserve, InTx, Idle, bank
<1>2. /\ BookOK(entries', nextIndex', liqSum') /\ PricesOK(pairs', ratios')
      /\ liqSum' = liqSum
  BY <1>1 DEF book, prices, Inv
<1>3. liqSum \in [Denoms -> Nat] /\ pool \in [Denoms -> Nat] /\ reserve \in [Denoms -> Nat]
  BY DEF Inv, BookOK, BankOK
<1>4. ChainOK'
  BY <1>1 DEF SendUnlistedToReserve, Inv, ChainOK, trading
<1>5. \A o \in Denoms : liqSum'[o] - pool'[o] = liqSum[o] - pool[o]
  BY <1>1, <1>2
<1> QED
  BY <1>1, <1>2, <1>3, <1>4, <1>5, IdleFrame DEF Inv

-----------------------------------------------------------------------------
(* The theorems.                                                           *)

LEMMA MessageKeeps == Inv /\ Message => Inv'
<1> SUFFICES ASSUME Inv, Message PROVE Inv'
  OBVIOUS
<1>1. txs' \in 0..MaxTxs
  BY LiquidityAssumption DEF Message, Inv, ChainOK
<1>2. \A a \in Amounts : a \in Nat
  BY LiquidityAssumption
<1>3. ASSUME NEW u \in Users, NEW d \in Denoms, NEW a \in Amounts, AddLiquidity(u, d, a)
      PROVE  Inv'
  BY <1>1, <1>2, <1>3, AddLiquidityKeeps
<1>4. ASSUME NEW u \in Users, NEW d \in Denoms, NEW a \in Amounts, RemoveLiquidity(u, d, a)
      PROVE  Inv'
  BY <1>1, <1>2, <1>4, RemoveLiquidityKeeps DEF RemoveLiquidity
<1>5. ASSUME NEW u \in Users, NEW d \in Denoms, RemoveAllLiquidityForDenom(u, d)
      PROVE  Inv'
  <2> DEFINE I == OwnEntries(entries, d, u)
             amount == SumOf([i \in I |-> entries[i].amount])
  <2>1. amount \in Nat
    BY OwnSumType DEF Inv
  <2>2. RemoveLiquidityForAddress(u, d, amount)
    BY <1>5 DEF RemoveAllLiquidityForDenom
  <2> HIDE DEF amount
  <2> QED
    BY <1>1, <2>1, <2>2, RemoveLiquidityKeeps
<1>6. ASSUME NEW s \in Denoms, NEW e \in Denoms, NEW a \in Amounts,
             NEW incomplete \in BOOLEAN, NEW liquidation \in BOOLEAN,
             ExecuteTrade(s, e, a, incomplete, liquidation)
      PROVE  Inv'
  BY <1>1, <1>2, <1>6, ExecuteTradeKeeps
<1>7. ASSUME NEW d \in Gifts, NEW a \in Amounts, SendToReserve(d, a)
      PROVE  Inv'
  BY <1>1, <1>2, <1>7, SendToReserveKeeps
<1>8. ASSUME NEW d \in Gifts, SendUnlistedToReserve(d)
      PROVE  Inv'
  BY <1>1, <1>8, SendUnlistedKeeps
<1> QED
  BY <1>3, <1>4, <1>5, <1>6, <1>7, <1>8 DEF Message

LEMMA TradeStepKeeps == Inv /\ TradeStep => Inv'
BY DepositBaseKeeps, WithdrawBaseKeeps, BuyNothingKeeps, BeginStepKeeps, TakeLiquidityKeeps,
   RollBackKeeps, AbandonTradeKeeps, CollectCoinsKeeps, PayFeeKeeps, GiveFundsKeeps,
   FinishStepKeeps, EndTradeKeeps DEF TradeStep

LEMMA BlockKeeps == Inv /\ Block => Inv'
BY RestartKeeps, BeginBlockKeeps, BurnReserveKeeps, CheckReserveKeeps,
   CheckReserveFailsKeeps DEF Block

LEMMA InvStutter == Inv /\ UNCHANGED vars => Inv'
<1> SUFFICES ASSUME Inv, UNCHANGED vars PROVE Inv'
  OBVIOUS
<1> USE DEF vars, book, prices, bank, chain, trading
<1>1. ChainOK' /\ DriftOK'
  BY DEF Inv, ChainOK, DriftOK
<1>2. /\ BookOK(entries', nextIndex', liqSum') /\ PricesOK(pairs', ratios')
      /\ BankOK(pool', tradePool', reserve')
  BY DEF Inv
<1>3. DealOK' /\ WorkOK' /\ FlowOK'
  BY DEF Inv, DealOK, WorkOK, FlowOK, From, To
<1>4. PoolAccounting' /\ SavedOK'
  BY DEF Inv, PoolAccounting, Excess, Taken, Given, Gross, From, To, SavedOK
<1>5. Progress'
  BY DEF Inv, Progress, Held, HeldBefore, Owed, Gross, To
<1> QED
  BY <1>1, <1>2, <1>3, <1>4, <1>5 DEF Inv

LEMMA InvStep == Inv /\ [Next]_vars => Inv'
BY MessageKeeps, TradeStepKeeps, BlockKeeps, InvStutter DEF Next

\* The inductive invariant holds in every state of every behaviour.
THEOREM Invariance == Spec => []Inv
<1>1. Init => Inv
  BY InvInit
<1>2. Inv /\ [Next]_vars => Inv'
  BY InvStep
<1> QED
  BY <1>1, <1>2, PTL DEF Spec

\* No balance, no sum, no virtual amount and no amount of a trade is ever
\* negative: the transfers a trade makes without a check never lack the coins.
THEOREM TypeCorrect == Spec => []TypeOK
<1>1. Inv => TypeOK
  <2> SUFFICES ASSUME Inv PROVE TypeOK
    OBVIOUS
  <2>1. /\ DOMAIN entries \subseteq 1..nextIndex
        /\ \A i \in DOMAIN entries : entries[i] \in Entry
        /\ nextIndex \in Nat /\ liqSum \in [Denoms -> Nat]
    BY DEF Inv, BookOK
  <2>2. /\ pairs \in [Others -> [base: Nat, other: Nat]]
        /\ DOMAIN ratios \subseteq Others
        /\ \A d \in DOMAIN ratios : ratios[d] \in Nat
    BY DEF Inv, PricesOK
  <2>3. /\ pool \in [Denoms -> Nat] /\ tradePool \in [Denoms -> Nat]
        /\ reserve \in [Denoms -> Nat]
        /\ drift \in [Denoms -> Int] /\ dropped \in [Denoms -> Nat]
    BY DEF Inv, BankOK, DriftOK
  <2>4. /\ strays \subseteq Unlisted /\ unchecked \subseteq Denoms \cup Unlisted
        /\ halted \in BOOLEAN /\ genesis \in BOOLEAN
        /\ txs \in 0..MaxTxs /\ blocks \in 0..MaxBlocks
    BY DEF Inv, ChainOK
  <2>5. /\ stage \in {"idle", "begin", "take", "pay", "end"}
        /\ deal \in [start: Denoms, end: Denoms, fee: 0..Scale, liquidation: BOOLEAN]
        /\ step \in {1, 2} /\ work \in Work
    BY DEF Inv, DealOK, WorkOK
  <2> QED
    BY <2>1, <2>2, <2>3, <2>4, <2>5 DEF TypeOK
<1> QED
  BY <1>1, Invariance, PTL

\* LiquiditySum is the sum of the entries after every round of every trade,
\* and however liquidity is added and removed.
THEOREM LiquiditySumCorrect == Spec => []LiquiditySumOK
<1>1. Inv => LiquiditySumOK
  BY DEF Inv, BookOK, LiquiditySumOK
<1> QED
  BY <1>1, Invariance, PTL

\* An address never has more than two entries in a denom.
THEOREM EntriesStayBounded == Spec => []EntriesBounded
<1>1. Inv => EntriesBounded
  BY DEF Inv, BookOK, EntriesBounded
<1> QED
  BY <1>1, Invariance, PTL

\* PoolLiquidity holds what the entries promise, to the last coin, but for the
\* rounding of the shares and for what trades of liquidations that failed have
\* taken from the entries: both are recorded where the code makes them.
THEOREM PoolsAccountedFor == Spec => []PoolAccounting
<1>1. Inv => PoolAccounting
  BY DEF Inv
<1> QED
  BY <1>1, Invariance, PTL

\* After a trade PoolTrade holds no coins of any denom but the base currency.
THEOREM TradePoolStaysClean == Spec => []TradePoolClean
<1>1. Inv => TradePoolClean
  BY DEF Inv, FlowOK, TradePoolClean
<1> QED
  BY <1>1, Invariance, PTL

-----------------------------------------------------------------------------
(* The refinement of Exchange.                                             *)

\* What the exchange has, between transactions and during a trade.
LEMMA CustodyIdle ==
  ASSUME Inv, stage = "idle"
  PROVE  /\ Custody \in [Denoms -> Int] /\ Claims = liqSum
         /\ Claims \in [Denoms -> Int]
         /\ \A d \in Denoms : Custody[d] = Held(d) /\ Custody[d] \in Nat /\ Claims[d] \in Nat
BY TradeTypes DEF Custody, Claims, Held

LEMMA CustodyBusy ==
  ASSUME Inv, stage # "idle"
  PROVE  /\ Custody \in [Denoms -> Int] /\ Claims = saved.liqSum
         /\ Claims \in [Denoms -> Int]
         /\ \A d \in Denoms : Custody[d] = HeldBefore(d) /\ Custody[d] \in Nat
                              /\ Claims[d] \in Nat
<1>1. saved.liqSum \in [Denoms -> Int]
  BY DEF Inv, SavedOK, BookOK
<1> QED
  BY <1>1, TradeTypes DEF Custody, Claims, HeldBefore

\* The same after a step.
LEMMA CustodyIdleNext ==
  ASSUME Inv', stage' = "idle"
  PROVE  /\ Custody' \in [Denoms -> Int] /\ Claims' = liqSum'
         /\ Claims' \in [Denoms -> Int]
         /\ \A d \in Denoms : Custody'[d] = Held(d)' /\ Custody'[d] \in Nat
                              /\ Claims'[d] \in Nat
<1>1. /\ liqSum' \in [Denoms -> Nat] /\ pool' \in [Denoms -> Nat]
      /\ tradePool' \in [Denoms -> Nat] /\ reserve' \in [Denoms -> Nat]
  BY DEF Inv, BookOK, BankOK
<1> QED
  BY <1>1 DEF Custody, Claims, Held

LEMMA CustodyBusyNext ==
  ASSUME Inv', stage' # "idle"
  PROVE  /\ Custody' \in [Denoms -> Int] /\ Claims' = saved'.liqSum
         /\ \A d \in Denoms : Custody'[d] = HeldBefore(d)'
<1>1. /\ saved'.liqSum \in [Denoms -> Nat] /\ saved'.pool \in [Denoms -> Nat]
      /\ saved'.tradePool \in [Denoms -> Nat] /\ saved'.reserve \in [Denoms -> Nat]
  BY DEF Inv, SavedOK, BookOK, BankOK
<1> QED
  BY <1>1 DEF Custody, Claims, HeldBefore

LEMMA AddDeposits ==
  ASSUME Inv, Inv', NEW u \in Users, NEW d \in Denoms, NEW a \in Amounts,
         AddLiquidity(u, d, a)
  PROVE  Abstract!Next
<1>1. /\ stage = "idle" /\ stage' = "idle" /\ a \in Nat /\ a > 0
      /\ liqSum' = Add(liqSum, d, a) /\ pool' = Add(pool, d, a)
      /\ tradePool' = tradePool /\ reserve' = reserve /\ dropped' = dropped
  BY LiquidityAssumption
     DEF AddLiquidity, AddAndBalance, AddToBook, InTx, Idle, trading
<1>2. /\ Custody \in [Denoms -> Int] /\ Claims = liqSum /\ Claims \in [Denoms -> Int]
      /\ \A o \in Denoms : Custody[o] = Held(o) /\ Custody[o] \in Nat
  BY <1>1, CustodyIdle
<1>3. /\ Custody' \in [Denoms -> Int] /\ Claims' = liqSum'
      /\ \A o \in Denoms : Custody'[o] = Held(o)'
  BY <1>1, CustodyIdleNext
<1>4. \A o \in Denoms : Held(o)' = IF o = d THEN Held(o) + a ELSE Held(o)
  <2>1. pool \in [Denoms -> Nat] /\ tradePool \in [Denoms -> Nat] /\ reserve \in [Denoms -> Nat]
    BY DEF Inv, BankOK
  <2> QED
    BY <1>1, <2>1 DEF Held, Add
<1>5. Custody' = [Custody EXCEPT ![d] = @ + a]
  BY <1>1, <1>2, <1>3, <1>4
<1>6. Custody'[d] - Custody[d] = a
  BY <1>1, <1>2, <1>5
<1>7. Claims' = [Claims EXCEPT ![d] = @ + a]
  BY <1>1, <1>2, <1>3 DEF Add
<1>8. Abstract!Deposit(d, Custody'[d] - Custody[d])
  BY <1>1, <1>5, <1>6, <1>7 DEF Abstract!Deposit, Abstract!Credit
<1> QED
  BY <1>8 DEF Abstract!Next

LEMMA RemoveWithdraws ==
  ASSUME Inv, Inv', NEW u \in Users, NEW d \in Denoms, NEW a \in Nat,
         RemoveLiquidityForAddress(u, d, a)
  PROVE  Abstract!Next
<1>1. /\ stage = "idle" /\ stage' = "idle"
      /\ liqSum' = Add(liqSum, d, -a) /\ pool' = Add(pool, d, -a)
      /\ tradePool' = tradePool /\ reserve' = reserve /\ dropped' = dropped
  BY DEF RemoveLiquidityForAddress, InTx, Idle, trading
<1>2. /\ Custody \in [Denoms -> Int] /\ Claims = liqSum /\ Claims \in [Denoms -> Int]
      /\ \A o \in Denoms : Custody[o] = Held(o) /\ Custody[o] \in Nat
  BY <1>1, CustodyIdle
<1>3. /\ Custody' \in [Denoms -> Int] /\ Claims' = liqSum' /\ Claims'[d] \in Nat
      /\ \A o \in Denoms : Custody'[o] = Held(o)'
  BY <1>1, CustodyIdleNext
<1>4. \A o \in Denoms : Held(o)' = IF o = d THEN Held(o) + -a ELSE Held(o)
  <2>1. pool \in [Denoms -> Nat] /\ tradePool \in [Denoms -> Nat] /\ reserve \in [Denoms -> Nat]
    BY DEF Inv, BankOK
  <2> QED
    BY <1>1, <2>1 DEF Held, Add
<1>5. Custody' = [Custody EXCEPT ![d] = @ + -a]
  BY <1>2, <1>3, <1>4
<1>6. Custody[d] - Custody'[d] = a
  BY <1>2, <1>5
<1>7. Claims' = [Claims EXCEPT ![d] = @ + -a]
  BY <1>1, <1>2, <1>3 DEF Add
<1>8. a <= Claims[d]
  BY <1>2, <1>3, <1>7
<1>9. Abstract!Withdraw(d, Custody[d] - Custody'[d])
  <2>1. Abstract!Withdraw(d, a)
    BY <1>1, <1>5, <1>7, <1>8 DEF Abstract!Withdraw, Abstract!Credit
  <2> QED
    BY <1>6, <2>1
<1> QED
  BY <1>9 DEF Abstract!Next

\* What leaves the reserve is burned, paid to the vault, or a new claim.
LEMMA ReserveSpends ==
  ASSUME Inv, Inv', NEW d \in Denoms, NEW kept \in Nat, kept <= reserve[d],
         stage = "idle", stage' = "idle", tradePool' = tradePool, dropped' = dropped,
         reserve' = [reserve EXCEPT ![d] = 0],
         pool' = Add(pool, d, kept), liqSum' = Add(liqSum, d, kept)
  PROVE  Abstract!Next
<1> DEFINE paid == reserve[d] - kept
<1>1. /\ Custody \in [Denoms -> Int] /\ Claims = liqSum /\ Claims \in [Denoms -> Int]
      /\ \A o \in Denoms : Custody[o] = Held(o) /\ Custody[o] \in Nat
  BY CustodyIdle
<1>2. /\ Custody' \in [Denoms -> Int] /\ Claims' = liqSum'
      /\ \A o \in Denoms : Custody'[o] = Held(o)'
  BY CustodyIdleNext
<1>3. pool \in [Denoms -> Nat] /\ tradePool \in [Denoms -> Nat] /\ reserve \in [Denoms -> Nat]
  BY DEF Inv, BankOK
<1>4. paid \in Nat
  BY <1>3
<1>5. \A o \in Denoms : Held(o)' = IF o = d THEN Held(o) + -paid ELSE Held(o)
  BY <1>3 DEF Held, Add
<1> HIDE DEF paid
<1>6. Custody' = [Custody EXCEPT ![d] = @ + -paid]
  BY <1>1, <1>2, <1>4, <1>5
<1>7. Custody[d] - Custody'[d] = paid
  BY <1>1, <1>4, <1>6
<1>8. Claims' = [Claims EXCEPT ![d] = @ + kept]
  BY <1>1, <1>2 DEF Add
<1>9. Claims'[d] - Claims[d] = kept
  BY <1>1, <1>8
<1>10. Abstract!SpendReserve(d, Custody[d] - Custody'[d], Claims'[d] - Claims[d])
  <2>1. Abstract!SpendReserve(d, paid, kept)
    BY <1>4, <1>6, <1>8 DEF Abstract!SpendReserve, Abstract!Credit
  <2> QED
    BY <1>7, <1>9, <2>1
<1> QED
  BY <1>10 DEF Abstract!Next

\* The last step of a trade is the trade of the exchange.
LEMMA EndTrades ==
  ASSUME Inv, Inv', EndTrade
  PROVE  Abstract!Next
<1> DEFINE s == deal.start
           e == deal.end
<1>1. /\ stage = "end" /\ stage' = "idle" /\ liqSum' = liqSum
      /\ pool' = pool /\ tradePool' = tradePool /\ reserve' = reserve
      /\ dropped' = dropped
  BY DEF EndTrade, book, bank
<1>2. /\ Custody \in [Denoms -> Int] /\ Claims = saved.liqSum /\ Claims \in [Denoms -> Int]
      /\ \A o \in Denoms : Custody[o] = HeldBefore(o)
  BY <1>1, CustodyBusy
<1>3. /\ Custody' \in [Denoms -> Int] /\ Claims' = liqSum' /\ Claims' \in [Denoms -> Int]
      /\ \A o \in Denoms : Custody'[o] = Held(o)'
  BY <1>1, CustodyIdleNext
<1>4. \A o \in Denoms : Held(o)' = Held(o)
  BY <1>1 DEF Held
<1>5. s \in Denoms /\ e \in Denoms /\ s # e /\ Base \in Denoms
  BY <1>1, TradeTypes DEF Inv, DealOK
<1>6. /\ \A d \in Denoms \ {s, e} : Held(d) = HeldBefore(d)
      /\ Held(s) >= HeldBefore(s)
      /\ Held(e) <= HeldBefore(e)
      /\ \A d \in Denoms \ {s, e, Base} : liqSum[d] = saved.liqSum[d]
      /\ liqSum[s] >= saved.liqSum[s]
      /\ liqSum[e] <= saved.liqSum[e]
  BY <1>1 DEF Inv, Progress
<1> HIDE DEF s, e
<1>7. Custody' = [Custody EXCEPT ![s] = Custody'[s], ![e] = Custody'[e]]
  BY <1>2, <1>3, <1>4, <1>5, <1>6
<1>8. Claims' = [Claims EXCEPT ![s] = Claims'[s], ![e] = Claims'[e], ![Base] = Claims'[Base]]
  BY <1>1, <1>2, <1>3, <1>5, <1>6
<1>9. /\ Custody'[s] >= Custody[s] /\ Custody'[e] <= Custody[e]
      /\ Claims'[s] >= Claims[s] /\ Claims'[e] <= Claims[e]
  BY <1>1, <1>2, <1>3, <1>4, <1>5, <1>6
<1>10. Abstract!Trade(s, e)
  BY <1>1, <1>5, <1>7, <1>8, <1>9 DEF Abstract!Trade
<1> QED
  BY <1>5, <1>10 DEF Abstract!Next

\* Nothing the exchange has changes while a trade begins, runs or fails.
LEMMA BeginTradeStutters ==
  ASSUME Inv, Inv', NEW s \in Denoms, NEW e \in Denoms, NEW a \in Amounts,
         NEW incomplete \in BOOLEAN, NEW liquidation \in BOOLEAN,
             ExecuteTrade(s, e, a, incomplete, liquidation)
  PROVE  UNCHANGED <<Custody, Claims, dropped>>
<1>1. stage = "idle" /\ stage' = "begin" /\ saved' = Snapshot /\ dropped' = dropped
  BY DEF ExecuteTrade, InTx, Idle
<1>2. /\ Custody \in [Denoms -> Int] /\ Claims = liqSum
      /\ \A o \in Denoms : Custody[o] = Held(o)
  BY <1>1, CustodyIdle
<1>3. /\ Custody' \in [Denoms -> Int] /\ Claims' = saved'.liqSum
      /\ \A o \in Denoms : Custody'[o] = HeldBefore(o)'
  BY <1>1, CustodyBusyNext
<1>4. \A o \in Denoms : HeldBefore(o)' = Held(o)
  BY <1>1 DEF HeldBefore, Held, Snapshot
<1>5. saved'.liqSum = liqSum
  BY <1>1 DEF Snapshot
<1> QED
  BY <1>1, <1>2, <1>3, <1>4, <1>5

LEMMA TradeStutters ==
  ASSUME Inv, Inv', stage # "idle", stage' # "idle", saved' = saved,
         dropped' = dropped
  PROVE  UNCHANGED <<Custody, Claims, dropped>>
<1>1. /\ Custody \in [Denoms -> Int] /\ Claims = saved.liqSum
      /\ \A o \in Denoms : Custody[o] = HeldBefore(o)
  BY CustodyBusy
<1>2. /\ Custody' \in [Denoms -> Int] /\ Claims' = saved'.liqSum
      /\ \A o \in Denoms : Custody'[o] = HeldBefore(o)'
  BY CustodyBusyNext
<1>3. \A o \in Denoms : HeldBefore(o)' = HeldBefore(o)
  BY DEF HeldBefore
<1> QED
  BY <1>1, <1>2, <1>3

LEMMA RollBackStutters ==
  ASSUME Inv, Inv', RollBack
  PROVE  UNCHANGED <<Custody, Claims, dropped>>
<1>1. /\ stage # "idle" /\ stage' = "idle" /\ liqSum' = saved.liqSum /\ pool' = saved.pool
      /\ tradePool' = saved.tradePool /\ reserve' = saved.reserve
      /\ dropped' = dropped
  BY DEF RollBack
<1>2. /\ Custody \in [Denoms -> Int] /\ Claims = saved.liqSum
      /\ \A o \in Denoms : Custody[o] = HeldBefore(o)
  BY <1>1, CustodyBusy
<1>3. /\ Custody' \in [Denoms -> Int] /\ Claims' = liqSum'
      /\ \A o \in Denoms : Custody'[o] = Held(o)'
  BY <1>1, CustodyIdleNext
<1>4. \A o \in Denoms : Held(o)' = HeldBefore(o)
  BY <1>1 DEF HeldBefore, Held
<1> QED
  BY <1>1, <1>2, <1>3, <1>4

LEMMA IdleStutters ==
  ASSUME Inv, Inv', stage = "idle", stage' = "idle",
         liqSum' = liqSum, UNCHANGED bank, dropped' = dropped
  PROVE  UNCHANGED <<Custody, Claims, dropped>>
<1>1. /\ Custody \in [Denoms -> Int] /\ Claims = liqSum
      /\ \A o \in Denoms : Custody[o] = Held(o)
  BY CustodyIdle
<1>2. /\ Custody' \in [Denoms -> Int] /\ Claims' = liqSum'
      /\ \A o \in Denoms : Custody'[o] = Held(o)'
  BY CustodyIdleNext
<1>3. \A o \in Denoms : Held(o)' = Held(o)
  BY DEF Held, bank
<1> QED
  BY <1>1, <1>2, <1>3

\* Coins sent to the reserve are given to the exchange.
LEMMA SendDonates ==
  ASSUME Inv, Inv', NEW d \in Gifts, NEW a \in Amounts, SendToReserve(d, a)
  PROVE  Abstract!Next
<1>1. /\ stage = "idle" /\ stage' = "idle" /\ a \in Nat /\ a > 0 /\ d \in Denoms
      /\ liqSum' = liqSum /\ pool' = pool /\ tradePool' = tradePool
      /\ reserve' = Add(reserve, d, a) /\ dropped' = dropped
  BY LiquidityAssumption DEF SendToReserve, InTx, Idle, trading, book
<1>2. /\ Custody \in [Denoms -> Int] /\ Claims = liqSum
      /\ \A o \in Denoms : Custody[o] = Held(o) /\ Custody[o] \in Nat
  BY <1>1, CustodyIdle
<1>3. /\ Custody' \in [Denoms -> Int] /\ Claims' = liqSum'
      /\ \A o \in Denoms : Custody'[o] = Held(o)'
  BY <1>1, CustodyIdleNext
<1>4. \A o \in Denoms : Held(o)' = IF o = d THEN Held(o) + a ELSE Held(o)
  <2>1. pool \in [Denoms -> Nat] /\ tradePool \in [Denoms -> Nat] /\ reserve \in [Denoms -> Nat]
    BY DEF Inv, BankOK
  <2> QED
    BY <1>1, <2>1 DEF Held, Add
<1>5. Custody' = [Custody EXCEPT ![d] = @ + a]
  BY <1>1, <1>2, <1>3, <1>4
<1>6. Custody'[d] - Custody[d] = a
  BY <1>1, <1>2, <1>5
<1>7. Abstract!Donate(d, Custody'[d] - Custody[d])
  <2>1. Abstract!Donate(d, a)
    BY <1>1, <1>2, <1>3, <1>5 DEF Abstract!Donate, Abstract!Credit
  <2> QED
    BY <1>6, <2>1
<1> QED
  BY <1>1, <1>7 DEF Abstract!Next

\* What the failure of a step takes from the pools is nothing: until its coins
\* are collected, a step has changed no account, and the first step leaves the
\* accounts of the target as they are.
Untouched(d) ==
  /\ pool[d] = saved.pool[d]
  /\ tradePool[d] = saved.tradePool[d]
  /\ reserve[d] = saved.reserve[d]
  /\ drift[d] = saved.drift[d]

Early == stage \in {"begin", "take"}

Untaken ==
  stage # "idle" =>
    /\ step = 1 /\ Early => \A d \in Denoms : Untouched(d)
    /\ deal.end # Base /\ (step = 1 \/ Early) => Untouched(deal.end)

\* A step that moves coins in the first step of a trade leaves the target alone.
LEMMA UntakenAside ==
  ASSUME Inv, Untaken, stage # "idle", deal' = deal, saved' = saved,
         step' = 2 \/ stage' = "pay", step' = step \/ step' = 2,
         step = 1 \/ stage' \in {"pay", "end"},
         step = 1 /\ deal.end # Base =>
           /\ pool'[deal.end] = pool[deal.end] /\ tradePool'[deal.end] = tradePool[deal.end]
           /\ reserve'[deal.end] = reserve[deal.end] /\ drift'[deal.end] = drift[deal.end]
  PROVE  Untaken'
<1>1. ~(step' = 1 /\ Early')
  BY DEF Early
<1>2. CASE step = 1
  BY <1>1, <1>2 DEF Untaken, Untouched
<1>3. CASE step # 1
  <2>1. step = 2
    BY <1>3 DEF Inv, DealOK
  <2>2. step' # 1 /\ ~Early'
    BY <1>3, <2>1 DEF Early
  <2> QED
    BY <1>1, <2>2 DEF Untaken
<1> QED
  BY <1>2, <1>3

\* In the first step the target is none of the two denoms of the step.
LEMMA TargetAside ==
  ASSUME Inv, stage # "idle", step = 1, deal.end # Base
  PROVE  deal.end \notin {From, To} /\ deal.end \in Denoms
BY TradeTypes DEF Inv, DealOK, From, To

LEMMA UntakenTrade == Inv /\ Untaken /\ TradeStep => Untaken'
<1> SUFFICES ASSUME Inv, Untaken, TradeStep PROVE Untaken'
  OBVIOUS
<1>1. CASE RollBack \/ AbandonTrade \/ EndTrade
  <2>1. stage' = "idle"
    BY <1>1 DEF RollBack, AbandonTrade, EndTrade
  <2> QED
    BY <2>1 DEF Untaken
<1>2. CASE BeginStep \/ TakeLiquidity
  <2>1. /\ Early /\ stage # "idle" /\ UNCHANGED <<bank, drift, saved, deal, step>>
    BY <1>2 DEF BeginStep, TakeLiquidity, Early
  <2> QED
    BY <2>1 DEF Untaken, Untouched, Early, bank
<1>3. /\ From \in Denoms /\ To \in Denoms
      /\ pool \in [Denoms -> Int] /\ tradePool \in [Denoms -> Int]
      /\ reserve \in [Denoms -> Int] /\ drift \in [Denoms -> Int]
  BY TradeTypes DEF Inv, DriftOK
<1>4. CASE BuyNothing
  <2>1. /\ stage # "idle" /\ Early /\ step' = 2
        /\ stage' = (IF step = 1 THEN "begin" ELSE "end")
        /\ UNCHANGED <<bank, drift, saved, deal>>
    BY <1>4 DEF BuyNothing, Return, Early
  <2>2. step = 1 \/ stage' \in {"pay", "end"}
    BY <2>1
  <2> QED
    BY <2>1, <2>2, UntakenAside DEF bank
<1>5. CASE DepositBase
  <2>1. /\ stage # "idle" /\ step' = 2 /\ step = 1
        /\ tradePool' = Add(tradePool, Base, work.offer)
        /\ UNCHANGED <<pool, reserve, drift, saved, deal>>
    BY <1>5 DEF DepositBase, Return
  <2>2. deal.end # Base => tradePool'[deal.end] = tradePool[deal.end]
    BY <1>3, <2>1, TradeTypes DEF Add
  <2> QED
    BY <2>1, <2>2, UntakenAside
<1>6. CASE WithdrawBase
  <2>1. /\ stage # "idle" /\ step' = 2 /\ step = 2 /\ stage' = "end"
        /\ UNCHANGED <<saved, deal>>
    BY <1>6 DEF WithdrawBase, Return
  <2> QED
    BY <2>1, UntakenAside
<1>7. CASE CollectCoins
  <2>1. /\ stage # "idle" /\ stage' = "pay" /\ pool' = Add(pool, To, -Gross)
        /\ tradePool' = LET bought == Add(tradePool, To, Gross)
                        IN IF From = Base THEN bought ELSE Add(bought, From, AmountUsed)
        /\ UNCHANGED <<reserve, drift, saved, deal, step>>
    BY <1>7 DEF CollectCoins, TakenUp
  <2>2. ASSUME step = 1, deal.end # Base
        PROVE  pool'[deal.end] = pool[deal.end] /\ tradePool'[deal.end] = tradePool[deal.end]
    BY <1>3, <2>1, <2>2, TargetAside DEF Add
  <2> QED
    BY <2>1, <2>2, UntakenAside
<1>8. CASE PayFee
  <2>1. /\ stage = "pay" /\ stage' = "pay" /\ UNCHANGED <<reserve, drift, saved, deal, step>>
        /\ \E x : pool' = Add(pool, To, x) /\ tradePool' = Add(tradePool, To, -x)
    BY <1>8 DEF PayFee
  <2>2. ASSUME step = 1, deal.end # Base
        PROVE  pool'[deal.end] = pool[deal.end] /\ tradePool'[deal.end] = tradePool[deal.end]
    BY <1>3, <2>1, <2>2, TargetAside DEF Add
  <2> QED
    BY <2>1, <2>2, UntakenAside
<1>9. CASE GiveFunds
  <2>1. /\ stage = "pay" /\ stage' = "pay" /\ UNCHANGED <<bank, drift, saved, deal, step>>
    BY <1>9 DEF GiveFunds, Giving
  <2> QED
    BY <2>1, UntakenAside DEF bank
<1>10. CASE FinishStep
  <2>1. /\ stage = "pay" /\ step' = 2 /\ stage' = (IF step = 1 THEN "begin" ELSE "end")
        /\ pool' = Add(pool, From, work.used)
        /\ reserve' = Add(reserve, To, work.feeForReserve)
        /\ drift' = Add(drift, From, work.given - work.used)
        /\ \E x : tradePool' = [Add(tradePool, From, -work.used) EXCEPT ![To] = x]
        /\ UNCHANGED <<saved, deal>>
    BY <1>10 DEF FinishStep, AllGiven, Giving, Return
  <2>2. ASSUME step = 1, deal.end # Base
        PROVE  /\ pool'[deal.end] = pool[deal.end] /\ tradePool'[deal.end] = tradePool[deal.end]
               /\ reserve'[deal.end] = reserve[deal.end] /\ drift'[deal.end] = drift[deal.end]
    BY <1>3, <2>1, <2>2, TargetAside DEF Add
  <2>3. step = 1 \/ stage' \in {"pay", "end"}
    BY <2>1
  <2> QED
    BY <2>1, <2>2, <2>3, UntakenAside
<1> QED
  BY <1>1, <1>2, <1>4, <1>5, <1>6, <1>7, <1>8, <1>9, <1>10 DEF TradeStep

\* What every message leaves alone.
LEMMA MessageFrame ==
  ASSUME Message
  PROVE  /\ InTx
         /\ UNCHANGED <<unchecked, halted>>
         /\ \/ stage' = stage
            \/ /\ stage' = "begin"
               /\ \E s, e \in Denoms, a \in Amounts, incomplete, liquidation \in BOOLEAN :
                    ExecuteTrade(s, e, a, incomplete, liquidation)
<1>1. ASSUME NEW u \in Users, NEW d \in Denoms, NEW a \in Amounts, AddLiquidity(u, d, a)
      PROVE  InTx /\ UNCHANGED <<unchecked, halted, stage>>
  BY <1>1 DEF AddLiquidity, chain, trading
<1>2. ASSUME NEW u, NEW d, NEW a, RemoveLiquidityForAddress(u, d, a)
      PROVE  InTx /\ UNCHANGED <<unchecked, halted, stage>>
  BY <1>2 DEF RemoveLiquidityForAddress, chain, trading
<1>3. ASSUME NEW s, NEW e, NEW a, NEW incomplete, NEW liquidation,
             ExecuteTrade(s, e, a, incomplete, liquidation)
      PROVE  InTx /\ UNCHANGED <<unchecked, halted>> /\ stage' = "begin"
  BY <1>3 DEF ExecuteTrade, chain
<1>4. ASSUME NEW d, NEW a, SendToReserve(d, a)
      PROVE  InTx /\ UNCHANGED <<unchecked, halted, stage>>
  BY <1>4 DEF SendToReserve, chain, trading
<1>5. ASSUME NEW d, SendUnlistedToReserve(d)
      PROVE  InTx /\ UNCHANGED <<unchecked, halted, stage>>
  BY <1>5 DEF SendUnlistedToReserve, trading
<1> QED
  BY <1>1, <1>2, <1>3, <1>4, <1>5 DEF Message, RemoveLiquidity, RemoveAllLiquidityForDenom

LEMMA UntakenInvariance == Spec => []Untaken
<1>1. Init => Untaken
  BY DEF Init, Untaken
<1>2. Inv /\ Untaken /\ [Next]_vars => Untaken'
  <2> SUFFICES ASSUME Inv, Untaken, [Next]_vars PROVE Untaken'
    OBVIOUS
  <2>1. CASE UNCHANGED vars
    BY <2>1 DEF vars, bank, trading, Untaken, Untouched, Early
  <2>2. CASE \E s, e \in Denoms, a \in Amounts, incomplete, liquidation \in BOOLEAN :
               ExecuteTrade(s, e, a, incomplete, liquidation)
    <3>1. saved' = Snapshot /\ UNCHANGED <<bank, drift>> /\ deal'.end \in Denoms
      BY <2>2 DEF ExecuteTrade
    <3>2. \A d \in Denoms : Untouched(d)'
      BY <3>1 DEF Untouched, Snapshot, bank
    <3> QED
      BY <3>1, <3>2 DEF Untaken
  <2>3. CASE Message /\ stage' = stage
    <3>1. InTx
      BY <2>3, MessageFrame
    <3> QED
      BY <2>3, <3>1 DEF InTx, Idle, Untaken
  <2>4. CASE Message
    <3>1. \/ stage' = stage
          \/ \E s, e \in Denoms, a \in Amounts, incomplete, liquidation \in BOOLEAN :
               ExecuteTrade(s, e, a, incomplete, liquidation)
      BY <2>4, MessageFrame
    <3> QED
      BY <2>2, <2>3, <2>4, <3>1
  <2>5. CASE Block
    <3>1. stage' = stage
      BY <2>5 DEF Block, Restart, BeginBlock, BurnReserve, CheckReserveForDenom,
                  CheckReserveFails, trading
    <3>2. Idle \/ \E d \in Denoms \cup Unlisted : Due(d)
      BY <2>5 DEF Block, Restart, BeginBlock, BurnReserve, CheckReserveForDenom,
                  CheckReserveFails, InTx
    <3>3. stage = "idle"
      BY <3>2 DEF Idle, Due, Inv, ChainOK
    <3> QED
      BY <3>1, <3>3 DEF Untaken
  <2> QED
    BY <2>1, <2>4, <2>5, UntakenTrade DEF Next
<1> QED
  BY <1>1, <1>2, Invariance, PTL DEF Spec

\* A trade of a liquidation that fails takes claims away, and no more coins than
\* its first step has moved.
LEMMA AbandonStops ==
  ASSUME Inv, Inv', Untaken, AbandonTrade
  PROVE  Abstract!Next
<1> DEFINE s == deal.start
           e == deal.end
<1>1. /\ stage = "take" /\ stage' = "idle" /\ liqSum' = liqSum
      /\ pool' = pool /\ tradePool' = tradePool /\ reserve' = reserve
      /\ dropped' = Add(dropped, To, Gross) /\ pool[To] < Gross
  BY DEF AbandonTrade, TakenUp, book, bank
<1>2. /\ Custody \in [Denoms -> Int] /\ Claims = saved.liqSum /\ Claims \in [Denoms -> Int]
      /\ \A o \in Denoms : Custody[o] = HeldBefore(o)
  BY <1>1, CustodyBusy
<1>3. /\ Custody' \in [Denoms -> Int] /\ Claims' = liqSum' /\ Claims' \in [Denoms -> Int]
      /\ \A o \in Denoms : Custody'[o] = Held(o)'
  BY <1>1, CustodyIdleNext
<1>4. \A o \in Denoms : Held(o)' = Held(o)
  BY <1>1 DEF Held
<1>5. s \in Denoms /\ e \in Denoms /\ s # e /\ Base \in Denoms /\ To \in Denoms /\ From # To
  BY <1>1, TradeTypes DEF Inv, DealOK
<1>6. Gross \in Nat /\ Gross > 0
  <2>1. Gross \in Nat /\ pool[To] \in Nat
    BY <1>5, WorkTypes, TradeTypes
  <2> QED
    BY <1>1, <2>1
<1>7. ASSUME NEW d \in Denoms, Untouched(d)
      PROVE  Held(d) = HeldBefore(d) /\ saved.liqSum[d] = liqSum[d] + Taken(d)
  <2>1. Held(d) = HeldBefore(d)
    BY <1>7 DEF Untouched, Held, HeldBefore
  <2>2. Given(d) = 0 /\ Taken(d) \in Int
    BY <1>1, <1>6 DEF Given, Taken
  <2>3. liqSum[d] + Taken(d) = pool[d] + Given(d) + Excess(d)
    BY DEF Inv, PoolAccounting
  <2>4. saved.liqSum[d] = saved.pool[d] + (saved.drift[d] - dropped[d])
    BY <1>1 DEF Inv, SavedOK
  <2>5. /\ liqSum[d] \in Nat /\ pool[d] \in Nat /\ drift[d] \in Int /\ dropped[d] \in Nat
    BY TradeTypes
  <2> QED
    BY <1>7, <2>1, <2>2, <2>3, <2>4, <2>5 DEF Untouched, Excess
<1>8. /\ dropped \in [Denoms -> Nat]
      /\ dropped' = [dropped EXCEPT ![To] = @ + Gross]
      /\ dropped'[To] - dropped[To] = Gross
  BY <1>1, <1>5, <1>6 DEF Inv, DriftOK, Add
<1>9. CASE step = 1
  <2>1. To = Base
    BY <1>9 DEF To
  <2>2. \A d \in Denoms : Untouched(d)
    BY <1>1, <1>9 DEF Untaken, Early
  <2>3. \A d \in Denoms : Held(d) = HeldBefore(d)
                           /\ saved.liqSum[d] = liqSum[d] + (IF d = Base THEN Gross ELSE 0)
    BY <1>1, <1>7, <2>1, <2>2 DEF Taken
  <2>4. Custody' = Custody
    BY <1>2, <1>3, <1>4, <2>3
  <2>5. \A d \in Denoms : liqSum[d] \in Nat /\ saved.liqSum[d] \in Nat
    BY <1>1, TradeTypes
  <2>6. Claims' = [Claims EXCEPT ![Base] = @ + -Gross]
    BY <1>1, <1>2, <1>3, <1>5, <1>6, <2>3, <2>5
  <2>7. Abstract!StopAtBase(Gross)
    BY <1>6, <1>8, <2>1, <2>4, <2>6 DEF Abstract!StopAtBase, Abstract!Credit
  <2>8. Abstract!StopAtBase(dropped'[Base] - dropped[Base])
    BY <1>8, <2>1, <2>7
  <2> QED
    BY <2>8 DEF Abstract!Next
<1>10. CASE step = 2
  <2>1. To = e /\ From = Base /\ e # Base
    BY <1>5, <1>10 DEF To, From
  <2>2. Untouched(e)
    BY <1>1, <2>1 DEF Untaken, Early
  <2>3. Held(e) = HeldBefore(e) /\ saved.liqSum[e] = liqSum[e] + Gross
    BY <1>1, <1>5, <1>7, <2>1, <2>2 DEF Taken
  <2>4. /\ \A d \in Denoms \ {s, e} : Held(d) = HeldBefore(d)
        /\ Held(s) >= HeldBefore(s)
        /\ \A d \in Denoms \ {s, e, Base} : liqSum[d] = saved.liqSum[d]
        /\ liqSum[s] >= saved.liqSum[s]
    BY <1>1 DEF Inv, Progress
  <2> HIDE DEF s, e
  <2>5. Custody' = [Custody EXCEPT ![s] = Custody'[s]] /\ Custody'[s] >= Custody[s]
    BY <1>2, <1>3, <1>4, <1>5, <2>3, <2>4
  <2>6. liqSum[e] = saved.liqSum[e] - Gross
    <3>1. liqSum[e] \in Nat /\ saved.liqSum[e] \in Nat
      BY <1>1, <1>5, TradeTypes
    <3> QED
      BY <1>6, <2>3, <3>1
  <2>7. /\ Claims' = [Claims EXCEPT ![s] = Claims'[s], ![Base] = Claims'[Base], ![e] = @ - Gross]
        /\ Claims'[s] >= Claims[s]
    BY <1>1, <1>2, <1>3, <1>5, <2>1, <2>4, <2>6
  <2>8. Abstract!StopAtTarget(s, e, Gross)
    BY <1>5, <1>6, <1>8, <2>1, <2>5, <2>7 DEF Abstract!StopAtTarget, Abstract!Credit
  <2>9. Abstract!StopAtTarget(s, e, dropped'[e] - dropped[e])
    BY <1>8, <2>1, <2>8
  <2> QED
    BY <1>5, <2>9 DEF Abstract!Next
<1> QED
  BY <1>9, <1>10 DEF Inv, DealOK

LEMMA MessageRefines ==
  ASSUME Inv, Inv', Message
  PROVE  [Abstract!Next]_<<Custody, Claims, dropped>>
<1>1. \A a \in Amounts : a \in Nat
  BY LiquidityAssumption
<1>2. ASSUME NEW u \in Users, NEW d \in Denoms, RemoveAllLiquidityForDenom(u, d)
      PROVE  Abstract!Next
  <2> DEFINE amount == SumOf([i \in OwnEntries(entries, d, u) |-> entries[i].amount])
  <2>1. amount \in Nat
    BY OwnSumType DEF Inv
  <2>2. RemoveLiquidityForAddress(u, d, amount)
    BY <1>2 DEF RemoveAllLiquidityForDenom
  <2> HIDE DEF amount
  <2> QED
    BY <2>1, <2>2, RemoveWithdraws
<1>3. ASSUME NEW u \in Users, NEW d \in Denoms, NEW a \in Amounts,
             AddLiquidity(u, d, a) \/ RemoveLiquidity(u, d, a)
      PROVE  Abstract!Next
  BY <1>1, <1>3, AddDeposits, RemoveWithdraws DEF RemoveLiquidity
<1>4. ASSUME NEW d \in Gifts, NEW a \in Amounts, SendToReserve(d, a)
      PROVE  Abstract!Next
  BY <1>4, SendDonates
<1>5. ASSUME NEW d \in Gifts, SendUnlistedToReserve(d)
      PROVE  UNCHANGED <<Custody, Claims, dropped>>
  <2>1. /\ stage = "idle" /\ stage' = "idle" /\ liqSum' = liqSum /\ UNCHANGED bank
        /\ dropped' = dropped
    BY <1>5 DEF SendUnlistedToReserve, InTx, Idle, trading, book
  <2> QED
    BY <2>1, IdleStutters
<1> QED
  BY <1>2, <1>3, <1>4, <1>5, BeginTradeStutters DEF Message

LEMMA TradeStepRefines ==
  ASSUME Inv, Inv', Untaken, TradeStep
  PROVE  [Abstract!Next]_<<Custody, Claims, dropped>>
<1>1. CASE EndTrade
  BY <1>1, EndTrades
<1>2. CASE RollBack
  BY <1>2, RollBackStutters
<1>3. CASE DepositBase \/ WithdrawBase \/ BuyNothing \/ FinishStep
  <2>1. stage # "idle" /\ stage' # "idle" /\ saved' = saved /\ dropped' = dropped
    BY <1>3 DEF DepositBase, WithdrawBase, BuyNothing, FinishStep, AllGiven, Giving, Return
  <2> QED
    BY <2>1, TradeStutters
<1>4. CASE BeginStep \/ TakeLiquidity \/ CollectCoins \/ PayFee \/ GiveFunds
  <2>1. stage # "idle" /\ stage' # "idle" /\ saved' = saved /\ dropped' = dropped
    BY <1>4 DEF BeginStep, TakeLiquidity, CollectCoins, TakenUp, PayFee, GiveFunds, Giving
  <2> QED
    BY <2>1, TradeStutters
<1>5. CASE AbandonTrade
  BY <1>5, AbandonStops
<1> QED
  BY <1>1, <1>2, <1>3, <1>4, <1>5 DEF TradeStep

LEMMA BlockRefines ==
  ASSUME Inv, Inv', Block
  PROVE  [Abstract!Next]_<<Custody, Claims, dropped>>
<1>1. ASSUME Restart \/ \E check \in BOOLEAN : BeginBlock(check)
      PROVE  UNCHANGED <<Custody, Claims, dropped>>
  <2>1. stage = "idle" /\ stage' = "idle" /\ liqSum' = liqSum /\ UNCHANGED bank
        /\ dropped' = dropped
    BY <1>1 DEF Restart, BeginBlock, InTx, Idle, trading, book
  <2> QED
    BY <2>1, IdleStutters
<1>2. ASSUME NEW d \in Denoms \cup Unlisted, CheckReserveFails(d)
      PROVE  UNCHANGED <<Custody, Claims, dropped>>
  <2>1. stage = "idle" /\ stage' = "idle" /\ liqSum' = liqSum /\ UNCHANGED bank
        /\ dropped' = dropped
    BY <1>2 DEF CheckReserveFails, Due, Inv, ChainOK, trading, book
  <2> QED
    BY <2>1, IdleStutters
<1>3. ASSUME NEW d \in Denoms, BurnReserve(d)
      PROVE  Abstract!Next
  <2> DEFINE kept == 0
  <2>1. /\ stage = "idle" /\ stage' = "idle" /\ tradePool' = tradePool /\ dropped' = dropped
        /\ liqSum' = liqSum /\ pool' = pool /\ reserve' = [reserve EXCEPT ![d] = 0]
    BY <1>3 DEF BurnReserve, Due, Inv, ChainOK, trading, book
  <2>2. liqSum \in [Denoms -> Nat] /\ pool \in [Denoms -> Nat] /\ reserve[d] \in Nat
    BY DEF Inv, BookOK, BankOK
  <2>3. pool' = Add(pool, d, kept) /\ liqSum' = Add(liqSum, d, kept)
    BY <2>1, <2>2 DEF Add
  <2>4. kept \in Nat /\ kept <= reserve[d]
    BY <2>2
  <2> HIDE DEF kept
  <2> QED
    BY <2>1, <2>3, <2>4, ReserveSpends
<1>4. ASSUME NEW d \in Denoms, CheckReserveForDenom(d)
      PROVE  Abstract!Next
  <2> DEFINE kept == reserve[d] - VaultShare(d)
  <2>1. /\ stage = "idle" /\ stage' = "idle" /\ tradePool' = tradePool /\ dropped' = dropped
        /\ liqSum' = Add(liqSum, d, kept) /\ pool' = Add(pool, d, kept)
        /\ reserve' = [reserve EXCEPT ![d] = 0]
    BY <1>4 DEF CheckReserveForDenom, AddAndBalance, AddToBook, Due, Inv, ChainOK, trading
  <2>2. reserve \in [Denoms -> Nat]
    BY DEF Inv, BankOK
  <2>3. reserve[d] \in Nat /\ VaultShare(d) \in Nat /\ VaultShare(d) <= reserve[d]
    BY <2>2, VaultShareBounds
  <2>4. kept \in Nat /\ kept <= reserve[d]
    BY <2>3
  <2> HIDE DEF kept
  <2> QED
    BY <2>1, <2>4, ReserveSpends
<1> QED
  BY <1>1, <1>2, <1>3, <1>4 DEF Block

\* The pools implement Exchange: messages deposit and withdraw, the BeginBlocker
\* spends the reserve, a trade takes effect in its last step and as a whole, in
\* its two denoms and in the right direction.  A trade of a message that fails in
\* the middle of its transfers changes nothing; one of a liquidation keeps the
\* coins of the denom it could not buy, takes the claims on them away, and leaves
\* what it has sold until then.
THEOREM PoolsImplementExchange == Spec => ImplementsExchange
<1>1. Init => Abstract!Init
  <2> SUFFICES ASSUME Init PROVE Abstract!Init
    OBVIOUS
  <2>1. /\ stage = "idle" /\ liqSum = [d \in Denoms |-> 0]
        /\ dropped = [d \in Denoms |-> 0]
    BY DEF Init
  <2>2. Inv
    BY InvInit
  <2>3. Custody \in [Denoms -> Nat]
    BY <2>1, <2>2, CustodyIdle
  <2> QED
    BY <2>1, <2>3 DEF Abstract!Init, Claims
<1>2. Inv /\ Inv' /\ Untaken /\ [Next]_vars => [Abstract!Next]_<<Custody, Claims, dropped>>
  <2> SUFFICES ASSUME Inv, Inv', Untaken, [Next]_vars
               PROVE  [Abstract!Next]_<<Custody, Claims, dropped>>
    OBVIOUS
  <2>1. CASE UNCHANGED vars
    BY <2>1 DEF vars, book, bank, trading, Custody, Claims
  <2> QED
    BY <2>1, MessageRefines, TradeStepRefines, BlockRefines DEF Next
<1> QED
  BY <1>1, <1>2, Invariance, UntakenInvariance, PTL DEF Spec, ImplementsExchange, Abstract!Spec

-----------------------------------------------------------------------------
(* The arithmetic of a step: the product of the pools.                     *)

\* What Forward leaves in the pool: with one unit more, the product is no less
\* than it was before the offer.
LEMMA ForwardProduct ==
  ASSUME NEW f \in Nat, NEW t \in Nat, NEW offer \in Nat, f + ToDec(offer) > 0,
         Forward(f, t, offer) > 0
  PROVE  /\ Forward(f, t, offer) \in Nat
         /\ ToDec(Forward(f, t, offer)) <= t
         /\ f * t <= (f + ToDec(offer)) * (t - ToDec(Forward(f, t, offer)) + 1)
<1> DEFINE o == ToDec(offer)
           g == f + o
           n == f * t
           m == HalfEven(n)
           q == Quo(m, g)
           w == Forward(f, t, offer)
<1>1. /\ o \in Nat /\ g \in Nat /\ g > 0 /\ n \in Nat
      /\ Scale \in Nat /\ Scale >= 2
  BY ToDecType, ScaleAssumption
<1>2. m \in Nat /\ 2 * n <= 2 * (Scale * m) + Scale
  <2> HIDE DEF n
  <2> QED
    BY <1>1, HalfEvenBounds, HalfEvenNear
<1>3. QuoInParts(Mul(f, t), g) = q
  <2>1. Mul(f, t) = m
    BY <1>1 DEF Mul, ChopRound
  <2> HIDE DEF g, m
  <2> QED
    BY <1>1, <1>2, <2>1, QuoInPartsExact
<1> HIDE DEF m
<1>4. /\ q \in Nat
      /\ 2 * (Scale * (m * Scale)) + 2 <= 2 * (Scale * (q * g)) + Scale * g + 2 * g
  <2> HIDE DEF g
  <2> QED
    BY <1>1, <1>2, QuoType, QuoNearBelow
<1> HIDE DEF q
<1>5. w = TruncateInt(t - q)
  BY <1>3 DEF Forward
<1> HIDE DEF w
<1>6. t - q >= 0
  <2>1. ASSUME t - q < 0 PROVE FALSE
    <3>1. -(t - q) \in Nat
      BY <1>4, <2>1
    <3>2. (-(t - q)) \div Scale \in Nat
      BY <1>1, <3>1, DivMod
    <3>3. w = -((-(t - q)) \div Scale)
      BY <1>5, <2>1 DEF TruncateInt
    <3>4. w > 0
      BY DEF w
    <3> QED
      BY <3>2, <3>3, <3>4
  <2> QED
    BY <1>4, <2>1
<1>7. /\ w \in Nat /\ w > 0 /\ w * Scale <= t - q
  <2>1. t - q \in Nat
    BY <1>4, <1>6
  <2>2. w > 0
    BY DEF w
  <2> QED
    BY <1>5, <2>1, <2>2, RoundTruncate
\* Twice the product, times Scale, in terms of the quotient.
<1>8. 2 * (Scale * n) + 2 <= 2 * (Scale * (q * g)) + Scale * g + 2 * g + Scale * Scale
  <2>1. Scale * (2 * n) <= Scale * (2 * (Scale * m) + Scale)
    <3> DEFINE x == 2 * n
               y == 2 * (Scale * m) + Scale
    <3>1. x \in Nat /\ y \in Nat /\ x <= y
      BY <1>1, <1>2
    <3> HIDE DEF x, y
    <3>2. Scale * x <= Scale * y
      BY <1>1, <3>1
    <3> QED
      BY <3>2 DEF x, y
  <2>2. /\ Scale * (2 * n) = 2 * (Scale * n)
        /\ Scale * (2 * (Scale * m) + Scale) = 2 * (Scale * (m * Scale)) + Scale * Scale
    <3> HIDE DEF n
    <3> QED
      BY <1>1, <1>2
  <2> DEFINE a == Scale * n
             b == Scale * (m * Scale)
             c == Scale * (q * g)
             d == Scale * g
             e == Scale * Scale
  <2>3. a \in Nat /\ b \in Nat /\ c \in Nat /\ d \in Nat /\ e \in Nat
    <3> HIDE DEF n, g
    <3> QED
      BY <1>1, <1>2, <1>4
  <2>4. 2 * a <= 2 * b + e
    BY <2>1, <2>2
  <2>5. 2 * b + 2 <= 2 * c + d + 2 * g
    BY <1>4
  <2> HIDE DEF a, b, c, d, e, g, n
  <2>6. 2 * a + 2 <= 2 * c + d + 2 * g + e
    BY <1>1, <2>3, <2>4, <2>5
  <2> QED
    BY <2>6 DEF a, c, d, e
<1>9. n <= g * (q + 1)
  <2>1. CASE f = 0
    <3>1. n = 0 /\ g * (q + 1) \in Nat
      BY <1>1, <1>4, <2>1
    <3> QED
      BY <3>1
  <2>2. CASE f > 0 /\ offer > 0
    <3>1. g >= Scale + 1
      BY <1>1, <2>2, ToDecNat
    <3>2. ASSUME n > g * (q + 1) PROVE FALSE
      <4> DEFINE c == q * g
      <4>1. c \in Nat /\ g * (q + 1) = c + g
        BY <1>1, <1>4
      <4> HIDE DEF n, g, c
      <4>2. n >= c + g + 1
        BY <1>1, <3>2, <4>1
      <4>3. Scale * n >= Scale * (c + g + 1)
        BY <1>1, <4>1, <4>2
      <4>4. Scale * (c + g + 1) = Scale * c + Scale * g + Scale
        BY <1>1, <4>1
      <4>5. (Scale - 2) * g >= (Scale - 2) * (Scale + 1)
        BY <1>1, <3>1
      <4>6. /\ (Scale - 2) * g = Scale * g - 2 * g
            /\ (Scale - 2) * (Scale + 1) = Scale * Scale - Scale - 2
        BY <1>1
      <4> DEFINE x == Scale * n
                 y == Scale * c
                 z == Scale * g
                 e == Scale * Scale
      <4>7. x \in Nat /\ y \in Nat /\ z \in Nat /\ e \in Nat
        BY <1>1, <4>1
      <4>8. /\ 2 * x + 2 <= 2 * y + z + 2 * g + e
            /\ x >= y + z + Scale
            /\ z - 2 * g >= e - Scale - 2
        BY <1>8, <4>3, <4>4, <4>5, <4>6 DEF c
      <4> HIDE DEF x, y, z, e
      <4> QED
        BY <1>1, <4>7, <4>8
    <3> QED
      BY <1>1, <1>4, <3>2
  <2>3. CASE f > 0 /\ offer = 0
    <3>1. g = f
      BY <1>1, <2>3, ScaleAssumption DEF ToDec
    <3>2. q <= t - Scale /\ Scale <= t
      <4>1. Scale * 1 <= Scale * w
        BY <1>1, <1>7
      <4>2. Scale * w = w * Scale /\ w * Scale \in Nat
        BY <1>1, <1>7
      <4> QED
        BY <1>1, <1>4, <1>7, <4>1, <4>2
    <3>3. q * f <= (t - Scale) * f
      BY <1>1, <1>4, <3>2
    <3>4. (t - Scale) * f = n - Scale * f
      BY <1>1
    <3>5. q * f + Scale * f <= n /\ q * f \in Nat /\ Scale * f \in Nat
      BY <1>1, <1>4, <3>3, <3>4
    <3> DEFINE c == q * f
               d == Scale * f
    <3>6. c \in Nat /\ d \in Nat /\ c + d <= n
      BY <3>5
    <3>7. 2 * (Scale * n) + 2 <= 2 * (Scale * c) + d + 2 * f + Scale * Scale
      BY <1>8, <3>1
    <3>8. d >= Scale /\ d >= 2 * f
      BY <1>1, <2>3
    <3> HIDE DEF n, c
    <3>9. Scale * n >= Scale * (c + d) /\ Scale * (c + d) = Scale * c + Scale * d
      <4> HIDE DEF d
      <4> QED
        BY <1>1, <3>6
    <3> HIDE DEF d
    <3>10. Scale * d >= Scale * Scale /\ Scale * d >= 2 * d
      BY <1>1, <3>6, <3>8
    <3> DEFINE x == Scale * n
               y == Scale * c
               z == Scale * d
               e == Scale * Scale
    <3>11. x \in Nat /\ y \in Nat /\ z \in Nat /\ e \in Nat
      BY <1>1, <3>6
    <3>12. /\ 2 * x + 2 <= 2 * y + d + 2 * f + e
           /\ x >= y + z
           /\ z >= e /\ z >= 2 * d
      BY <3>7, <3>9, <3>10
    <3> HIDE DEF x, y, z, e
    <3> QED
      BY <1>1, <3>6, <3>8, <3>11, <3>12
  <2> QED
    BY <2>1, <2>2, <2>3
<1>10. q + 1 <= t - ToDec(w) + 1 /\ ToDec(w) <= t /\ ToDec(w) \in Nat
  <2>1. w * Scale \in Nat
    BY <1>1, <1>7
  <2> QED
    BY <1>4, <1>7, <2>1 DEF ToDec
<1>11. g * (q + 1) <= g * (t - ToDec(w) + 1)
  <2> DEFINE v == t - ToDec(w) + 1
  <2>1. v \in Nat /\ q + 1 <= v
    BY <1>4, <1>10
  <2> HIDE DEF v, g
  <2>2. g * (q + 1) <= g * v
    BY <1>1, <1>4, <2>1
  <2> QED
    BY <2>2 DEF v
<1>12. n <= g * (t - ToDec(w) + 1)
  <2> DEFINE v == t - ToDec(w) + 1
             x == g * (q + 1)
             y == g * v
  <2>1. v \in Int
    BY <1>10
  <2>2. x \in Int /\ y \in Int
    <3> HIDE DEF v, g
    <3> QED
      BY <1>1, <1>4, <2>1
  <2>3. n <= x /\ x <= y
    BY <1>9, <1>11
  <2> HIDE DEF x, y, n
  <2>4. n <= y
    BY <1>1, <2>2, <2>3
  <2> QED
    BY <2>4 DEF y
<1> QED
  BY <1>7, <1>10, <1>12 DEF w

\* A number of coins and a fraction of one, as the parts of a product.
LEMMA ProductMonotone ==
  ASSUME NEW a \in Nat, NEW b \in Nat, NEW x \in Nat, NEW y \in Nat, a <= x, b <= y
  PROVE  a * b <= x * y
<1>1. a * b <= x * b
  OBVIOUS
<1>2. x * b <= x * y
  OBVIOUS
<1>3. a * b \in Nat /\ x * b \in Nat /\ x * y \in Nat
  OBVIOUS
<1> QED
  BY <1>1, <1>2, <1>3

\* A step that is filled in part uses its part of the offer, up to what
\* rounding keeps.
LEMMA UsedAtLeast ==
  ASSUME NEW got \in Nat, NEW w \in Nat, w > 0, NEW offer \in Nat
  PROVE  LET used == RoundInt(Mul(Quo(ToDec(got), ToDec(w)), ToDec(offer)))
             kept == (Scale + offer + 1) \div 2 + offer \div Scale + 1
         IN /\ used \in Nat /\ kept \in Nat
            /\ got * ToDec(offer) <= w * (ToDec(used) + kept)
<1> DEFINE g == ToDec(got)
           b == ToDec(w)
           s == Quo(g, b)
           used == RoundInt(Mul(s, ToDec(offer)))
           h == (Scale + offer + 1) \div 2
           e == offer \div Scale
           kept == h + e + 1
<1>1. /\ g \in Nat /\ b \in Nat /\ b > 0 /\ g = got * Scale /\ b = w * Scale
      /\ Scale \in Nat /\ Scale >= 2
  BY ToDecType, ScaleAssumption DEF ToDec
<1>2. /\ s \in Nat
      /\ 2 * (Scale * (g * Scale)) + 2 <= 2 * (Scale * (s * b)) + Scale * b + 2 * b
  <2> HIDE DEF g, b
  <2> QED
    BY <1>1, QuoType, QuoNearBelow
<1> HIDE DEF s
<1>3. s * offer \in Nat /\ Mul(s, ToDec(offer)) = s * offer
  <2>1. offer * s = s * offer /\ s * offer \in Nat
    BY <1>2
  <2> QED
    BY <1>2, <2>1, MulWhole
<1>4. used \in Nat /\ 2 * (s * offer) <= 2 * (Scale * used) + Scale
  <2> DEFINE x == s * offer
  <2>1. x \in Nat /\ used = HalfEven(x)
    BY <1>3 DEF RoundInt, ChopRound
  <2> HIDE DEF x, used
  <2>2. used \in Nat /\ 2 * x <= 2 * (Scale * used) + Scale
    BY <2>1, HalfEvenBounds, HalfEvenNear
  <2> QED
    BY <2>2 DEF x
<1> HIDE DEF used
<1>5. h \in Nat /\ Scale + offer <= 2 * h
  BY <1>1
<1>6. e \in Nat /\ offer <= Scale * (e + 1)
  <2>1. /\ e \in Nat /\ offer % Scale \in Nat /\ offer % Scale < Scale
        /\ offer = Scale * e + (offer % Scale)
    BY <1>1, DivMod
  <2> HIDE DEF e
  <2>2. Scale * (e + 1) = Scale * e + Scale /\ Scale * e \in Nat
    BY <1>1, <2>1
  <2> QED
    BY <1>1, <2>1, <2>2
<1> HIDE DEF g, b, h, e
\* The bound of the share, divided by Scale.
<1>7. 2 * (got * (Scale * Scale)) <= 2 * (s * b) + b + 2 * w
  <2> DEFINE x == 2 * (got * (Scale * Scale))
             y == 2 * (s * b) + b + 2 * w
  <2>1. Scale * x = 2 * (Scale * (g * Scale))
    BY <1>1
  <2>2. Scale * y = 2 * (Scale * (s * b)) + Scale * b + 2 * b
    BY <1>1, <1>2
  <2>3. x \in Nat /\ y \in Nat
    BY <1>1, <1>2
  <2>4. Scale * x <= Scale * y
    <3> DEFINE u == Scale * x
               v == Scale * y
    <3>1. u \in Nat /\ v \in Nat
      <4> HIDE DEF x, y
      <4> QED
        BY <1>1, <2>3
    <3>2. u + 2 <= v
      BY <1>2, <2>1, <2>2
    <3> HIDE DEF u, v, x, y
    <3>3. u <= v
      BY <3>1, <3>2
    <3> QED
      BY <3>3 DEF u, v
  <2> HIDE DEF x, y
  <2>5. ASSUME y + 1 <= x PROVE FALSE
    <3>1. Scale * (y + 1) <= Scale * x
      BY <1>1, <2>3, <2>5
    <3>2. Scale * (y + 1) = Scale * y + Scale /\ Scale * y \in Nat /\ Scale * x \in Nat
      BY <1>1, <2>3
    <3> QED
      BY <1>1, <2>4, <3>1, <3>2
  <2>6. x <= y
    BY <2>3, <2>5
  <2> QED
    BY <2>6 DEF x, y
\* The same for the whole offer.
<1>8. 2 * ((got * (Scale * offer)) * Scale) <= (2 * (s * offer)) * b + offer * b + w * (2 * offer)
  <2> DEFINE x == 2 * (got * (Scale * Scale))
             y == 2 * (s * b) + b + 2 * w
  <2>1. x \in Nat /\ y \in Nat /\ x <= y
    BY <1>1, <1>2, <1>7
  <2>2. x * offer = 2 * ((got * (Scale * offer)) * Scale)
    BY <1>1
  <2>3. y * offer = (2 * (s * offer)) * b + offer * b + w * (2 * offer)
    BY <1>1, <1>2
  <2>4. x * offer <= y * offer
    <3> HIDE DEF x, y
    <3> QED
      BY <2>1
  <2> QED
    BY <2>2, <2>3, <2>4
<1>9. (2 * (s * offer)) * b <= (2 * (Scale * used) + Scale) * b
  <2> DEFINE x == 2 * (s * offer)
             y == 2 * (Scale * used) + Scale
  <2>1. x \in Nat /\ y \in Nat /\ x <= y
    BY <1>1, <1>3, <1>4
  <2> HIDE DEF x, y
  <2>2. x * b <= y * b
    BY <1>1, <2>1
  <2> QED
    BY <2>2 DEF x, y
<1>10. w * (2 * offer) <= w * (2 * (Scale * (e + 1)))
  <2> DEFINE x == Scale * (e + 1)
  <2>1. x \in Nat /\ offer <= x
    BY <1>1, <1>6
  <2> HIDE DEF x
  <2>2. w * (2 * offer) <= w * (2 * x)
    BY <2>1
  <2> QED
    BY <2>2 DEF x
<1> DEFINE sum == 2 * (Scale * used) + Scale + offer + 2 * (e + 1)
<1>11. 2 * ((got * (Scale * offer)) * Scale) <= (w * sum) * Scale
  <2>1. /\ (2 * (Scale * used) + Scale) * b + offer * b + w * (2 * (Scale * (e + 1)))
             = (w * sum) * Scale
    BY <1>1, <1>4, <1>6
  <2> DEFINE x == 2 * ((got * (Scale * offer)) * Scale)
             y == (2 * (s * offer)) * b
             z == offer * b
             r == w * (2 * offer)
             p == (2 * (Scale * used) + Scale) * b
             q == w * (2 * (Scale * (e + 1)))
  <2>2. x \in Nat /\ y \in Nat /\ z \in Nat /\ r \in Nat /\ p \in Nat /\ q \in Nat
    BY <1>1, <1>2, <1>4, <1>6
  <2>3. x <= y + z + r /\ y <= p /\ r <= q
    BY <1>8, <1>9, <1>10
  <2> HIDE DEF x, y, z, r, p, q
  <2>4. x <= p + z + q
    BY <2>2, <2>3
  <2> QED
    BY <2>1, <2>4 DEF x, p, z, q
<1>12. 2 * (got * (Scale * offer)) <= w * sum
  <2> DEFINE x == 2 * (got * (Scale * offer))
             y == w * sum
  <2>1. x \in Nat /\ y \in Nat
    BY <1>1, <1>4, <1>6
  <2>2. x * Scale <= y * Scale
    <3>1. x * Scale = 2 * ((got * (Scale * offer)) * Scale)
      BY <1>1
    <3> QED
      BY <1>11, <3>1
  <2> HIDE DEF x, y
  <2>3. ASSUME y + 1 <= x PROVE FALSE
    <3>1. (y + 1) * Scale <= x * Scale
      BY <1>1, <2>1, <2>3
    <3>2. (y + 1) * Scale = y * Scale + Scale /\ y * Scale \in Nat /\ x * Scale \in Nat
      BY <1>1, <2>1
    <3> QED
      BY <1>1, <2>2, <3>1, <3>2
  <2>4. x <= y
    BY <2>1, <2>3
  <2> QED
    BY <2>4 DEF x, y
<1>13. w * sum <= w * (2 * (Scale * used + kept))
  <2>1. sum \in Nat /\ kept \in Nat /\ Scale * used \in Nat
    BY <1>1, <1>4, <1>5, <1>6
  <2>2. sum <= 2 * (Scale * used + kept)
    <3> DEFINE x == Scale * used
    <3>1. x \in Nat
      BY <2>1
    <3> HIDE DEF x
    <3>2. 2 * x + Scale + offer + 2 * (e + 1) <= 2 * (x + kept)
      BY <1>1, <1>5, <1>6, <3>1
    <3> QED
      BY <3>2 DEF x
  <2> DEFINE y == 2 * (Scale * used + kept)
  <2>3. y \in Nat /\ sum <= y
    BY <2>1, <2>2
  <2> HIDE DEF sum, y
  <2>4. w * sum <= w * y
    BY <2>1, <2>3
  <2> QED
    BY <2>4 DEF y
<1>14. got * ToDec(offer) <= w * (ToDec(used) + kept)
  <2>1. ToDec(offer) = Scale * offer /\ ToDec(used) = Scale * used
    BY <1>1, <1>4 DEF ToDec
  <2> DEFINE x == got * (Scale * offer)
             y == w * (Scale * used + kept)
             z == w * sum
  <2>2. x \in Nat /\ y \in Nat /\ z \in Nat
    BY <1>1, <1>4, <1>5, <1>6
  <2>3. w * (2 * (Scale * used + kept)) = 2 * y
    BY <1>1, <1>4, <1>5, <1>6
  <2>4. 2 * x <= z /\ z <= 2 * y
    BY <1>12, <1>13, <2>3
  <2> HIDE DEF x, y, z
  <2>5. x <= y
    BY <2>2, <2>4
  <2> QED
    BY <2>1, <2>5 DEF x, y
<1> QED
  BY <1>4, <1>5, <1>6, <1>14 DEF used, kept, h, e, s, g, b

\* If the product is kept when a step is filled, it is kept when it is filled
\* in part: what is paid grows with what is bought, and the first coins are the
\* cheapest for the pool.
LEMMA PartialProduct ==
  ASSUME NEW f \in Nat, NEW t \in Nat, NEW o \in Nat, NEW w \in Nat, w > 0,
         NEW got \in Nat, got <= w, NEW r \in Nat, got * o <= w * r,
         ToDec(w) <= t, f * t <= (f + o) * (t - ToDec(w) + 1)
  PROVE  /\ ToDec(got) <= t
         /\ f * t <= (f + r) * (t - ToDec(got) + 1)
<1> DEFINE g == f + o
           h == w - got
           v == t - w * Scale + 1
           x == t - got * Scale + 1
           n == f * t
<1>1. /\ g \in Nat /\ h \in Nat /\ w = h + got /\ n \in Nat
      /\ Scale \in Nat /\ Scale >= 2
  BY ScaleAssumption
<1>2. /\ w * Scale \in Nat /\ got * Scale \in Nat /\ h * Scale \in Nat
      /\ w * Scale = h * Scale + got * Scale
  BY <1>1
<1>3. /\ v \in Nat /\ x \in Nat /\ x = v + h * Scale
      /\ got * Scale <= t /\ n <= g * v
  BY <1>1, <1>2 DEF ToDec
<1>4. w * (f + r) >= f * h + g * got
  <2>1. w * (f + r) = w * f + w * r /\ f * h + g * got = w * f + got * o
    BY <1>1
  <2>2. w * f \in Nat /\ w * r \in Nat /\ got * o \in Nat
    OBVIOUS
  <2> QED
    BY <2>1, <2>2
<1> DEFINE p == f * h + g * got
           u == w * (f + r)
<1>5. p \in Nat /\ u \in Nat /\ p <= u
  BY <1>1, <1>4
<1>6. p * x <= u * x
  <2> HIDE DEF p, u, x
  <2> QED
    BY <1>3, <1>5
<1>7. p * x = h * (f * x + (g * got) * Scale) + got * (g * v)
  <2> HIDE DEF v, x, g, h
  <2> QED
    BY <1>1, <1>3
<1>8. n <= f * x + (g * got) * Scale
  <2>1. f * x + (g * got) * Scale = n + f + (o * got) * Scale
    BY <1>1
  <2>2. (o * got) * Scale \in Nat
    BY <1>1
  <2> HIDE DEF n
  <2> QED
    BY <1>1, <2>1, <2>2
<1>9. w * n <= p * x
  <2> DEFINE a == f * x + (g * got) * Scale
             b == g * v
  <2>1. a \in Nat /\ b \in Nat /\ n <= a /\ n <= b /\ p * x = h * a + got * b
    <3> HIDE DEF v, x
    <3> QED
      BY <1>1, <1>3, <1>7, <1>8
  <2> HIDE DEF a, b, n, h, p, x
  <2>2. h * n <= h * a /\ got * n <= got * b
    BY <1>1, <2>1
  <2>3. w * n = h * n + got * n
    BY <1>1
  <2>4. h * n \in Nat /\ got * n \in Nat /\ h * a \in Nat /\ got * b \in Nat
    BY <1>1, <2>1
  <2> QED
    BY <2>1, <2>2, <2>3, <2>4
<1> DEFINE y == (f + r) * x
<1>10. y \in Nat /\ u * x = w * y
  <2> HIDE DEF x
  <2> QED
    BY <1>3
<1>11. w * n <= w * y
  <2> DEFINE a == w * n
             b == p * x
             c == u * x
  <2>1. a \in Nat /\ b \in Nat /\ c \in Nat
    <3> HIDE DEF n, p, x, u
    <3> QED
      BY <1>1, <1>3, <1>5
  <2>2. a <= b /\ b <= c /\ c = w * y
    BY <1>6, <1>9, <1>10
  <2> HIDE DEF a, b, c, y, n
  <2>3. a <= c
    BY <2>1, <2>2
  <2> QED
    BY <2>2, <2>3 DEF a
<1>12. n <= y
  <2> HIDE DEF n, y
  <2>1. ASSUME y + 1 <= n PROVE FALSE
    <3>1. w * (y + 1) <= w * n /\ w * (y + 1) = w * y + w
      BY <1>1, <1>10, <2>1
    <3>2. w * y \in Nat /\ w * n \in Nat
      BY <1>1, <1>10
    <3> QED
      BY <1>11, <3>1, <3>2
  <2> QED
    BY <1>1, <1>10, <2>1
<1> QED
  BY <1>3, <1>12 DEF ToDec

\* What a step credits and uses makes up for what it takes.
LEMMA StepKeepsProduct ==
  ASSUME NEW f \in Nat, NEW t \in Nat, NEW offer \in Nat, f + ToDec(offer) > 0,
         NEW w \in Nat, w = Forward(f, t, offer), w > 0,
         NEW left \in Nat, left <= w,
         NEW used, used = RoundInt(Mul(Quo(ToDec(w - left), ToDec(w)), ToDec(offer))),
         NEW kept,
         kept = IF left > 0 THEN (Scale + offer + 1) \div 2 + offer \div Scale + 1 ELSE 0
  PROVE  /\ used \in Nat /\ kept \in Nat
         /\ ToDec(w - left) <= t
         /\ f * t <= (f + (ToDec(used) + kept)) * (t - ToDec(w - left) + 1)
<1> DEFINE got == w - left
           o == ToDec(offer)
<1>1. got \in Nat /\ got <= w /\ o \in Nat
  BY ToDecType
<1>2. ToDec(w) <= t /\ f * t <= (f + o) * (t - ToDec(w) + 1)
  BY ForwardProduct
<1> DEFINE round == (Scale + offer + 1) \div 2 + offer \div Scale + 1
<1>3. /\ used \in Nat /\ round \in Nat /\ got * o <= w * (ToDec(used) + round)
  <2> DEFINE x == RoundInt(Mul(Quo(ToDec(got), ToDec(w)), ToDec(offer)))
  <2>1. used = x
    OBVIOUS
  <2>2. x \in Nat /\ round \in Nat /\ got * ToDec(offer) <= w * (ToDec(x) + round)
    <3> HIDE DEF got
    <3> QED
      BY <1>1, UsedAtLeast
  <2> HIDE DEF x, got, round
  <2> QED
    BY <2>1, <2>2
<1> DEFINE r == ToDec(used) + kept
<1>4. kept \in Nat /\ r \in Nat
  <2> HIDE DEF round
  <2>1. kept = IF left > 0 THEN round ELSE 0
    BY DEF round
  <2>2. ToDec(used) \in Nat
    BY <1>3, ToDecType
  <2> QED
    BY <1>3, <2>1, <2>2
<1>5. got * o <= w * r
  <2>1. CASE left > 0
    <3>1. kept = round
      BY <2>1
    <3> QED
      BY <1>3, <3>1
  <2>2. CASE left = 0
    <3>1. got = w /\ kept = 0
      BY <2>2
    <3>2. Quo(ToDec(w), ToDec(w)) = Scale
      <4>1. ToDec(w) \in Nat /\ ToDec(w) > 0
        BY ToDecNat, ScaleAssumption
      <4> QED
        BY <4>1, QuoSelf
    <3>3. Mul(Scale, o) = o
      <4>1. Mul(Scale, o) = Mul(o, Scale)
        <5>1. Scale * o = o * Scale
          BY <1>1, ScaleAssumption
        <5> QED
          BY <5>1 DEF Mul
      <4> QED
        BY <1>1, <4>1, MulOne
    <3>4. used = offer
      BY <3>1, <3>2, <3>3, RoundExact
    <3>5. r = o
      BY <1>1, <3>1, <3>4
    <3> HIDE DEF r, got, o
    <3>6. got * o = w * r
      BY <3>1, <3>5
    <3> QED
      BY <1>1, <1>4, <3>6
  <2> QED
    BY <2>1, <2>2
<1> HIDE DEF r, got, o
<1>6. ToDec(got) <= t /\ f * t <= (f + r) * (t - ToDec(got) + 1)
  BY <1>1, <1>2, <1>4, <1>5, PartialProduct
<1> QED
  BY <1>3, <1>4, <1>6 DEF r, got

-----------------------------------------------------------------------------
(* The product of the pools in a step of a trade.                          *)

\* A step that has begun asks for what Forward computed for the pools at its
\* beginning; since then they have changed by what is credited and taken.
ProductOK ==
  stage \in {"take", "pay"} =>
    /\ work.wanted > 0
    /\ stage = "pay" => work.used = AmountUsed
    /\ \E f, t \in Nat :
         /\ f + ToDec(work.offer) > 0
         /\ work.product = f * t
         /\ work.wanted = Forward(f, t, work.offer)
         /\ PoolFrom(From, To) = f + ToDec(work.given)
         /\ t <= PoolTo(From, To) + ToDec(Gross)

\* Within a step only the sums move the pools of the pair.
LEMMA PoolsOfStep ==
  ASSUME Inv, stage \in {"take", "pay"}, pairs' = pairs, From' = From, To' = To
  PROVE  \E c, e \in Nat :
           /\ PoolFrom(From, To) = ToDec(liqSum[From]) + c
           /\ PoolFrom(From, To)' = ToDec(liqSum'[From]) + c
           /\ PoolTo(From, To) = ToDec(liqSum[To]) + e
           /\ PoolTo(From, To)' = ToDec(liqSum'[To]) + e
<1>1. /\ From # To /\ From \in Denoms /\ To \in Denoms
      /\ From = Base \/ To = Base
      /\ pairs \in [Others -> [base: Nat, other: Nat]]
  <2>1. From # To
    BY DEF Inv, DealOK
  <2>2. From = Base \/ To = Base
    BY DEF From, To
  <2> QED
    BY <2>1, <2>2, TradeTypes DEF Inv, PricesOK
<1>2. CASE From = Base
  <2>1. To \in Others
    BY <1>1, <1>2 DEF Denoms
  <2>2. pairs[To].base \in Nat /\ pairs[To].other \in Nat
    BY <1>1, <2>1
  <2> QED
    BY <1>2, <2>2 DEF PoolFrom, PoolTo, FullBase, FullOther
<1>3. CASE From # Base
  <2>1. From \in Others /\ To = Base
    BY <1>1, <1>3 DEF Denoms
  <2>2. pairs[From].base \in Nat /\ pairs[From].other \in Nat
    BY <1>1, <2>1
  <2> QED
    BY <1>3, <2>1, <2>2 DEF PoolFrom, PoolTo, FullBase, FullOther
<1> QED
  BY <1>2, <1>3

\* A round that credits what it adds to the one pool and takes from the other
\* no more than it counts as bought.
LEMMA ProductRound ==
  ASSUME Inv, Inv', ProductOK, stage \in {"take", "pay"}, stage' \in {"take", "pay"},
         pairs' = pairs, From' = From, To' = To,
         work'.wanted = work.wanted, work'.offer = work.offer,
         work'.product = work.product,
         stage' = "pay" => work'.used = AmountUsed',
         NEW x \in Nat, work'.given = work.given + x,
         liqSum'[From] = liqSum[From] + x,
         liqSum[To] + Gross <= liqSum'[To] + Gross'
  PROVE  ProductOK'
<1>1. PICK f, t \in Nat :
         /\ f + ToDec(work.offer) > 0
         /\ work.product = f * t
         /\ work.wanted = Forward(f, t, work.offer)
         /\ PoolFrom(From, To) = f + ToDec(work.given)
         /\ t <= PoolTo(From, To) + ToDec(Gross)
  BY DEF ProductOK
<1>2. PICK c, e \in Nat :
           /\ PoolFrom(From, To) = ToDec(liqSum[From]) + c
           /\ PoolFrom(From, To)' = ToDec(liqSum'[From]) + c
           /\ PoolTo(From, To) = ToDec(liqSum[To]) + e
           /\ PoolTo(From, To)' = ToDec(liqSum'[To]) + e
  BY PoolsOfStep
<1>3. /\ liqSum[From] \in Nat /\ liqSum[To] \in Nat /\ work.given \in Nat /\ Gross \in Nat
      /\ Scale \in Nat
  BY TradeTypes, WorkTypes, ScaleAssumption
<1>4. /\ liqSum'[To] \in Nat /\ Gross' \in Nat
  <2>1. liqSum' \in [Denoms -> Nat]
    BY DEF Inv, BookOK
  <2>2. work'.left \in Nat /\ work'.wanted \in Nat /\ work'.left <= work'.wanted
    BY DEF Inv, WorkOK, Work
  <2> QED
    BY <2>1, <2>2, TradeTypes DEF Gross
<1>5. PoolFrom(From, To)' = f + ToDec(work'.given)
  <2>1. /\ ToDec(liqSum[From] + x) = ToDec(liqSum[From]) + ToDec(x)
        /\ ToDec(work.given + x) = ToDec(work.given) + ToDec(x)
    BY <1>3 DEF ToDec
  <2>2. /\ ToDec(liqSum[From]) \in Nat /\ ToDec(x) \in Nat /\ ToDec(work.given) \in Nat
    BY <1>3, ToDecType
  <2> QED
    BY <1>1, <1>2, <2>1, <2>2
<1>6. t <= PoolTo(From, To)' + ToDec(Gross')
  <2>1. ToDec(liqSum[To] + Gross) <= ToDec(liqSum'[To] + Gross')
    <3> DEFINE a == liqSum[To] + Gross
               b == liqSum'[To] + Gross'
    <3>1. a \in Nat /\ b \in Nat /\ a <= b
      BY <1>3, <1>4
    <3> HIDE DEF a, b
    <3>2. a * Scale <= b * Scale
      BY <1>3, <3>1
    <3> QED
      BY <3>2 DEF ToDec, a, b
  <2>2. /\ ToDec(liqSum[To] + Gross) = ToDec(liqSum[To]) + ToDec(Gross)
        /\ ToDec(liqSum'[To] + Gross') = ToDec(liqSum'[To]) + ToDec(Gross')
    BY <1>3, <1>4 DEF ToDec
  <2>3. /\ ToDec(liqSum[To]) \in Nat /\ ToDec(Gross) \in Nat
        /\ ToDec(liqSum'[To]) \in Nat /\ ToDec(Gross') \in Nat
    BY <1>3, <1>4, ToDecType
  <2> QED
    BY <1>1, <1>2, <2>1, <2>2, <2>3
<1> QED
  BY <1>1, <1>5, <1>6 DEF ProductOK

LEMMA ProductBegins == Inv /\ Inv' /\ BeginStep => ProductOK'
<1> SUFFICES ASSUME Inv, Inv', BeginStep PROVE ProductOK'
  OBVIOUS
<1>1. /\ stage = "begin" /\ stage' = "take" /\ From # To /\ Offered > 0 /\ Wanted # 0
      /\ work' = [work EXCEPT !.wanted = Wanted, !.left = Wanted,
                              !.product = PoolFrom(From, To) * PoolTo(From, To)]
      /\ UNCHANGED <<book, prices, deal, step>>
  BY DEF BeginStep
<1> DEFINE f == PoolFrom(From, To)
           t == PoolTo(From, To)
<1>2. f \in Nat /\ t \in Nat
  <2>1. /\ liqSum \in [Denoms -> Nat] /\ PricesOK(pairs, ratios)
        /\ From \in Denoms /\ To \in Denoms
    BY TradeTypes DEF Inv, BookOK
  <2>2. Base \in {From, To}
    BY DEF From, To
  <2> QED
    BY <1>1, <2>1, <2>2, PoolTypes
<1>3. From' = From /\ To' = To /\ liqSum' = liqSum /\ pairs' = pairs
  BY <1>1 DEF From, To, book, prices
<1>4. PoolFrom(From, To)' = f /\ PoolTo(From, To)' = t
  BY <1>3 DEF PoolFrom, PoolTo, FullBase, FullOther
<1> HIDE DEF f, t
<1>5. /\ work'.wanted = Wanted /\ work'.left = Wanted /\ work'.product = f * t
      /\ work'.offer = work.offer /\ work'.given = work.given
  <2>1. work \in Work
    BY WorkTypes
  <2> QED
    BY <1>1, <2>1 DEF Work, f, t
<1>6. Wanted = Forward(f, t, work.offer) /\ f + ToDec(work.offer) > 0
  BY <1>1 DEF Wanted, Offered, f, t
<1>7. Wanted \in Nat /\ Wanted > 0
  <2>1. work.offer \in Nat
    BY WorkTypes
  <2>2. Forward(f, t, work.offer) \in Nat
    BY <1>2, <1>6, <2>1, ForwardType
  <2>3. Wanted \in Nat /\ Wanted # 0
    BY <1>1, <1>6, <2>2
  <2> HIDE DEF f, t
  <2> QED
    BY <2>3
<1>8. work'.given = 0 /\ Gross' = 0
  BY <1>1, <1>5, <1>7 DEF Inv, WorkOK, Gross
<1>9. ToDec(0) = 0
  BY ScaleAssumption DEF ToDec
<1>10. /\ f + ToDec(work'.offer) > 0
       /\ work'.product = f * t
       /\ work'.wanted = Forward(f, t, work'.offer)
       /\ PoolFrom(From, To)' = f + ToDec(work'.given)
       /\ t <= PoolTo(From, To)' + ToDec(Gross')
  BY <1>2, <1>4, <1>5, <1>6, <1>8, <1>9
<1> QED
  BY <1>1, <1>2, <1>5, <1>7, <1>10 DEF ProductOK

LEMMA ProductTakes == Inv /\ Inv' /\ ProductOK /\ TakeLiquidity => ProductOK'
<1> SUFFICES ASSUME Inv, Inv', ProductOK, TakeLiquidity PROVE ProductOK'
  OBVIOUS
<1>1. /\ stage = "take" /\ stage' = "take" /\ UNCHANGED <<prices, deal, step>>
  BY DEF TakeLiquidity
<1>2. PICK i \in Ahead :
       LET part == work.left < entries[i].amount
           used == IF part THEN work.left ELSE entries[i].amount
       IN /\ liqSum' = Add(liqSum, To, -used)
          /\ work' = [work EXCEPT !.left = @ - used, !.cursor = Place(i),
               !.providers = Append(@, [address |-> entries[i].address,
                                        provided |-> ToDec(used)])]
  BY DEF TakeLiquidity
<1> DEFINE used == TakenFrom(i)
<1>3. used \in Nat
  BY TakeFromBook
<1>4. /\ liqSum' = Add(liqSum, To, -used)
      /\ work' = [work EXCEPT !.left = @ - used, !.cursor = Place(i),
               !.providers = Append(@, [address |-> entries[i].address,
                                        provided |-> ToDec(used)])]
  BY <1>2 DEF TakenFrom
<1> HIDE DEF used
<1>5. From' = From /\ To' = To /\ pairs' = pairs
  BY <1>1 DEF From, To, prices
<1>6. /\ work'.wanted = work.wanted /\ work'.offer = work.offer
      /\ work'.product = work.product /\ work'.given = work.given + 0
      /\ work'.left = work.left - used
  BY <1>4, WorkTypes DEF Work
<1>7. liqSum'[From] = liqSum[From] + 0 /\ liqSum'[To] = liqSum[To] - used
  <2>1. From # To
    BY <1>1 DEF Inv, DealOK
  <2>2. liqSum[From] \in Nat /\ liqSum[To] \in Nat
    BY TradeTypes
  <2> QED
    BY <1>3, <1>4, <2>1, <2>2, TradeTypes DEF Add
<1>8. liqSum[To] + Gross <= liqSum'[To] + Gross'
  <2>1. Gross' = Gross + used
    BY <1>3, <1>6, WorkTypes DEF Gross
  <2>2. liqSum[To] \in Nat /\ Gross \in Nat
    BY TradeTypes, WorkTypes
  <2> QED
    BY <1>3, <1>7, <2>1, <2>2
<1> QED
  BY <1>1, <1>5, <1>6, <1>7, <1>8, ProductRound

LEMMA ProductCollects == Inv /\ Inv' /\ ProductOK /\ CollectCoins => ProductOK'
<1> SUFFICES ASSUME Inv, Inv', ProductOK, CollectCoins PROVE ProductOK'
  OBVIOUS
<1>1. /\ stage = "take" /\ stage' = "pay" /\ UNCHANGED <<book, prices, deal, step>>
      /\ work' = [work EXCEPT !.used = AmountUsed, !.feeLeft = FeeForProviders,
                              !.feeForReserve = FeeForReserve]
  BY DEF CollectCoins, TakenUp
<1>2. From' = From /\ To' = To /\ pairs' = pairs /\ liqSum' = liqSum
  BY <1>1 DEF From, To, prices, book
<1>3. /\ work'.wanted = work.wanted /\ work'.offer = work.offer
      /\ work'.product = work.product /\ work'.given = work.given + 0
      /\ work'.left = work.left /\ work'.used = AmountUsed
  BY <1>1, WorkTypes DEF Work
<1>4. Gross' = Gross
  BY <1>3 DEF Gross
<1>5. AmountUsed' = AmountUsed
  BY <1>3, <1>4 DEF AmountUsed
<1>6. /\ liqSum'[From] = liqSum[From] + 0
      /\ liqSum[To] + Gross <= liqSum'[To] + Gross'
  <2>1. liqSum[From] \in Nat /\ liqSum[To] \in Nat /\ Gross \in Nat
    BY TradeTypes, WorkTypes
  <2> QED
    BY <1>2, <1>4, <2>1
<1> QED
  BY <1>1, <1>2, <1>3, <1>5, <1>6, ProductRound

\* What a round of the fees changes besides the entries.
LEMMA PayFeeMoves ==
  ASSUME Inv, PayFee
  PROVE  /\ stage = "pay" /\ stage' = "pay" /\ From' = From /\ To' = To /\ pairs' = pairs
         /\ work.feeLeft > 0
         /\ \E amount \in Nat : liqSum' = Add(liqSum, To, amount)
         /\ work'.offer = work.offer /\ work'.product = work.product
         /\ work'.wanted = work.wanted /\ work'.left = work.left
         /\ work'.used = work.used /\ work'.given = work.given
         /\ work'.giveNext = work.giveNext
<1> DEFINE P == [address: Addresses, provided: Nat]
           n == work.feeNext
           p == work.providers[n]
           amount == IF work.feeLeft < RoundInt(p.provided) THEN work.feeLeft
                                                            ELSE RoundInt(p.provided)
           ps == [work.providers EXCEPT ![n].provided = Mul(@, ProviderFee)]
<1>1. /\ stage = "pay" /\ stage' = stage /\ work.feeNext <= Len(work.providers)
      /\ work.feeLeft > 0
      /\ AddToBook(To, p.address, amount)
      /\ work' = [work EXCEPT !.feeLeft = @ - amount, !.feeNext = @ + 1, !.providers = ps]
      /\ UNCHANGED <<prices, deal, step>>
  BY DEF PayFee
<1>2. /\ work.providers \in Seq(P) /\ n \in Nat /\ n > 0
      /\ work.feeLeft \in Nat /\ work \in Work
  BY WorkTypes
<1>3. Len(work.providers) \in Nat /\ DOMAIN work.providers = 1..Len(work.providers)
  BY <1>2, LenProperties
<1>4. n \in 1..Len(work.providers)
  BY <1>1, <1>2, <1>3
<1>5. amount \in Nat
  <2>1. p \in P
    BY <1>2, <1>4, ElementOfSeq
  <2>2. p.provided \in Nat
    BY <2>1
  <2>3. RoundInt(p.provided) \in Nat
    BY <2>2, RoundTruncate
  <2> QED
    BY <1>2, <2>3
<1> HIDE DEF amount, p, ps
<1>6. liqSum' = Add(liqSum, To, amount)
  BY <1>1 DEF AddToBook
<1>7. From' = From /\ To' = To /\ pairs' = pairs
  BY <1>1 DEF From, To, prices
<1>8. /\ work'.offer = work.offer /\ work'.product = work.product
      /\ work'.wanted = work.wanted /\ work'.left = work.left
      /\ work'.used = work.used /\ work'.given = work.given
      /\ work'.giveNext = work.giveNext
  BY <1>1, <1>2 DEF Work
<1> QED
  BY <1>1, <1>5, <1>6, <1>7, <1>8

\* What a round of the shares changes besides the entries.
LEMMA GiveFundsMoves ==
  ASSUME Inv, GiveFunds
  PROVE  LET n == work.giveNext
             x == Eligable(work.providers[n])
         IN /\ stage = "pay" /\ stage' = "pay" /\ From' = From /\ To' = To /\ pairs' = pairs
            /\ work.feeLeft = 0 /\ work'.feeLeft = 0
            /\ n \in 1..Len(work.providers) /\ x \in Nat
            /\ liqSum' = Add(liqSum, From, x)
            /\ work'.offer = work.offer /\ work'.product = work.product
            /\ work'.wanted = work.wanted /\ work'.left = work.left
            /\ work'.used = work.used /\ work'.given = work.given + x
            /\ work'.giveNext = n + 1 /\ work'.providers = work.providers
<1> DEFINE n == work.giveNext
           p == work.providers[n]
           x == Eligable(p)
<1>1. /\ stage = "pay" /\ stage' = stage /\ ~(n > Len(work.providers))
      /\ work.feeLeft = 0
      /\ AddToBook(From, p.address, x)
      /\ work' = [work EXCEPT !.giveNext = @ + 1, !.given = @ + x]
      /\ UNCHANGED <<prices, deal, step>>
  BY DEF GiveFunds, Giving, AllGiven
<1>2. /\ work.providers \in Seq([address: Addresses, provided: Nat]) /\ n \in Nat
      /\ work \in Work /\ n > 0
  BY WorkTypes
<1>3. n \in 1..Len(work.providers)
  <2>1. Len(work.providers) \in Nat
    BY <1>2, LenProperties
  <2> QED
    BY <1>1, <1>2, <2>1
<1>4. p \in [address: Addresses, provided: Nat]
  BY <1>2, <1>3, ElementOfSeq
<1>5. x \in Nat
  BY <1>4, EligableType
<1> HIDE DEF p, x
<1>6. liqSum' = Add(liqSum, From, x)
  BY <1>1 DEF AddToBook
<1>7. From' = From /\ To' = To /\ pairs' = pairs
  BY <1>1 DEF From, To, prices
<1>8. /\ work'.offer = work.offer /\ work'.product = work.product
      /\ work'.wanted = work.wanted /\ work'.left = work.left
      /\ work'.used = work.used /\ work'.given = work.given + x
      /\ work'.giveNext = n + 1 /\ work'.providers = work.providers
      /\ work'.feeLeft = work.feeLeft
  BY <1>1, <1>2 DEF Work
<1> QED
  BY <1>1, <1>3, <1>5, <1>6, <1>7, <1>8 DEF x, p

LEMMA ProductPays == Inv /\ Inv' /\ ProductOK /\ PayFee => ProductOK'
<1> SUFFICES ASSUME Inv, Inv', ProductOK, PayFee PROVE ProductOK'
  OBVIOUS
<1>1. /\ stage = "pay" /\ stage' = "pay" /\ From' = From /\ To' = To /\ pairs' = pairs
      /\ work'.offer = work.offer /\ work'.product = work.product
      /\ work'.wanted = work.wanted /\ work'.left = work.left
      /\ work'.used = work.used /\ work'.given = work.given
  BY PayFeeMoves
<1>2. PICK amount \in Nat : liqSum' = Add(liqSum, To, amount)
  BY PayFeeMoves
<1>3. Gross' = Gross
  BY <1>1 DEF Gross
<1>4. work'.used = AmountUsed'
  <2>1. AmountUsed' = AmountUsed
    BY <1>1, <1>3 DEF AmountUsed
  <2> QED
    BY <1>1, <2>1 DEF ProductOK
<1>5. liqSum[From] \in Nat /\ liqSum[To] \in Nat /\ Gross \in Nat /\ work.given \in Nat
  BY TradeTypes, WorkTypes
<1>6. liqSum'[From] = liqSum[From] + 0 /\ liqSum'[To] = liqSum[To] + amount
  <2>1. From # To
    BY <1>1 DEF Inv, DealOK
  <2> QED
    BY <1>2, <1>5, <2>1, TradeTypes DEF Add
<1>7. work'.given = work.given + 0 /\ liqSum[To] + Gross <= liqSum'[To] + Gross'
  BY <1>1, <1>3, <1>5, <1>6
<1> QED
  BY <1>1, <1>4, <1>6, <1>7, ProductRound

LEMMA ProductGives == Inv /\ Inv' /\ ProductOK /\ GiveFunds => ProductOK'
<1> SUFFICES ASSUME Inv, Inv', ProductOK, GiveFunds PROVE ProductOK'
  OBVIOUS
<1> DEFINE x == Eligable(work.providers[work.giveNext])
<1>1. /\ stage = "pay" /\ stage' = "pay" /\ From' = From /\ To' = To /\ pairs' = pairs
      /\ x \in Nat /\ liqSum' = Add(liqSum, From, x)
      /\ work'.offer = work.offer /\ work'.product = work.product
      /\ work'.wanted = work.wanted /\ work'.left = work.left
      /\ work'.used = work.used /\ work'.given = work.given + x
  BY GiveFundsMoves
<1> HIDE DEF x
<1>2. Gross' = Gross
  BY <1>1 DEF Gross
<1>3. work'.used = AmountUsed'
  <2>1. AmountUsed' = AmountUsed
    BY <1>1, <1>2 DEF AmountUsed
  <2> QED
    BY <1>1, <2>1 DEF ProductOK
<1>4. liqSum[From] \in Nat /\ liqSum[To] \in Nat /\ Gross \in Nat
  BY TradeTypes, WorkTypes
<1>5. liqSum'[From] = liqSum[From] + x /\ liqSum'[To] = liqSum[To]
  <2>1. From # To
    BY <1>1 DEF Inv, DealOK
  <2> QED
    BY <1>1, <1>4, <2>1, TradeTypes DEF Add
<1>6. liqSum[To] + Gross <= liqSum'[To] + Gross'
  BY <1>2, <1>4, <1>5
<1> QED
  BY <1>1, <1>3, <1>5, <1>6, ProductRound

\* No other step leads into the rounds of a trade.
LEMMA OutsideRounds ==
  ASSUME Inv, Next,
         ~(BeginStep \/ TakeLiquidity \/ CollectCoins \/ PayFee \/ GiveFunds)
  PROVE  stage' \notin {"take", "pay"}
<1>1. CASE Message
  <2>1. InTx /\ (stage' = stage \/ stage' = "begin")
    BY <1>1, MessageFrame
  <2> QED
    BY <2>1 DEF InTx, Idle
<1>2. CASE Block
  <2>1. stage' = stage
    BY <1>2 DEF Block, Restart, BeginBlock, BurnReserve, CheckReserveForDenom,
                CheckReserveFails, trading
  <2>2. Idle \/ \E d \in Denoms \cup Unlisted : Due(d)
    BY <1>2 DEF Block, Restart, BeginBlock, BurnReserve, CheckReserveForDenom,
                CheckReserveFails, InTx
  <2>3. stage = "idle"
    BY <2>2 DEF Idle, Due, Inv, ChainOK
  <2> QED
    BY <2>1, <2>3
<1>3. CASE TradeStep
  BY <1>3 DEF TradeStep, DepositBase, WithdrawBase, BuyNothing, RollBack, AbandonTrade,
              FinishStep, EndTrade, Return
<1> QED
  BY <1>1, <1>2, <1>3 DEF Next

\* The pools at the beginning of a step are remembered until it ends.
LEMMA ProductInvariance == Spec => []ProductOK
<1>1. Init => ProductOK
  BY DEF Init, ProductOK
<1>2. Inv /\ Inv' /\ ProductOK /\ [Next]_vars => ProductOK'
  <2> SUFFICES ASSUME Inv, Inv', ProductOK, [Next]_vars PROVE ProductOK'
    OBVIOUS
  <2>1. CASE UNCHANGED vars
    <3>1. UNCHANGED <<stage, work, step, deal, liqSum, pairs>>
      BY <2>1 DEF vars, book, prices, trading
    <3> QED
      BY <3>1 DEF ProductOK, From, To, PoolFrom, PoolTo, FullBase, FullOther, Gross,
                  AmountUsed
  <2>2. CASE BeginStep \/ TakeLiquidity \/ CollectCoins \/ PayFee \/ GiveFunds
    BY <2>2, ProductBegins, ProductTakes, ProductCollects, ProductPays, ProductGives
  <2>3. CASE Next /\ ~(BeginStep \/ TakeLiquidity \/ CollectCoins \/ PayFee \/ GiveFunds)
    BY <2>3, OutsideRounds DEF ProductOK
  <2> QED
    BY <2>1, <2>2, <2>3
<1> QED
  BY <1>1, <1>2, Invariance, PTL DEF Spec

\* No step of a trade lowers the product of the two pools, beyond the last
\* digit of the quotient in Forward and, for a step that is filled in part,
\* the rounding of what is used: no trade is worth more than it pays.
THEOREM ProductStaysKept == Spec => []ProductKept
<1>1. Inv /\ ProductOK => ProductKept
  <2> SUFFICES ASSUME Inv, ProductOK, AllGiven
               PROVE  (PoolFrom(From, To) + ToDec(work.used - work.given) + UsedRounding)
                        * (PoolTo(From, To) + 1) >= work.product
    BY DEF ProductKept
  <2>1. stage = "pay" /\ From # To
    BY DEF AllGiven, Giving, Inv, DealOK
  <2>2. /\ work.wanted > 0 /\ work.used = AmountUsed
        /\ \E f, t \in Nat :
             /\ f + ToDec(work.offer) > 0
             /\ work.product = f * t
             /\ work.wanted = Forward(f, t, work.offer)
             /\ PoolFrom(From, To) = f + ToDec(work.given)
             /\ t <= PoolTo(From, To) + ToDec(Gross)
    BY <2>1 DEF ProductOK
  <2>3. PICK f, t \in Nat :
             /\ f + ToDec(work.offer) > 0
             /\ work.product = f * t
             /\ work.wanted = Forward(f, t, work.offer)
             /\ PoolFrom(From, To) = f + ToDec(work.given)
             /\ t <= PoolTo(From, To) + ToDec(Gross)
    BY <2>2
  <2>4. /\ work.offer \in Nat /\ work.wanted \in Nat /\ work.left \in Nat
        /\ work.used \in Nat /\ work.given \in Nat /\ work.left <= work.wanted
        /\ Gross \in Nat /\ Scale \in Nat
    BY WorkTypes, ScaleAssumption
  <2> DEFINE u == ToDec(work.used) + UsedRounding
             v == t - ToDec(Gross) + 1
             x == PoolFrom(From, To) + ToDec(work.used - work.given) + UsedRounding
             y == PoolTo(From, To) + 1
  <2>5. /\ work.used \in Nat /\ UsedRounding \in Nat /\ ToDec(Gross) <= t
        /\ f * t <= (f + u) * v
    <3> DEFINE offer == work.offer
               w == work.wanted
               left == work.left
               used == work.used
               kept == UsedRounding
    <3>1. /\ offer \in Nat /\ w \in Nat /\ left \in Nat /\ left <= w /\ w > 0
          /\ f + ToDec(offer) > 0 /\ w = Forward(f, t, offer)
      BY <2>2, <2>3, <2>4
    <3>2. used = RoundInt(Mul(Quo(ToDec(w - left), ToDec(w)), ToDec(offer)))
      BY <2>2 DEF AmountUsed, Gross
    <3>3. kept = IF left > 0 THEN (Scale + offer + 1) \div 2 + offer \div Scale + 1 ELSE 0
      BY DEF UsedRounding
    <3>4. Gross = w - left
      BY DEF Gross
    <3> HIDE DEF offer, w, left, used, kept
    <3>5. /\ used \in Nat /\ kept \in Nat
          /\ ToDec(w - left) <= t
          /\ f * t <= (f + (ToDec(used) + kept)) * (t - ToDec(w - left) + 1)
      BY <3>1, <3>2, <3>3, StepKeepsProduct
    <3> QED
      BY <3>4, <3>5 DEF used, kept
  <2>6. x = f + u
    <3>1. ToDec(work.used - work.given) = ToDec(work.used) - ToDec(work.given)
      BY <2>4 DEF ToDec
    <3>2. ToDec(work.used) \in Nat /\ ToDec(work.given) \in Nat
      BY <2>4, ToDecType
    <3> QED
      BY <2>3, <2>5, <3>1, <3>2
  <2>7. y \in Nat /\ v \in Nat /\ v <= y /\ f + u \in Nat
    <3>1. PoolTo(From, To) \in Nat
      <4>1. /\ liqSum \in [Denoms -> Nat] /\ PricesOK(pairs, ratios)
            /\ From \in Denoms /\ To \in Denoms
        BY TradeTypes DEF Inv, BookOK
      <4>2. Base \in {From, To}
        BY DEF From, To
      <4> QED
        BY <2>1, <4>1, <4>2, PoolTypes
    <3>2. ToDec(Gross) \in Nat /\ ToDec(work.used) \in Nat
      BY <2>4, ToDecType
    <3> QED
      BY <2>3, <2>5, <3>1, <3>2
  <2> HIDE DEF u, v, x, y
  <2>8. (f + u) * v <= x * y /\ (f + u) * v \in Nat /\ x * y \in Nat /\ f * t \in Nat
    BY <2>6, <2>7, ProductMonotone
  <2>9. x * y >= f * t
    BY <2>5, <2>8
  <2> QED
    BY <2>3, <2>9 DEF x, y
<1> QED
  BY <1>1, ProductInvariance, Invariance, PTL

-----------------------------------------------------------------------------
(* The rounding of the shares in a step of a trade.                        *)

\* The rounded part of u coins that q of P is worth, to half a coin and the
\* last digit of the quotient.
LEMMA ShareNear ==
  ASSUME NEW q \in Nat, NEW P \in Nat, P > 0, NEW u \in Nat,
         NEW x, x = RoundInt(Mul(Quo(q, P), ToDec(u)))
  PROVE  /\ x \in Nat
         /\ 2 * (Scale * (x * P)) <= u * (2 * (Scale * q) + P) + Scale * P
         /\ 2 * (u * (Scale * q)) <= 2 * (Scale * (x * P)) + Scale * P + 2 * (u * P)
<1> DEFINE s == Quo(q, P)
           y == u * s
<1>1. Scale \in Nat /\ Scale >= 2
  BY ScaleAssumption
<1>2. /\ s \in Nat
      /\ 2 * (s * P) <= 2 * (q * Scale) + P
      /\ 2 * (Scale * (q * Scale)) + 2 <= 2 * (Scale * (s * P)) + Scale * P + 2 * P
  <2>1. s \in Nat
    BY QuoType
  <2>2. 2 * (s * P) <= 2 * (q * Scale) + P
    BY QuoNear
  <2>3. 2 * (Scale * (q * Scale)) + 2 <= 2 * (Scale * (s * P)) + Scale * P + 2 * P
    BY QuoNearBelow
  <2> QED
    BY <2>1, <2>2, <2>3
<1>3. x = HalfEven(u * s)
  <2>1. x = RoundInt(Mul(s, ToDec(u)))
    OBVIOUS
  <2> HIDE DEF s
  <2>2. Mul(s, ToDec(u)) = u * s /\ u * s \in Nat
    BY <1>2, MulWhole
  <2> QED
    BY <2>1, <2>2 DEF RoundInt, ChopRound
<1> HIDE DEF s
<1>4. y \in Nat
  BY <1>2
<1>5. x \in Nat /\ 2 * (Scale * x) <= 2 * y + Scale /\ 2 * y <= 2 * (Scale * x) + Scale
  <2> HIDE DEF y
  <2>1. x = HalfEven(y)
    BY <1>3 DEF y
  <2> QED
    BY <1>4, <2>1, HalfEvenBounds, HalfEvenNear
<1> DEFINE a == Scale * (x * P)
           b == Scale * P
           c == y * P
           d == u * (Scale * q)
           e == u * P
           z == u * (s * P)
<1>6. a \in Nat /\ b \in Nat /\ c \in Nat /\ d \in Nat /\ e \in Nat
  BY <1>1, <1>4, <1>5
<1>7. c = z
  BY <1>2
<1>8. 2 * a <= 2 * c + b /\ 2 * c <= 2 * a + b
  <2> DEFINE l == 2 * (Scale * x)
             r == 2 * y + Scale
             v == 2 * y
             w == 2 * (Scale * x) + Scale
  <2>1. l \in Nat /\ r \in Nat /\ v \in Nat /\ w \in Nat /\ l <= r /\ v <= w
    BY <1>1, <1>4, <1>5
  <2>2. l * P = 2 * a /\ r * P = 2 * c + b /\ v * P = 2 * c /\ w * P = 2 * a + b
    BY <1>1, <1>4, <1>5
  <2>3. l * P <= r * P /\ v * P <= w * P
    <3> HIDE DEF l, r, v, w
    <3> QED
      BY <2>1
  <2> QED
    BY <2>2, <2>3
<1>9. 2 * c <= 2 * d + e
  <2> DEFINE l == 2 * (s * P)
             r == 2 * (q * Scale) + P
  <2>1. l \in Nat /\ r \in Nat /\ l <= r
    BY <1>1, <1>2
  <2>2. u * l = 2 * c /\ u * r = 2 * d + e
    BY <1>1, <1>2
  <2>3. u * l <= u * r
    <3> HIDE DEF l, r
    <3> QED
      BY <2>1
  <2> QED
    BY <2>2, <2>3
<1>10. 2 * d <= 2 * c + e + e
  <2> DEFINE l == 2 * (Scale * (q * Scale))
             r == 2 * (Scale * (s * P)) + Scale * P + 2 * P
             f == Scale * e
  <2>1. l \in Nat /\ r \in Nat /\ l <= r
    <3> DEFINE l2 == l + 2
    <3>1. l \in Nat /\ r \in Nat /\ l + 2 <= r
      BY <1>1, <1>2
    <3> HIDE DEF l, r
    <3> QED
      BY <3>1
  <2>2. u * l = Scale * (2 * d) /\ u * r = Scale * (2 * c + e) + 2 * e
    BY <1>1, <1>2
  <2>3. u * l <= u * r
    <3> HIDE DEF l, r
    <3> QED
      BY <2>1
  <2> HIDE DEF l, r, a, b, c, d, e
  <2>4. 2 * e <= f /\ f \in Nat /\ Scale * (2 * c + e + e) = Scale * (2 * c + e) + f
    BY <1>1, <1>6
  <2> DEFINE g == 2 * d
             h == 2 * c + e + e
             k == Scale * (2 * c + e)
  <2>5. g \in Nat /\ h \in Nat /\ k \in Nat
    BY <1>1, <1>6
  <2>6. Scale * g <= Scale * h
    <3>1. Scale * g <= k + 2 * e
      BY <2>2, <2>3
    <3>2. Scale * h = k + f /\ Scale * g \in Nat
      BY <1>1, <2>4, <2>5
    <3> HIDE DEF f, g, h, k
    <3> QED
      BY <1>6, <2>4, <2>5, <3>1, <3>2
  <2> HIDE DEF g, h, k, f
  <2>7. ASSUME h + 1 <= g PROVE FALSE
    <3>1. Scale * (h + 1) <= Scale * g
      BY <1>1, <2>5, <2>7
    <3>2. Scale * (h + 1) = Scale * h + Scale /\ Scale * h \in Nat /\ Scale * g \in Nat
      BY <1>1, <2>5
    <3> QED
      BY <1>1, <2>6, <3>1, <3>2
  <2>8. g <= h
    BY <2>5, <2>7
  <2> QED
    BY <2>8 DEF g, h
<1>11. u * (2 * (Scale * q) + P) = 2 * d + e
  BY <1>1
<1>12. 2 * a <= (2 * d + e) + b /\ 2 * d <= 2 * a + b + 2 * e
  <2> HIDE DEF a, b, c, d, e
  <2> QED
    BY <1>6, <1>8, <1>9, <1>10
<1> QED
  BY <1>5, <1>11, <1>12 DEF a, b, d, e

\* The bounds add up over the providers.
LEMMA SharesAddUp ==
  ASSUME NEW P \in Nat, NEW u \in Nat, NEW k \in Nat,
         NEW given \in Nat, NEW part \in Nat, NEW x \in Nat, NEW q \in Nat,
         2 * (Scale * (given * P)) <= u * (2 * (Scale * part) + k * P) + k * (Scale * P),
         2 * (u * (Scale * part))
           <= 2 * (Scale * (given * P)) + k * (Scale * P) + 2 * (k * (u * P)),
         2 * (Scale * (x * P)) <= u * (2 * (Scale * q) + P) + Scale * P,
         2 * (u * (Scale * q)) <= 2 * (Scale * (x * P)) + Scale * P + 2 * (u * P)
  PROVE  /\ 2 * (Scale * ((given + x) * P))
              <= u * (2 * (Scale * (part + q)) + (k + 1) * P) + (k + 1) * (Scale * P)
         /\ 2 * (u * (Scale * (part + q)))
              <= 2 * (Scale * ((given + x) * P)) + (k + 1) * (Scale * P)
                   + 2 * ((k + 1) * (u * P))
<1> DEFINE a1 == Scale * (given * P)
           a2 == Scale * (x * P)
           b1 == u * (2 * (Scale * part) + k * P)
           b2 == u * (2 * (Scale * q) + P)
           c1 == k * (Scale * P)
           c2 == Scale * P
           d1 == u * (Scale * part)
           d2 == u * (Scale * q)
           e1 == k * (u * P)
           e2 == u * P
<1>1. Scale \in Nat
  BY ScaleAssumption
<1>2. /\ a1 \in Nat /\ a2 \in Nat /\ b1 \in Nat /\ b2 \in Nat /\ c1 \in Nat /\ c2 \in Nat
      /\ d1 \in Nat /\ d2 \in Nat /\ e1 \in Nat /\ e2 \in Nat
  BY <1>1
<1>3. Scale * ((given + x) * P) = a1 + a2
  BY <1>1
<1>4. u * (2 * (Scale * (part + q)) + (k + 1) * P) = b1 + b2
  BY <1>1
<1>5. (k + 1) * (Scale * P) = c1 + c2 /\ (k + 1) * (u * P) = e1 + e2
  BY <1>1
<1>6. u * (Scale * (part + q)) = d1 + d2
  BY <1>1
<1>7. /\ 2 * (a1 + a2) <= (b1 + b2) + (c1 + c2)
      /\ 2 * (d1 + d2) <= 2 * (a1 + a2) + (c1 + c2) + 2 * (e1 + e2)
  <2>1. /\ 2 * a1 <= b1 + c1 /\ 2 * d1 <= 2 * a1 + c1 + 2 * e1
        /\ 2 * a2 <= b2 + c2 /\ 2 * d2 <= 2 * a2 + c2 + 2 * e2
    OBVIOUS
  <2> HIDE DEF a1, a2, b1, b2, c1, c2, d1, d2, e1, e2
  <2> QED
    BY <1>2, <2>1
<1> HIDE DEF a1, a2, b1, b2, c1, c2, d1, d2, e1, e2
<1> QED
  BY <1>3, <1>4, <1>5, <1>6, <1>7

\* The bounds for all that was provided, divided by it.
LEMMA SharesOfAll ==
  ASSUME NEW P \in Nat, P > 0, NEW u \in Nat, NEW n \in Nat, NEW given \in Nat,
         2 * (Scale * (given * P)) <= u * (2 * (Scale * P) + n * P) + n * (Scale * P),
         2 * (u * (Scale * P))
           <= 2 * (Scale * (given * P)) + n * (Scale * P) + 2 * (n * (u * P))
  PROVE  /\ 2 * Scale * (given - u) <= n * (Scale + u)
         /\ 2 * Scale * (u - given) <= n * (Scale + 2 * u)
<1>1. Scale \in Nat
  BY ScaleAssumption
<1> DEFINE a == 2 * (Scale * given)
           b == 2 * (Scale * u)
           c == n * (Scale + u)
           d == n * (Scale + 2 * u)
<1>2. a \in Nat /\ b \in Nat /\ c \in Nat /\ d \in Nat
  BY <1>1
<1>3. (b + c) * P = u * (2 * (Scale * P) + n * P) + n * (Scale * P)
  BY <1>1
<1>4. (a + d) * P = 2 * (Scale * (given * P)) + n * (Scale * P) + 2 * (n * (u * P))
  BY <1>1
<1>5. a * P = 2 * (Scale * (given * P)) /\ b * P = 2 * (u * (Scale * P))
  BY <1>1
<1>6. a * P <= (b + c) * P /\ b * P <= (a + d) * P
  BY <1>3, <1>4, <1>5
<1>7. 2 * Scale * (given - u) = a - b /\ 2 * Scale * (u - given) = b - a
  BY <1>1
<1> HIDE DEF a, b, c, d
<1>8. ASSUME NEW x \in Nat, NEW y \in Nat, x * P <= y * P PROVE x <= y
  <2>1. ASSUME y + 1 <= x PROVE FALSE
    <3>1. (y + 1) * P <= x * P
      BY <2>1
    <3>2. (y + 1) * P = y * P + P /\ y * P \in Nat /\ x * P \in Nat
      OBVIOUS
    <3> QED
      BY <1>8, <3>1, <3>2
  <2> QED
    BY <2>1
<1>9. a <= b + c /\ b <= a + d
  BY <1>2, <1>6, <1>8
<1>10. a - b <= c /\ b - a <= d
  BY <1>2, <1>9
<1> QED
  BY <1>7, <1>10 DEF c, d

\* What the first k providers of a step have provided, after the fees.
ProvidedBy(ps, k) == SumOf([i \in 1..k |-> ps[i].provided])

\* What is given so far, against the part of what is used that the first k
\* providers are due, in the terms of ShareNear.
SharesNear(part, k, P, used, given) ==
  /\ 2 * (Scale * (given * P)) <= used * (2 * (Scale * part) + k * P) + k * (Scale * P)
  /\ 2 * (used * (Scale * part))
       <= 2 * (Scale * (given * P)) + k * (Scale * P) + 2 * (k * (used * P))

\* The shares are given after the fees, one provider after the other.
GivenOK ==
  /\ stage # "pay" => work.giveNext = 1
  /\ stage = "pay" =>
       LET k == work.giveNext - 1
       IN /\ k <= Len(work.providers)
          /\ work.feeLeft > 0 => k = 0
          /\ k = 0 => work.given = 0
          /\ SumProvided = 0 => work.given = 0
          /\ SumProvided > 0 =>
               SharesNear(ProvidedBy(work.providers, k), k, SumProvided,
                          work.used, work.given)

LEMMA ProvidedByType ==
  ASSUME NEW ps \in Seq([address: Addresses, provided: Nat])
  PROVE  /\ ProvidedBy(ps, 0) = 0
         /\ \A k \in 0..Len(ps) : ProvidedBy(ps, k) \in Nat
         /\ \A k \in 1..Len(ps) : ProvidedBy(ps, k) = ProvidedBy(ps, k - 1) + ps[k].provided
<1> DEFINE P == [address: Addresses, provided: Nat]
           n == Len(ps)
           F(k) == [i \in 1..k |-> ps[i].provided]
<1>1. n \in Nat /\ DOMAIN ps = 1..n
  BY LenProperties
<1>2. \A i \in 1..n : ps[i].provided \in Nat
  <2> SUFFICES ASSUME NEW i \in 1..n PROVE ps[i].provided \in Nat
    OBVIOUS
  <2>1. ps[i] \in P
    BY ElementOfSeq
  <2> QED
    BY <2>1
<1>3. ASSUME NEW k \in 0..n PROVE F(k) \in [1..k -> Nat] /\ IsFiniteSet(1..k)
  <2>1. F(k) \in [1..k -> Nat]
    BY <1>1, <1>2
  <2>2. k \in Nat
    BY <1>1
  <2> QED
    BY <2>1, <2>2, FS_Interval
<1>4. ProvidedBy(ps, 0) = 0
  <2>1. \A x \in DOMAIN F(0) : F(0)[x] = 0
    OBVIOUS
  <2> HIDE DEF F
  <2>2. SumOf(F(0)) = 0
    BY <2>1, SumZero
  <2> QED
    BY <2>2 DEF ProvidedBy, F
<1>5. \A k \in 0..n : ProvidedBy(ps, k) \in Nat
  <2> SUFFICES ASSUME NEW k \in 0..n PROVE ProvidedBy(ps, k) \in Nat
    OBVIOUS
  <2>1. F(k) \in [1..k -> Nat] /\ IsFiniteSet(1..k)
    BY <1>3
  <2> HIDE DEF F
  <2>2. SumOf(F(k)) \in Nat
    BY <2>1, SumType
  <2> QED
    BY <2>2 DEF ProvidedBy, F
<1>6. \A k \in 1..n : ProvidedBy(ps, k) = ProvidedBy(ps, k - 1) + ps[k].provided
  <2> SUFFICES ASSUME NEW k \in 1..n
               PROVE  ProvidedBy(ps, k) = ProvidedBy(ps, k - 1) + ps[k].provided
    OBVIOUS
  <2>1. k \in 0..n /\ k - 1 \in 0..n /\ k \in Nat
    BY <1>1
  <2>2. F(k) \in [1..k -> Nat] /\ IsFiniteSet(1..k)
    BY <1>3, <2>1
  <2>3. k \in 1..k /\ (1..k) \ {k} = 1..(k - 1) /\ F(k)[k] = ps[k].provided
    BY <2>1
  <2>4. Without(F(k), {k}) = F(k - 1)
    BY <2>3 DEF Without
  <2> HIDE DEF F
  <2>5. k \in 1..k
    BY <2>3
  <2>6. SumOf(F(k)) = SumOf(Without(F(k), {k})) + F(k)[k]
    BY ONLY <2>2, <2>5, SumWithout
  <2> QED
    BY <2>3, <2>4, <2>6 DEF ProvidedBy, F
<1> QED
  BY <1>4, <1>5, <1>6

\* SumProvided is what all of them have provided.
LEMMA ProvidedByAll ==
  ASSUME NEW ps \in Seq([address: Addresses, provided: Nat])
  PROVE  /\ SumOf([i \in DOMAIN ps |-> ps[i].provided]) = ProvidedBy(ps, Len(ps))
         /\ ProvidedBy(ps, Len(ps)) \in Nat
<1>1. Len(ps) \in Nat /\ DOMAIN ps = 1..Len(ps)
  BY LenProperties
<1>2. Len(ps) \in 0..Len(ps)
  BY <1>1
<1> QED
  BY <1>1, <1>2, ProvidedByType DEF ProvidedBy

\* Nobody is given anything yet.
LEMMA NothingGiven ==
  ASSUME Inv', stage' = "pay", work'.giveNext = 1, work'.given = 0
  PROVE  GivenOK'
<1>1. work' \in Work
  BY DEF Inv, WorkOK
<1>2. /\ work'.providers \in Seq([address: Addresses, provided: Nat])
      /\ work'.used \in Nat
  BY <1>1 DEF Work
<1>3. Len(work'.providers) \in Nat
  BY <1>2, LenProperties
<1>4. SumProvided' \in Nat /\ ProvidedBy(work'.providers, 0) = 0
  BY <1>2, ProvidedByType, ProvidedByAll DEF SumProvided
<1>5. SharesNear(0, 0, SumProvided', work'.used, 0)
  <2> DEFINE P == SumProvided'
             u == work'.used
  <2>1. P \in Nat /\ u \in Nat /\ Scale \in Nat
    BY <1>2, <1>4, ScaleAssumption
  <2> HIDE DEF P, u
  <2>2. SharesNear(0, 0, P, u, 0)
    BY <2>1 DEF SharesNear
  <2> QED
    BY <2>2 DEF P, u
<1>6. work'.giveNext - 1 = 0
  OBVIOUS
<1> QED
  BY <1>3, <1>4, <1>5, <1>6 DEF GivenOK

LEMMA GivenCollects == Inv /\ Inv' /\ GivenOK /\ CollectCoins => GivenOK'
<1> SUFFICES ASSUME Inv, Inv', GivenOK, CollectCoins PROVE GivenOK'
  OBVIOUS
<1>1. /\ stage = "take" /\ stage' = "pay"
      /\ work' = [work EXCEPT !.used = AmountUsed, !.feeLeft = FeeForProviders,
                              !.feeForReserve = FeeForReserve]
  BY DEF CollectCoins, TakenUp
<1>2. work.giveNext = 1 /\ work.given = 0
  BY <1>1 DEF GivenOK, Inv, WorkOK
<1>3. work'.giveNext = 1 /\ work'.given = 0
  BY <1>1, <1>2, WorkTypes DEF Work
<1> QED
  BY <1>1, <1>3, NothingGiven

LEMMA GivenPays == Inv /\ Inv' /\ GivenOK /\ PayFee => GivenOK'
<1> SUFFICES ASSUME Inv, Inv', GivenOK, PayFee PROVE GivenOK'
  OBVIOUS
<1>1. /\ stage = "pay" /\ stage' = "pay" /\ work.feeLeft > 0
      /\ work'.given = work.given /\ work'.giveNext = work.giveNext
  BY PayFeeMoves
<1>2. work.giveNext - 1 = 0 /\ work.giveNext \in Nat /\ work.given = 0
  BY <1>1, WorkTypes DEF GivenOK
<1>3. work'.giveNext = 1 /\ work'.given = 0
  BY <1>1, <1>2
<1> QED
  BY <1>1, <1>3, NothingGiven

\* The next provider's share is added to what is given, and what the provider
\* has provided to the part that is due.
LEMMA GivenGives == Inv /\ Inv' /\ GivenOK /\ GiveFunds => GivenOK'
<1> SUFFICES ASSUME Inv, Inv', GivenOK, GiveFunds PROVE GivenOK'
  OBVIOUS
<1> DEFINE ps == work.providers
           n == work.giveNext
           k == n - 1
           p == ps[n]
           q == p.provided
           x == Eligable(p)
           P == SumProvided
           u == work.used
           g == work.given
           part == ProvidedBy(ps, k)
<1>1. /\ stage = "pay" /\ stage' = "pay"
      /\ work.feeLeft = 0 /\ work'.feeLeft = 0
      /\ n \in 1..Len(ps) /\ x \in Nat
      /\ work'.used = u /\ work'.given = g + x
      /\ work'.giveNext = n + 1 /\ work'.providers = ps
  BY GiveFundsMoves
<1>2. /\ ps \in Seq([address: Addresses, provided: Nat])
      /\ u \in Nat /\ g \in Nat /\ Len(ps) \in Nat /\ n \in Nat /\ n > 0
  BY WorkTypes, LenProperties
<1>3. q \in Nat
  <2>1. p \in [address: Addresses, provided: Nat]
    BY <1>1, <1>2, ElementOfSeq
  <2> QED
    BY <2>1
<1>4. /\ k \in Nat /\ k + 1 = n /\ k \in 0..Len(ps)
  <2> DEFINE l == Len(ps)
  <2>1. n \in 1..l /\ l \in Nat /\ n \in Nat /\ n > 0
    BY <1>1, <1>2
  <2> HIDE DEF n, l
  <2>2. k \in Nat /\ k + 1 = n /\ k \in 0..l
    BY <2>1
  <2> QED
    BY <2>2 DEF l
<1>5. P \in Nat /\ part \in Nat /\ ProvidedBy(ps, n) = part + q
  <2>1. part \in Nat /\ ProvidedBy(ps, n) = part + q
    BY <1>1, <1>2, <1>4, ProvidedByType
  <2>2. P \in Nat
    BY <1>2, ProvidedByAll DEF SumProvided
  <2> QED
    BY <2>1, <2>2
<1>6. SumProvided' = P
  BY <1>1 DEF SumProvided
<1>7. P = 0 => g = 0 /\ x = 0
  <2> SUFFICES ASSUME P = 0 PROVE g = 0 /\ x = 0
    OBVIOUS
  <2>1. g = 0
    BY <1>1 DEF GivenOK
  <2>2. ShareProvided(p) = 0
    BY DEF ShareProvided
  <2>3. ToDec(u) \in Nat
    BY <1>2, ToDecType
  <2>4. 0 * ToDec(u) = 0
    BY <2>3
  <2>5. HalfEven(0) = 0
    <3> DEFINE h == HalfEven(0)
    <3>1. h \in Nat /\ 2 * (Scale * h) <= 2 * 0 + Scale /\ Scale \in Nat /\ Scale > 1
      BY ScaleAssumption, HalfEvenBounds, HalfEvenNear
    <3> HIDE DEF h
    <3>2. h >= 1 => Scale * h >= Scale
      BY <3>1
    <3>3. Scale * h \in Nat
      BY <3>1
    <3>4. h = 0
      BY <3>1, <3>2, <3>3
    <3> QED
      BY <3>4 DEF h
  <2>6. Mul(0, ToDec(u)) = 0
    BY <2>4, <2>5 DEF Mul, ChopRound
  <2>7. x = 0
    BY <2>2, <2>5, <2>6 DEF Eligable, RoundInt, ChopRound
  <2> QED
    BY <2>1, <2>7
<1>8. P > 0 => SharesNear(part + q, n, P, u, g + x)
  <2> SUFFICES ASSUME P > 0 PROVE SharesNear(part + q, n, P, u, g + x)
    OBVIOUS
  <2>1. SharesNear(part, k, P, u, g)
    BY <1>1 DEF GivenOK
  <2>2. x = RoundInt(Mul(Quo(q, P), ToDec(u)))
    BY DEF Eligable, ShareProvided
  <2> HIDE DEF x, q, p, u, g, P, k, n, part, ps
  <2>3. /\ 2 * (Scale * (x * P)) <= u * (2 * (Scale * q) + P) + Scale * P
        /\ 2 * (u * (Scale * q)) <= 2 * (Scale * (x * P)) + Scale * P + 2 * (u * P)
    BY <1>2, <1>3, <1>5, <2>2, ShareNear
  <2>4. /\ 2 * (Scale * (g * P)) <= u * (2 * (Scale * part) + k * P) + k * (Scale * P)
        /\ 2 * (u * (Scale * part))
             <= 2 * (Scale * (g * P)) + k * (Scale * P) + 2 * (k * (u * P))
    BY <2>1 DEF SharesNear
  <2>5. /\ 2 * (Scale * ((g + x) * P))
              <= u * (2 * (Scale * (part + q)) + (k + 1) * P) + (k + 1) * (Scale * P)
        /\ 2 * (u * (Scale * (part + q)))
              <= 2 * (Scale * ((g + x) * P)) + (k + 1) * (Scale * P)
                   + 2 * ((k + 1) * (u * P))
    BY <1>1, <1>2, <1>3, <1>4, <1>5, <2>3, <2>4, SharesAddUp
  <2> QED
    BY <1>4, <2>5 DEF SharesNear
<1> HIDE DEF part, x, q, P, k
<1>9. /\ work'.giveNext - 1 = n /\ n # 0 /\ n <= Len(work'.providers)
      /\ ~(work'.feeLeft > 0)
  <2>1. n <= Len(ps)
    BY <1>1, <1>2
  <2>2. Len(work'.providers) = Len(ps)
    BY <1>1
  <2>3. work'.giveNext - 1 = n /\ n # 0
    <3> HIDE DEF n
    <3> QED
      BY <1>1, <1>2
  <2>4. ~(work'.feeLeft > 0)
    BY <1>1
  <2> QED
    BY <2>1, <2>2, <2>3, <2>4
<1>10. SumProvided' = 0 => work'.given = 0
  BY <1>1, <1>2, <1>6, <1>7
<1>11. SumProvided' > 0 =>
         SharesNear(ProvidedBy(work'.providers, n), n, SumProvided', work'.used, work'.given)
  BY <1>1, <1>5, <1>6, <1>8
<1> HIDE DEF n, ps
<1>12. SumProvided' > 0 =>
         SharesNear(ProvidedBy(work'.providers, work'.giveNext - 1), work'.giveNext - 1,
                    SumProvided', work'.used, work'.given)
  BY <1>9, <1>11
<1>13. /\ stage' = "pay" /\ work'.giveNext - 1 # 0
       /\ work'.giveNext - 1 <= Len(work'.providers) /\ ~(work'.feeLeft > 0)
  BY <1>1, <1>9
<1> QED
  BY <1>10, <1>12, <1>13 DEF GivenOK

\* The invariant of the shares.
LEMMA GivenInvariance == Spec => []GivenOK
<1>1. Init => GivenOK
  BY DEF Init, GivenOK, NoWork
<1>2. Inv /\ Inv' /\ GivenOK /\ [Next]_vars => GivenOK'
  <2> SUFFICES ASSUME Inv, Inv', GivenOK, [Next]_vars PROVE GivenOK'
    OBVIOUS
  <2>1. CASE UNCHANGED <<stage, work>>
    BY <2>1 DEF GivenOK, SumProvided
  <2>2. CASE UNCHANGED vars
    BY <2>1, <2>2 DEF vars, trading
  <2>3. CASE CollectCoins \/ PayFee \/ GiveFunds
    BY <2>3, GivenCollects, GivenPays, GivenGives
  <2>4. CASE BeginStep
    <3>1. stage = "begin" /\ stage' = "take"
          /\ work' = [work EXCEPT !.wanted = Wanted, !.left = Wanted,
                                  !.product = PoolFrom(From, To) * PoolTo(From, To)]
      BY <2>4 DEF BeginStep
    <3>2. work'.giveNext = work.giveNext
      BY <3>1, WorkTypes DEF Work
    <3> QED
      BY <3>1, <3>2 DEF GivenOK
  <2>5. CASE TakeLiquidity
    <3>1. stage = "take" /\ stage' = "take"
      BY <2>5 DEF TakeLiquidity
    <3>2. \E a, b, c :
            work' = [work EXCEPT !.left = @ - a, !.cursor = b, !.providers = Append(@, c)]
      BY <2>5 DEF TakeLiquidity
    <3>3. work'.giveNext = work.giveNext
      BY <3>2, WorkTypes DEF Work
    <3> QED
      BY <3>1, <3>3 DEF GivenOK
  <2>6. CASE Message \/ Block
    <3>1. CASE \E u \in Users, d \in Denoms, a \in Amounts :
                 AddLiquidity(u, d, a) \/ RemoveLiquidity(u, d, a)
      BY <2>1, <3>1 DEF AddLiquidity, RemoveLiquidity, RemoveLiquidityForAddress, trading
    <3>2. CASE \E u \in Users, d \in Denoms : RemoveAllLiquidityForDenom(u, d)
      BY <2>1, <3>2 DEF RemoveAllLiquidityForDenom, RemoveLiquidityForAddress, trading
    <3>3. CASE \E s, e \in Denoms, a \in Amounts, incomplete, liquidation \in BOOLEAN :
                 ExecuteTrade(s, e, a, incomplete, liquidation)
      <4>1. stage' = "begin" /\ \E o : work' = [NoWork EXCEPT !.offer = o]
        BY <3>3 DEF ExecuteTrade
      <4>2. stage' = "begin" /\ work'.giveNext = 1
        BY <4>1 DEF NoWork
      <4> QED
        BY <4>2 DEF GivenOK
    <3>4. CASE Block
      BY <2>1, <3>4 DEF Block, Restart, BeginBlock, BurnReserve, CheckReserveForDenom,
                        CheckReserveFails, trading
    <3>5. CASE \E d \in Gifts : \/ SendUnlistedToReserve(d)
                                \/ \E a \in Amounts : SendToReserve(d, a)
      BY <2>1, <3>5 DEF SendToReserve, SendUnlistedToReserve, trading
    <3> QED
      BY <2>6, <3>1, <3>2, <3>3, <3>4, <3>5 DEF Message
  <2>7. CASE \/ DepositBase \/ WithdrawBase \/ BuyNothing \/ RollBack \/ AbandonTrade
             \/ FinishStep \/ EndTrade
    <3>1. stage' # "pay" /\ work'.giveNext = 1
      BY <2>7 DEF DepositBase, WithdrawBase, BuyNothing, RollBack, AbandonTrade, FinishStep, EndTrade,
                  Return, NoWork
    <3> QED
      BY <3>1 DEF GivenOK
  <2> QED
    BY <2>2, <2>3, <2>4, <2>5, <2>6, <2>7 DEF Next, TradeStep
<1> QED
  BY <1>1, <1>2, Invariance, PTL DEF Spec

\* What distributeGivenFunds credits is what is used, to half a coin and a
\* last digit of a share for each provider, for any number of providers and
\* whatever the fees have done to their parts.
THEOREM RoundingStaysBounded == Spec => []RoundingBounded
<1>1. Inv /\ GivenOK => RoundingBounded
  <2> DEFINE n == Len(work.providers)
             u == work.used
             given == work.given
             P == SumProvided
  <2> SUFFICES ASSUME Inv, GivenOK, AllGiven
               PROVE  /\ 2 * Scale * (given - u) <= n * (Scale + u)
                      /\ P > 0 => 2 * Scale * (u - given) <= n * (Scale + 2 * u)
    BY DEF RoundingBounded
  <2>1. stage = "pay" /\ work.giveNext > n
    BY DEF AllGiven, Giving
  <2>2. n \in Nat /\ u \in Nat /\ given \in Nat /\ work.giveNext \in Nat /\ Scale \in Nat
    BY WorkTypes, LenProperties, ScaleAssumption
  <2>3. work.giveNext - 1 = n
    BY <2>1, <2>2 DEF GivenOK
  <2> DEFINE part == ProvidedBy(work.providers, n)
  <2>4. P \in Nat /\ part = P
    <3>1. work.providers \in Seq([address: Addresses, provided: Nat])
      BY WorkTypes
    <3> QED
      BY <3>1, ProvidedByAll DEF SumProvided
  <2>5. CASE P = 0
    <3>1. given = 0
      BY <2>1, <2>5 DEF GivenOK
    <3>2. n * (Scale + u) \in Nat /\ Scale * u \in Nat /\ 2 * Scale * (0 - u) = -(2 * (Scale * u))
      BY <2>2
    <3> HIDE DEF n, u, given, P
    <3> QED
      BY <2>5, <3>1, <3>2
  <2>6. CASE P > 0
    <3>1. SharesNear(part, n, P, u, given)
      BY <2>1, <2>3, <2>6 DEF GivenOK
    <3> HIDE DEF n, u, given, P, part
    <3>2. /\ 2 * (Scale * (given * P)) <= u * (2 * (Scale * P) + n * P) + n * (Scale * P)
          /\ 2 * (u * (Scale * P))
               <= 2 * (Scale * (given * P)) + n * (Scale * P) + 2 * (n * (u * P))
      BY <2>4, <3>1 DEF SharesNear
    <3> QED
      BY <2>2, <2>4, <2>6, <3>2, SharesOfAll
  <2> QED
    BY <2>4, <2>5, <2>6
<1> QED
  BY <1>1, GivenInvariance, Invariance, PTL

-----------------------------------------------------------------------------
(* The blocks that fail.                                                   *)

\* CheckReserve has emptied the reserve of the base currency before it reaches
\* another denom; a block that has failed is the last one.
HaltOK ==
  /\ unchecked \subseteq Denoms \cup strays
  /\ unchecked # {} /\ Base \notin unchecked => reserve[Base] = 0
  /\ halted => stage = "idle" /\ HaltHasCause

LEMMA HaltBlocks == Inv /\ HaltOK /\ Block => HaltOK'
<1> SUFFICES ASSUME Inv, HaltOK, Block PROVE HaltOK'
  OBVIOUS
<1>1. /\ liqSum[Base] \in Nat /\ reserve[Base] \in Nat /\ Base \in Denoms
      /\ reserve \in [Denoms -> Int]
  BY TradeTypes
<1>2. CASE Restart
  <2>1. InTx /\ UNCHANGED <<strays, unchecked, halted>>
    BY <1>2 DEF Restart
  <2> QED
    BY <2>1 DEF InTx, Idle, HaltOK
<1>3. ASSUME NEW check \in BOOLEAN, BeginBlock(check)
      PROVE  HaltOK'
  <2>1. /\ ~halted /\ halted' = halted /\ reserve' = reserve /\ strays' = strays
        /\ unchecked' = IF check THEN {d \in Denoms : reserve[d] > 0} \cup strays ELSE {}
    BY <1>3 DEF BeginBlock, Idle, bank
  <2>2. unchecked' \subseteq Denoms \cup strays'
    BY <2>1
  <2>3. ASSUME unchecked' # {}, Base \notin unchecked' PROVE reserve'[Base] = 0
    <3>1. check
      BY <2>1, <2>3
    <3> QED
      BY <1>1, <2>1, <2>3, <3>1
  <2> QED
    BY <2>1, <2>2, <2>3 DEF HaltOK
<1>4. ASSUME NEW d \in Denoms, BurnReserve(d) \/ CheckReserveForDenom(d)
      PROVE  HaltOK'
  <2>1. /\ Due(d) /\ halted' = halted /\ reserve' = [reserve EXCEPT ![d] = 0]
        /\ strays' = strays /\ unchecked' = unchecked \ {d}
    BY <1>4 DEF BurnReserve, CheckReserveForDenom
  <2>2. reserve'[Base] = 0
    <3>1. CASE d = Base
      BY <1>1, <2>1, <3>1
    <3>2. CASE d # Base
      <4>1. unchecked # {} /\ Base \notin unchecked
        BY <2>1, <3>2 DEF Due
      <4>2. reserve[Base] = 0
        BY <4>1 DEF HaltOK
      <4> QED
        BY <1>1, <2>1, <3>2, <4>2
    <3> QED
      BY <3>1, <3>2
  <2> QED
    BY <2>1, <2>2 DEF Due, HaltOK
<1>5. ASSUME NEW d \in Denoms \cup Unlisted, CheckReserveFails(d)
      PROVE  HaltOK'
  <2>1. /\ Due(d) /\ (d \in Denoms => ~(BaseFirst(d) /\ Divisible(d)))
        /\ UNCHANGED <<liqSum, ratios, reserve, strays, unchecked, stage>>
    BY <1>5 DEF CheckReserveFails, book, prices, bank, trading
  <2>2. stage = "idle"
    BY <2>1 DEF Due, Inv, ChainOK
  <2>3. HaltHasCause' <=> \/ ~halted'
                          \/ strays # {}
                          \/ \E o \in DOMAIN ratios : ratios[o] = 0
                          \/ liqSum[Base] = 0 /\ reserve[Base] = 0
    BY <2>1 DEF HaltHasCause
  <2>4. CASE d \notin Denoms
    <3>1. strays # {}
      BY <2>1, <2>4 DEF Due, HaltOK
    <3> QED
      BY <2>1, <2>2, <2>3, <3>1 DEF HaltOK
  <2>5. CASE d \in Denoms /\ ~Divisible(d)
    <3>1. PICK o \in DOMAIN ratios : ~(ratios[o] > 0)
      BY <2>5 DEF Divisible
    <3>2. ratios[o] \in Nat
      BY DEF Inv, PricesOK
    <3>3. ratios[o] = 0
      BY <3>1, <3>2
    <3> QED
      BY <2>1, <2>2, <2>3, <3>3 DEF HaltOK
  <2>6. CASE d \in Denoms /\ ~BaseFirst(d)
    <3>1. d # Base /\ ~(liqSum[Base] > 0)
      BY <2>6 DEF BaseFirst
    <3>2. unchecked # {} /\ Base \notin unchecked
      BY <2>1, <3>1 DEF Due
    <3>3. liqSum[Base] = 0 /\ reserve[Base] = 0
      BY <1>1, <3>1, <3>2 DEF HaltOK
    <3> QED
      BY <2>1, <2>2, <2>3, <3>3 DEF HaltOK
  <2> QED
    BY <2>1, <2>4, <2>5, <2>6
<1> QED
  BY <1>2, <1>3, <1>4, <1>5 DEF Block

\* The BeginBlocker fails only for one of three reasons: coins of a denom that is
\* not registered were sent to the reserve, a ratio is zero, or the pools and the
\* reserve hold no base currency.  No other sequence of messages, trades, failing
\* trades and restarts makes the chain stop.
THEOREM ChainHalts == Spec => []HaltHasCause
<1>1. Init => HaltOK
  BY DEF Init, HaltOK
<1>2. Inv /\ HaltOK /\ [Next]_vars => HaltOK'
  <2> SUFFICES ASSUME Inv, HaltOK, [Next]_vars PROVE HaltOK'
    OBVIOUS
  <2>1. CASE UNCHANGED vars
    BY <2>1 DEF vars, book, prices, bank, chain, trading, HaltOK, HaltHasCause
  <2>2. CASE Message
    <3>1. InTx /\ UNCHANGED <<unchecked, halted>>
      BY <2>2, MessageFrame
    <3> QED
      BY <3>1 DEF InTx, Idle, HaltOK
  <2>3. CASE TradeStep
    <3>1. stage # "idle" /\ UNCHANGED <<unchecked, halted>>
      BY <2>3 DEF TradeStep, DepositBase, WithdrawBase, BuyNothing, BeginStep,
                  TakeLiquidity, RollBack, AbandonTrade, CollectCoins, TakenUp, PayFee,
                  GiveFunds, FinishStep, AllGiven, Giving, EndTrade, chain
    <3>2. unchecked = {} /\ ~halted
      BY <3>1 DEF Inv, ChainOK, HaltOK
    <3> QED
      BY <3>1, <3>2 DEF HaltOK
  <2>4. CASE Block
    BY <2>4, HaltBlocks
  <2> QED
    BY <2>1, <2>2, <2>3, <2>4 DEF Next
<1>3. HaltOK => HaltHasCause
  BY DEF HaltOK, HaltHasCause
<1> QED
  BY <1>1, <1>2, <1>3, Invariance, PTL DEF Spec
=============================================================================
