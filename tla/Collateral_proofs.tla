-------------------------- MODULE Collateral_proofs --------------------------
(***************************************************************************)
(* Proofs about Collateral, for all users, denoms, markets and parameters: *)
(* no balance is negative, every loan has an Index of its own, the coins   *)
(* of PoolCollateral are accounted for, a step costs the depositors no     *)
(* more than the rounding of one coin and the collateral that repaid a     *)
(* loan of its own denom, a loan is covered when it is taken, and          *)
(* collateral grows only by what a loan was repaid too much.               *)
(*                                                                         *)
(* liquidateLoan pays back what was repaid beyond the loan without looking *)
(* at the vault.  That the coins are there rests on what the loop keeps    *)
(* (RepaidOK): collateral of the loan's own denom, which brings the vault  *)
(* no coins, never repays more than the loan, and what is repaid beyond    *)
(* the loan has come in by a trade.                                        *)
(***************************************************************************)
EXTENDS Collateral, Sums_proofs, Dec_proofs, SequenceTheorems, TLAPS

-----------------------------------------------------------------------------
(* The inductive invariant.                                                *)

\* The stores and the balances.
StoresOK ==
  /\ collateral \in [Denoms -> [Users -> Nat]]
  /\ coins \in [Denoms -> Nat]
  /\ loans \in [Denoms -> [Users -> Nat]]
  /\ vault \in [Denoms -> Nat]
  /\ DOMAIN ltv \subseteq Denoms
  /\ DOMAIN cap = DOMAIN ltv
  /\ \A d \in DOMAIN ltv : ltv[d] \in Nat
  /\ ratio \in [Denoms -> Nat]
  /\ settled \in [Denoms -> Int]
  /\ lost \in [Denoms -> Nat]
  /\ writtenOff \in [Denoms -> Nat]

\* A loan has an Index, below the next one, that no other loan has.
IndexOK ==
  /\ nextIndex \in Nat \ {0}
  /\ index \in [Denoms -> [Users -> Nat]]
  /\ \A d \in Denoms, u \in Users :
       index[d][u] < nextIndex /\ (index[d][u] > 0 <=> loans[d][u] > 0)
  /\ \A c, d \in Denoms, u, v \in Users :
       index[c][u] > 0 /\ index[c][u] = index[d][v] => c = d /\ u = v

\* A ratio has a price, a loan a ratio, and so has all collateral when there are
\* borrowers to look at.
PricesOK ==
  /\ \A d \in Denoms : ratio[d] > 0 => Quo(Scale, ratio[d]) > 0
  /\ \A d \in Denoms, u \in Users : loans[d][u] > 0 => ratio[d] > 0
  /\ queue # {} => \A d \in DOMAIN ltv : ratio[d] > 0

AreCollateral(s) == \A i \in 1..Len(s) : s[i] \in DOMAIN ltv

WorkType ==
  /\ phase \in {"tx", "borrowers", "loans", "denoms"}
  /\ queue \subseteq Users
  /\ order \in Seq(Denoms)
  /\ work \in [user: Users, excessBase: Int, excess: Int, repaid: Int,
               loansLeft: SUBSET Denoms, denomsLeft: Seq(Denoms)]

\* The loops of HandleLiquidations.
LoopOK ==
  /\ phase = "tx" => queue = {}
  /\ phase # "tx" => AreCollateral(order)
  /\ phase = "denoms" => AreCollateral(work.denomsLeft) /\ work.loansLeft # {}
  /\ phase \in {"loans", "denoms"} =>
       work.user \in queue /\ \A d \in work.loansLeft : loans[d][work.user] > 0

\* What liquidateLoan has collected: with the excess that is left it does not
\* pass the loan, and the vault has what has to be paid back.
RepaidOK ==
  phase = "denoms" =>
    /\ work.excess + ToDec(work.repaid) <= loans[LoanDenom][work.user]
    /\ ToDec(work.repaid) <= loans[LoanDenom][work.user] + ToDec(vault[LoanDenom])

Inv ==
  /\ StoresOK
  /\ IndexOK
  /\ PricesOK
  /\ WorkType
  /\ LoopOK
  /\ RepaidOK
  /\ CollateralAccounting

-----------------------------------------------------------------------------
(* Values.                                                                 *)

LEMMA SumDecNat ==
  ASSUME NEW S, IsFiniteSet(S), NEW f \in [S -> Nat]
  PROVE  SumDec(f) = SumOf(f) /\ SumDec(f) \in Nat
BY FoldIsSum, SumType DEF SumDec

LEMMA Finite == IsFiniteSet(Users) /\ IsFiniteSet(Denoms)
BY CollateralAssumption

LEMMA PriceTypes ==
  ASSUME StoresOK, PricesOK, NEW d \in Denoms, ratio[d] > 0
  PROVE  /\ FromBase(d) \in Nat /\ FromBase(d) > 0
         /\ ToBase(d) \in Nat /\ ToBase(d) > 0
<1>1. ratio[d] \in Nat /\ Quo(Scale, ratio[d]) > 0
  BY DEF StoresOK, PricesOK
<1> QED
  BY <1>1, InversePositive DEF FromBase, ToBase

LEMMA ValueTypes ==
  ASSUME StoresOK, PricesOK, NEW d \in Denoms, ratio[d] > 0, NEW amount \in Int
  PROVE  ValueInDenom(d, amount) \in Int /\ ValueInBase(d, amount) \in Int
<1>1. /\ FromBase(d) \in Nat /\ FromBase(d) > 0 /\ ToBase(d) \in Nat /\ ToBase(d) > 0
  BY PriceTypes
<1>2. ToDec(amount) \in Int
  BY IntTypes
<1>3. Quo(ToDec(amount), FromBase(d)) \in Int /\ Quo(ToDec(amount), ToBase(d)) \in Int
  BY <1>1, <1>2, QuoInt
<1> QED
  BY <1>3 DEF ValueInDenom, ValueInBase

LEMMA CollateralBaseValueType ==
  ASSUME StoresOK, PricesOK, NEW u \in Users,
         \A d \in DOMAIN ltv : collateral[d][u] > 0 => ratio[d] > 0
  PROVE  CollateralBaseValue(u) \in Nat
<1> DEFINE S == {c \in DOMAIN ltv : collateral[c][u] > 0}
           Value(d) == Mul(Quo(ToDec(collateral[d][u]), ToBase(d)), ltv[d])
           f == [d \in S |-> Value(d)]
<1>1. S \subseteq Denoms
  BY DEF StoresOK
<1>2. ASSUME NEW d \in S PROVE Value(d) \in Nat
  <2>1. d \in Denoms /\ ratio[d] > 0 /\ collateral[d][u] \in Nat /\ ltv[d] \in Nat
    BY <1>1, <1>2 DEF StoresOK
  <2>2. ToBase(d) \in Nat /\ ToBase(d) > 0
    BY <2>1, PriceTypes
  <2>3. ToDec(collateral[d][u]) \in Nat
    BY <2>1, ToDecNat
  <2>4. Quo(ToDec(collateral[d][u]), ToBase(d)) \in Nat
    BY <2>2, <2>3, QuoType
  <2> QED
    BY <2>1, <2>4, MulType
<1>3. f \in [S -> Nat]
  <2> HIDE DEF Value, S
  <2> QED
    BY <1>2
<1>4. IsFiniteSet(S)
  BY <1>1, Finite, FS_Subset
<1>5. SumDec(f) \in Nat
  <2> HIDE DEF f, S
  <2> QED
    BY <1>3, <1>4, SumDecNat
<1> QED
  BY <1>5 DEF CollateralBaseValue

LEMMA LoanBaseValueType ==
  ASSUME StoresOK, PricesOK, NEW u \in Users
  PROVE  LoanBaseValue(u) \in Nat
<1> DEFINE S == {c \in Denoms : loans[c][u] > 0}
           Value(d) == Quo(loans[d][u], ToBase(d))
           f == [d \in S |-> Value(d)]
<1>1. ASSUME NEW d \in S PROVE Value(d) \in Nat
  <2>1. d \in Denoms /\ ratio[d] > 0 /\ loans[d][u] \in Nat
    BY <1>1 DEF StoresOK, PricesOK
  <2>2. ToBase(d) \in Nat /\ ToBase(d) > 0
    BY <2>1, PriceTypes
  <2> QED
    BY <2>1, <2>2, QuoType
<1>2. f \in [S -> Nat]
  <2> HIDE DEF Value, S
  <2> QED
    BY <1>1
<1>3. IsFiniteSet(S)
  BY Finite, FS_Subset
<1>4. SumDec(f) \in Nat
  <2> HIDE DEF f, S
  <2> QED
    BY <1>2, <1>3, SumDecNat
<1> QED
  BY <1>4 DEF LoanBaseValue

\* The loan that is looked at is one of those that are left.
LEMMA LoanDenomLeft ==
  ASSUME IndexOK, WorkType, work.loansLeft # {}
  PROVE  LoanDenom \in work.loansLeft /\ LoanDenom \in Denoms
<1> DEFINE S == work.loansLeft
           T == {index[d][work.user] : d \in S}
<1>1. S \subseteq Denoms /\ work.user \in Users
  BY DEF WorkType
<1>2. T \in SUBSET Nat /\ T # {}
  BY <1>1 DEF IndexOK
<1>3. PICK n \in T : \A m \in T : n <= m
  <2> HIDE DEF T
  <2> QED
    BY <1>2, Least
<1>4. PICK d \in S : index[d][work.user] = n
  BY <1>3
<1>5. \A c \in S : index[d][work.user] <= index[c][work.user]
  BY <1>3, <1>4
<1>6. LoanDenom \in S
  BY <1>4, <1>5 DEF LoanDenom
<1> QED
  BY <1>1, <1>6

-----------------------------------------------------------------------------
(* One entry of a store.                                                   *)

LEMMA EntrySet ==
  ASSUME NEW f \in [Denoms -> [Users -> Nat]], NEW d \in Denoms, NEW u \in Users,
         NEW v \in Nat, NEW g, g = [f EXCEPT ![d][u] = v]
  PROVE  /\ g \in [Denoms -> [Users -> Nat]]
         /\ g[d][u] = v
         /\ \A c \in Denoms, w \in Users : <<c, w>> # <<d, u>> => g[c][w] = f[c][w]
         /\ \A c \in Denoms : c # d => g[c] = f[c]
OBVIOUS

LEMMA SumEntry ==
  ASSUME NEW h \in [Users -> Nat], NEW k \in [Users -> Nat], NEW u \in Users,
         \A w \in Users : w # u => k[w] = h[w]
  PROVE  /\ SumOf(h) \in Nat /\ SumOf(k) \in Nat
         /\ SumOf(k) = SumOf(h) - h[u] + k[u]
BY Finite, SumType, SumChanged

\* Collateral of one user and denom, with the coins that go along.
LEMMA CollateralMoves ==
  ASSUME StoresOK, CollateralAccounting, NEW d \in Denoms, NEW u \in Users, NEW v \in Nat,
         collateral' = [collateral EXCEPT ![d][u] = v],
         \A c \in Denoms : coins'[c] \in Int /\ lost'[c] \in Int /\ settled'[c] \in Int,
         (coins'[d] + lost'[d]) - settled'[d]
           = ((coins[d] + lost[d]) - settled[d]) + (v - collateral[d][u]),
         \A c \in Denoms : c # d =>
           coins'[c] = coins[c] /\ lost'[c] = lost[c] /\ settled'[c] = settled[c]
  PROVE  collateral' \in [Denoms -> [Users -> Nat]] /\ CollateralAccounting'
<1>1. collateral \in [Denoms -> [Users -> Nat]]
  BY DEF StoresOK
<1>2. /\ collateral' \in [Denoms -> [Users -> Nat]]
      /\ \A c \in Denoms : c # d => collateral'[c] = collateral[c]
      /\ collateral'[d][u] = v
      /\ \A w \in Users : w # u => collateral'[d][w] = collateral[d][w]
  BY <1>1
<1>3. ASSUME NEW c \in Denoms, c # d
      PROVE  coins'[c] + lost'[c] = SumOf(collateral'[c]) + settled'[c]
  BY <1>2, <1>3 DEF CollateralAccounting
<1>4. coins'[d] + lost'[d] = SumOf(collateral'[d]) + settled'[d]
  <2> DEFINE h == collateral[d]
             k == collateral'[d]
             s == SumOf(h)
             t == SumOf(k)
  <2>1. h \in [Users -> Nat] /\ k \in [Users -> Nat] /\ k[u] = v
        /\ \A w \in Users : w # u => k[w] = h[w]
    BY <1>1, <1>2
  <2>2. s \in Nat /\ t \in Nat /\ t = s - h[u] + k[u]
    <3> HIDE DEF h, k
    <3> QED
      BY <2>1, SumEntry
  <2>3. coins[d] + lost[d] = s + settled[d]
    BY DEF CollateralAccounting
  <2>4. coins[d] \in Int /\ lost[d] \in Int /\ settled[d] \in Int /\ h[u] \in Nat
    BY <2>1 DEF StoresOK
  <2>5. (coins'[d] + lost'[d]) - settled'[d]
          = ((coins[d] + lost[d]) - settled[d]) + (v - h[u])
        /\ coins'[d] \in Int /\ lost'[d] \in Int /\ settled'[d] \in Int
    OBVIOUS
  <2>6. coins'[d] + lost'[d] = t + settled'[d]
    <3> HIDE DEF s, t, h, k
    <3> QED
      BY <2>1, <2>2, <2>3, <2>4, <2>5
  <2> QED
    BY <2>6
<1> QED
  BY <1>2, <1>3, <1>4 DEF CollateralAccounting

LEMMA CollateralRests ==
  ASSUME CollateralAccounting, UNCHANGED <<collateral, coins, settled, lost>>
  PROVE  CollateralAccounting'
BY DEF CollateralAccounting

LEMMA SetLoanSets ==
  ASSUME StoresOK, IndexOK, NEW d \in Denoms, NEW u \in Users, NEW amount \in Int,
         SetLoan(u, d, amount)
  PROVE  /\ loans' = [loans EXCEPT ![d][u] = Kept(amount)]
         /\ Kept(amount) \in Nat
         /\ loans' \in [Denoms -> [Users -> Nat]]
         /\ loans'[d][u] = Kept(amount)
         /\ \A c \in Denoms, w \in Users : <<c, w>> # <<d, u>> => loans'[c][w] = loans[c][w]
         /\ IndexOK'
<1>1. loans' = [loans EXCEPT ![d][u] = Kept(amount)] /\ Kept(amount) \in Nat
  BY DEF SetLoan, Kept
<1>2. loans \in [Denoms -> [Users -> Nat]]
  BY DEF StoresOK
<1>3. /\ loans' \in [Denoms -> [Users -> Nat]]
      /\ loans'[d][u] = Kept(amount)
      /\ \A c \in Denoms, w \in Users : <<c, w>> # <<d, u>> => loans'[c][w] = loans[c][w]
  BY <1>1, <1>2, EntrySet
<1> DEFINE new == amount > 0 /\ index[d][u] = 0
           v == IF amount <= 0 THEN 0 ELSE IF new THEN nextIndex ELSE index[d][u]
<1>4. /\ nextIndex \in Nat /\ nextIndex > 0 /\ index \in [Denoms -> [Users -> Nat]]
      /\ index[d][u] \in Nat
  BY DEF IndexOK
<1>5. /\ index' = [index EXCEPT ![d][u] = v]
      /\ nextIndex' = IF new THEN nextIndex + 1 ELSE nextIndex
  BY DEF SetLoan
<1>6. v \in Nat /\ (v > 0 <=> amount > 0)
  BY <1>4
<1>7. nextIndex' \in Nat \ {0} /\ nextIndex <= nextIndex' /\ v < nextIndex'
  <2>1. index[d][u] < nextIndex
    BY DEF IndexOK
  <2> QED
    BY <1>4, <1>5, <2>1
<1>8. v > 0 => v = index[d][u] \/ v = nextIndex
  BY <1>4
<1> HIDE DEF v
<1>9. /\ index' \in [Denoms -> [Users -> Nat]]
      /\ index'[d][u] = v
      /\ \A c \in Denoms, w \in Users : <<c, w>> # <<d, u>> => index'[c][w] = index[c][w]
  BY <1>4, <1>5, <1>6, EntrySet
<1>10. ASSUME NEW c \in Denoms, NEW w \in Users
       PROVE  index'[c][w] < nextIndex' /\ (index'[c][w] > 0 <=> loans'[c][w] > 0)
  <2>1. CASE <<c, w>> = <<d, u>>
    BY <1>3, <1>6, <1>7, <1>9, <2>1 DEF Kept
  <2>2. CASE <<c, w>> # <<d, u>>
    <3>1. index[c][w] < nextIndex /\ (index[c][w] > 0 <=> loans[c][w] > 0)
          /\ index[c][w] \in Nat
      BY DEF IndexOK
    <3>2. index'[c][w] = index[c][w] /\ loans'[c][w] = loans[c][w]
      BY <1>3, <1>9, <2>2
    <3>3. index[c][w] < nextIndex'
      BY <1>4, <1>7, <3>1
    <3> QED
      BY <3>1, <3>2, <3>3
  <2> QED
    BY <2>1, <2>2
<1>11. ASSUME NEW c \in Denoms, NEW w \in Users, <<c, w>> # <<d, u>>, v > 0
       PROVE  index[c][w] # v
  <2>1. index[c][w] < nextIndex /\ index[c][w] \in Nat
    BY DEF IndexOK
  <2>2. CASE v = nextIndex
    BY <1>4, <2>1, <2>2
  <2>3. CASE v = index[d][u]
    <3>1. index[d][u] > 0
      BY <1>11, <2>3
    <3>2. index[d][u] # index[c][w]
      BY <1>11, <3>1 DEF IndexOK
    <3> QED
      BY <2>3, <3>2
  <2> QED
    BY <1>8, <1>11, <2>2, <2>3
<1>12. ASSUME NEW c \in Denoms, NEW e \in Denoms, NEW w \in Users, NEW x \in Users,
              index'[c][w] > 0, index'[c][w] = index'[e][x]
       PROVE  c = e /\ w = x
  <2>1. CASE <<c, w>> = <<d, u>> /\ <<e, x>> = <<d, u>>
    BY <2>1
  <2>2. CASE <<c, w>> = <<d, u>> /\ <<e, x>> # <<d, u>>
    BY <1>9, <1>11, <1>12, <2>2
  <2>3. CASE <<c, w>> # <<d, u>> /\ <<e, x>> = <<d, u>>
    BY <1>9, <1>11, <1>12, <2>3
  <2>4. CASE <<c, w>> # <<d, u>> /\ <<e, x>> # <<d, u>>
    <3>1. index[c][w] > 0 /\ index[c][w] = index[e][x]
      BY <1>9, <1>12, <2>4
    <3> QED
      BY <3>1 DEF IndexOK
  <2> QED
    BY <2>1, <2>2, <2>3, <2>4
<1>13. IndexOK'
  BY <1>7, <1>9, <1>10, <1>12 DEF IndexOK
<1> QED
  BY <1>1, <1>3, <1>13

-----------------------------------------------------------------------------
(* Transactions.                                                           *)

LEMMA InvParts ==
  ASSUME Inv
  PROVE  /\ StoresOK /\ IndexOK /\ PricesOK /\ WorkType /\ LoopOK /\ RepaidOK
         /\ CollateralAccounting
BY DEF Inv

\* Between blocks the loops are at rest.
LEMMA AtRest ==
  ASSUME Inv, phase = "tx", UNCHANGED handling
  PROVE  WorkType' /\ LoopOK' /\ RepaidOK' /\ queue' = {}
<1>1. /\ phase' = "tx" /\ queue' = queue /\ order' = order /\ work' = work
  BY DEF handling
<1>2. queue = {}
  BY DEF Inv, LoopOK
<1> QED
  BY <1>1, <1>2 DEF Inv, WorkType, LoopOK, RepaidOK

LEMMA PricesAtRest ==
  ASSUME PricesOK, ratio' = ratio, loans' = loans, queue' = {}
  PROVE  PricesOK'
BY DEF PricesOK

LEMMA IndexAtRest ==
  ASSUME IndexOK, UNCHANGED loanStore
  PROVE  IndexOK'
BY DEF IndexOK, loanStore

LEMMA AddCollateralKeeps ==
  ASSUME Inv, NEW u \in Users, NEW d \in Denoms, NEW a \in Amounts, AddCollateral(u, d, a)
  PROVE  Inv'
<1>1. /\ collateral' = [collateral EXCEPT ![d][u] = collateral[d][u] + a]
      /\ coins' = [coins EXCEPT ![d] = coins[d] + a]
      /\ phase = "tx" /\ UNCHANGED <<loanStore, vault, market, params, handling, history>>
  BY DEF AddCollateral, InTx, Add
<1>2. StoresOK /\ CollateralAccounting /\ PricesOK /\ IndexOK
  BY InvParts
<1>3. a \in Nat /\ collateral[d][u] \in Nat /\ coins \in [Denoms -> Nat]
      /\ lost \in [Denoms -> Nat] /\ settled \in [Denoms -> Int]
  BY <1>2, CollateralAssumption DEF StoresOK
<1>4. /\ coins' \in [Denoms -> Nat] /\ coins'[d] = coins[d] + a
      /\ \A c \in Denoms : c # d => coins'[c] = coins[c]
      /\ lost' = lost /\ settled' = settled
  BY <1>1, <1>3 DEF history
<1>5. collateral' \in [Denoms -> [Users -> Nat]] /\ CollateralAccounting'
  <2>1. \A c \in Denoms : coins'[c] \in Int /\ lost'[c] \in Int /\ settled'[c] \in Int
    BY <1>3, <1>4
  <2> DEFINE v == collateral[d][u] + a
  <2>2. v \in Nat /\ collateral' = [collateral EXCEPT ![d][u] = v]
        /\ (coins'[d] + lost'[d]) - settled'[d]
              = ((coins[d] + lost[d]) - settled[d]) + (v - collateral[d][u])
    BY <1>1, <1>3, <1>4
  <2> HIDE DEF v
  <2> QED
    BY <1>2, <1>4, <2>1, <2>2, CollateralMoves
<1>6. StoresOK'
  BY <1>1, <1>2, <1>4, <1>5 DEF StoresOK, market, params, history, loanStore
<1>7. WorkType' /\ LoopOK' /\ RepaidOK' /\ queue' = {}
  BY <1>1, AtRest
<1>8. PricesOK' /\ IndexOK'
  BY <1>1, <1>2, <1>7, PricesAtRest, IndexAtRest DEF market, loanStore
<1> QED
  BY <1>5, <1>6, <1>7, <1>8 DEF Inv

LEMMA RemoveCollateralKeeps ==
  ASSUME Inv, NEW u \in Users, NEW d \in Denoms, NEW a \in Amounts, RemoveCollateral(u, d, a)
  PROVE  Inv'
<1>1. /\ collateral' = [collateral EXCEPT ![d][u] = Kept(collateral[d][u] - a)]
      /\ coins' = [coins EXCEPT ![d] = coins[d] + -a]
      /\ a <= collateral[d][u] /\ a <= coins[d]
      /\ phase = "tx" /\ UNCHANGED <<loanStore, vault, market, params, handling, history>>
  BY DEF RemoveCollateral, InTx, Add
<1>2. StoresOK /\ CollateralAccounting /\ PricesOK /\ IndexOK
  BY InvParts
<1>3. a \in Nat /\ collateral[d][u] \in Nat /\ coins \in [Denoms -> Nat]
      /\ lost \in [Denoms -> Nat] /\ settled \in [Denoms -> Int]
  BY <1>2, CollateralAssumption DEF StoresOK
<1>4. /\ coins' \in [Denoms -> Nat] /\ coins'[d] = coins[d] - a
      /\ \A c \in Denoms : c # d => coins'[c] = coins[c]
      /\ lost' = lost /\ settled' = settled
  BY <1>1, <1>3 DEF history
<1>5. collateral' \in [Denoms -> [Users -> Nat]] /\ CollateralAccounting'
  <2>1. \A c \in Denoms : coins'[c] \in Int /\ lost'[c] \in Int /\ settled'[c] \in Int
    BY <1>3, <1>4
  <2> DEFINE v == Kept(collateral[d][u] - a)
  <2>2. v \in Nat /\ v = collateral[d][u] - a
    BY <1>1, <1>3 DEF Kept
  <2>3. /\ collateral' = [collateral EXCEPT ![d][u] = v]
        /\ (coins'[d] + lost'[d]) - settled'[d]
              = ((coins[d] + lost[d]) - settled[d]) + (v - collateral[d][u])
    BY <1>1, <1>3, <1>4, <2>2
  <2> HIDE DEF v
  <2> QED
    BY <1>2, <1>4, <2>1, <2>2, <2>3, CollateralMoves
<1>6. StoresOK'
  BY <1>1, <1>2, <1>4, <1>5 DEF StoresOK, market, params, history, loanStore
<1>7. WorkType' /\ LoopOK' /\ RepaidOK' /\ queue' = {}
  BY <1>1, AtRest
<1>8. PricesOK' /\ IndexOK'
  BY <1>1, <1>2, <1>7, PricesAtRest, IndexAtRest DEF market, loanStore
<1> QED
  BY <1>5, <1>6, <1>7, <1>8 DEF Inv

\* A loan that is set, and the vault that goes along.
LEMMA LoanMessageKeeps ==
  ASSUME Inv, NEW u \in Users, NEW d \in Denoms, NEW amount \in Int, SetLoan(u, d, amount),
         ratio[d] > 0, vault' \in [Denoms -> Nat], phase = "tx",
         UNCHANGED <<collateral, coins, market, params, handling, history>>
  PROVE  Inv'
<1>1. StoresOK /\ CollateralAccounting /\ PricesOK /\ IndexOK
  BY InvParts
<1>2. /\ loans' \in [Denoms -> [Users -> Nat]]
      /\ \A c \in Denoms, w \in Users : <<c, w>> # <<d, u>> => loans'[c][w] = loans[c][w]
      /\ IndexOK'
  BY <1>1, SetLoanSets
<1>3. StoresOK'
  BY <1>1, <1>2 DEF StoresOK, market, params, history
<1>4. WorkType' /\ LoopOK' /\ RepaidOK' /\ queue' = {}
  BY AtRest
<1>5. CollateralAccounting'
  BY <1>1, CollateralRests DEF history
<1>6. PricesOK'
  <2>1. ratio' = ratio
    BY DEF market
  <2>2. \A c \in Denoms, w \in Users : loans'[c][w] > 0 => ratio[c] > 0
    BY <1>1, <1>2 DEF PricesOK
  <2> QED
    BY <1>1, <1>4, <2>1, <2>2 DEF PricesOK
<1> QED
  BY <1>2, <1>3, <1>4, <1>5, <1>6 DEF Inv

LEMMA CeilBounds ==
  ASSUME NEW a \in Nat
  PROVE  /\ CeilInt(a) \in Nat
         /\ a <= ToDec(CeilInt(a))
         /\ ToDec(CeilInt(a)) <= a + Scale
<1> DEFINE q == (-a) \div Scale
           r == (-a) % Scale
<1>1. -a \in Int /\ Scale \in Nat /\ Scale > 0
  BY ScaleAssumption
<1>2. q \in Int /\ r \in 0..(Scale - 1) /\ -a = Scale * q + r
  BY <1>1
<1>3. CeilInt(a) = -q
  BY DEF CeilInt
<1>4. CeilInt(a) \in Nat
  BY CeilType
<1>5. ToDec(CeilInt(a)) = -(Scale * q) /\ Scale * q \in Int
  <2> HIDE DEF q
  <2> QED
    BY <1>1, <1>2, <1>3 DEF ToDec
<1> HIDE DEF q, r
<1>6. a <= ToDec(CeilInt(a)) /\ ToDec(CeilInt(a)) <= a + Scale
  <2> DEFINE m == Scale * q
  <2>1. m \in Int /\ -a = m + r /\ ToDec(CeilInt(a)) = -m /\ r \in 0..(Scale - 1)
    BY <1>2, <1>5
  <2> HIDE DEF m
  <2> QED
    BY <1>1, <2>1
<1> QED
  BY <1>4, <1>6

LEMMA BorrowKeeps ==
  ASSUME Inv, NEW u \in Users, NEW d \in Denoms, NEW a \in LoanAmounts, Borrow(u, d, a)
  PROVE  Inv'
<1>1. /\ SetLoan(u, d, loans[d][u] + a) /\ ratio[d] > 0 /\ vault[d] >= CeilInt(a)
      /\ vault' = [vault EXCEPT ![d] = vault[d] + -CeilInt(a)] /\ phase = "tx"
      /\ UNCHANGED <<collateral, coins, market, params, handling, history>>
  BY DEF Borrow, InTx, Add
<1>2. a \in Nat /\ loans[d][u] \in Nat /\ vault \in [Denoms -> Nat]
  BY InvParts, CollateralAssumption DEF StoresOK
<1>3. CeilInt(a) \in Nat
  BY <1>2, CeilBounds
<1>4. vault' \in [Denoms -> Nat]
  BY <1>1, <1>2, <1>3
<1>5. loans[d][u] + a \in Int
  BY <1>2
<1> QED
  BY <1>1, <1>4, <1>5, LoanMessageKeeps

LEMMA RepayKeeps ==
  ASSUME Inv, NEW u \in Users, NEW d \in Denoms, NEW amount \in Nat, Repay(u, d, amount)
  PROVE  Inv'
<1> DEFINE paid == MinDec(amount, loans[d][u])
<1>1. /\ SetLoan(u, d, loans[d][u] - paid) /\ loans[d][u] > 0
      /\ vault' = [vault EXCEPT ![d] = vault[d] + CeilInt(paid)] /\ phase = "tx"
      /\ UNCHANGED <<collateral, coins, market, params, handling, history>>
  BY DEF Repay, InTx, Add
<1>2. loans[d][u] \in Nat /\ vault \in [Denoms -> Nat] /\ ratio[d] > 0
  BY <1>1, InvParts DEF StoresOK, PricesOK
<1>3. paid \in Nat
  BY <1>2 DEF MinDec
<1> HIDE DEF paid
<1>4. CeilInt(paid) \in Nat
  BY <1>3, CeilBounds
<1>5. vault' \in [Denoms -> Nat]
  BY <1>1, <1>2, <1>4
<1>6. loans[d][u] - paid \in Int
  BY <1>2, <1>3
<1> QED
  BY <1>1, <1>2, <1>5, <1>6, LoanMessageKeeps

LEMMA MessageKeeps ==
  ASSUME Inv, Message
  PROVE  Inv'
<1>1. ASSUME NEW u \in Users, NEW d \in Denoms, NEW a \in LoanAmounts,
             PartiallyRepayLoan(u, d, a)
      PROVE  Inv'
  <2>1. a \in Nat
    BY CollateralAssumption
  <2>2. ToDec(CeilInt(a)) \in Nat
    BY <2>1, CeilBounds, ToDecNat
  <2> QED
    BY <1>1, <2>2, RepayKeeps DEF PartiallyRepayLoan
<1>2. ASSUME NEW u \in Users, NEW d \in Denoms, RepayLoan(u, d)
      PROVE  Inv'
  <2>1. loans[d][u] \in Nat
    BY InvParts DEF StoresOK
  <2> QED
    BY <1>2, <2>1, RepayKeeps DEF RepayLoan
<1> QED
  BY <1>1, <1>2, AddCollateralKeeps, RemoveCollateralKeeps, BorrowKeeps DEF Message

LEMMA GovernanceKeeps ==
  ASSUME Inv, Governance
  PROVE  Inv'
<1>1. /\ UNCHANGED <<positions, banks, market, handling, history>> /\ phase = "tx"
  BY DEF Governance, AddCollateralDenom, UpdateCollateralDenomLTV,
         UpdateCollateralDenomMaxDeposit, InTx
<1>2. StoresOK /\ CollateralAccounting /\ PricesOK /\ IndexOK
  BY InvParts
<1>3. /\ DOMAIN ltv' \subseteq Denoms /\ DOMAIN cap' = DOMAIN ltv'
      /\ \A d \in DOMAIN ltv' : ltv'[d] \in Nat
  <2>1. DOMAIN ltv \subseteq Denoms /\ DOMAIN cap = DOMAIN ltv /\ \A d \in DOMAIN ltv : ltv[d] \in Nat
    BY <1>2 DEF StoresOK
  <2>2. ASSUME NEW l \in Ltvs PROVE l \in Nat
    BY CollateralAssumption, ScaleAssumption
  <2>3. ASSUME NEW d \in Denoms, NEW l \in Ltvs, NEW m \in Caps, AddCollateralDenom(d, l, m)
        PROVE  /\ DOMAIN ltv' \subseteq Denoms /\ DOMAIN cap' = DOMAIN ltv'
               /\ \A c \in DOMAIN ltv' : ltv'[c] \in Nat
    BY <2>1, <2>2, <2>3 DEF AddCollateralDenom, With
  <2>4. ASSUME NEW d \in Denoms, NEW l \in Ltvs, UpdateCollateralDenomLTV(d, l)
        PROVE  /\ DOMAIN ltv' \subseteq Denoms /\ DOMAIN cap' = DOMAIN ltv'
               /\ \A c \in DOMAIN ltv' : ltv'[c] \in Nat
    BY <2>1, <2>2, <2>4 DEF UpdateCollateralDenomLTV
  <2>5. ASSUME NEW d \in Denoms, NEW m \in Caps, UpdateCollateralDenomMaxDeposit(d, m)
        PROVE  /\ DOMAIN ltv' \subseteq Denoms /\ DOMAIN cap' = DOMAIN ltv'
               /\ \A c \in DOMAIN ltv' : ltv'[c] \in Nat
    BY <2>1, <2>5 DEF UpdateCollateralDenomMaxDeposit
  <2> QED
    BY <2>3, <2>4, <2>5 DEF Governance
<1>4. StoresOK'
  BY <1>1, <1>2, <1>3 DEF StoresOK, positions, loanStore, banks, market, history
<1>5. WorkType' /\ LoopOK' /\ RepaidOK' /\ queue' = {}
  BY <1>1, AtRest
<1>6. PricesOK' /\ IndexOK' /\ CollateralAccounting'
  BY <1>1, <1>2, <1>5, PricesAtRest, IndexAtRest, CollateralRests
     DEF market, positions, loanStore, banks, history
<1> QED
  BY <1>4, <1>5, <1>6 DEF Inv

LEMMA EnvironmentKeeps ==
  ASSUME Inv, Environment
  PROVE  Inv'
<1>1. /\ UNCHANGED <<positions, banks, params, handling, history>> /\ phase = "tx"
  BY DEF Environment, PoolsRunDry, MarketMoves, InTx
<1>2. StoresOK /\ CollateralAccounting /\ PricesOK /\ IndexOK
  BY InvParts
<1>3. /\ ratio' \in [Denoms -> Nat]
      /\ \A d \in Denoms : ratio'[d] > 0 => Quo(Scale, ratio'[d]) > 0
      /\ \A d \in Denoms : ratio[d] > 0 => ratio'[d] > 0
  <2>1. /\ ratio \in [Denoms -> Nat]
        /\ \A d \in Denoms : ratio[d] > 0 => Quo(Scale, ratio[d]) > 0
    BY <1>2 DEF StoresOK, PricesOK
  <2>2. CASE PoolsRunDry
    BY <2>1, <2>2 DEF PoolsRunDry
  <2>3. ASSUME NEW d \in Denoms, NEW r \in Ratios, MarketMoves(d, r)
        PROVE  /\ ratio' \in [Denoms -> Nat]
               /\ \A c \in Denoms : ratio'[c] > 0 => Quo(Scale, ratio'[c]) > 0
               /\ \A c \in Denoms : ratio[c] > 0 => ratio'[c] > 0
    <3>1. r \in Nat /\ r > 0 /\ Quo(Scale, r) > 0
      BY CollateralAssumption, PriceAssumption
    <3>2. ratio' = [ratio EXCEPT ![d] = r]
      BY <2>3 DEF MarketMoves
    <3> QED
      BY <2>1, <3>1, <3>2
  <2> QED
    BY <2>2, <2>3 DEF Environment
<1>4. StoresOK'
  BY <1>1, <1>2, <1>3 DEF StoresOK, positions, loanStore, banks, params, history
<1>5. WorkType' /\ LoopOK' /\ RepaidOK' /\ queue' = {}
  BY <1>1, AtRest
<1>6. IndexOK' /\ CollateralAccounting'
  BY <1>1, <1>2, IndexAtRest, CollateralRests DEF positions, loanStore, banks, history
<1>7. PricesOK'
  BY <1>1, <1>2, <1>3, <1>5 DEF PricesOK, positions, loanStore
<1> QED
  BY <1>4, <1>5, <1>6, <1>7 DEF Inv

-----------------------------------------------------------------------------
(* The initial states and the loops of HandleLiquidations.                 *)

LEMMA NoWorkType ==
  NoWork \in [user: Users, excessBase: Int, excess: Int, repaid: Int,
              loansLeft: SUBSET Denoms, denomsLeft: Seq(Denoms)]
<1>1. (CHOOSE u \in Users : TRUE) \in Users
  BY CollateralAssumption
<1>2. <<>> \in Seq(Denoms)
  OBVIOUS
<1> QED
  BY <1>1, <1>2 DEF NoWork

LEMMA InitInv ==
  ASSUME Init
  PROVE  Inv
<1>1. 0 \in Nat /\ 1 \in Nat \ {0} /\ VaultFunds \in [Denoms -> Nat]
      /\ InitialCollateral \subseteq Denoms /\ ratio \in [Denoms -> Nat]
  BY CollateralAssumption DEF Init
<1>2. StoresOK
  <2>1. \A l \in Ltvs : l \in Nat
    BY CollateralAssumption, ScaleAssumption
  <2> QED
    BY <1>1, <2>1 DEF Init, StoresOK, PerUser, PerDenom
<1>3. IndexOK
  BY <1>1 DEF Init, IndexOK, PerUser, PerDenom
<1>4. PricesOK
  <2>1. \A d \in Denoms : ratio[d] > 0 => Quo(Scale, ratio[d]) > 0
    BY PriceAssumption DEF Init
  <2>2. \A d \in Denoms, u \in Users : ~(loans[d][u] > 0)
    BY DEF Init, PerUser, PerDenom
  <2> QED
    BY <2>1, <2>2 DEF Init, PricesOK
<1>5. WorkType
  <2>1. <<>> \in Seq(Denoms)
    OBVIOUS
  <2> QED
    BY <2>1, NoWorkType DEF Init, WorkType
<1>6. LoopOK /\ RepaidOK
  BY DEF Init, LoopOK, RepaidOK
<1>7. CollateralAccounting
  <2>1. ASSUME NEW d \in Denoms PROVE coins[d] + lost[d] = SumOf(collateral[d]) + settled[d]
    <3>1. collateral[d] = [u \in Users |-> 0] /\ coins[d] = 0 /\ lost[d] = 0 /\ settled[d] = 0
      BY DEF Init, PerUser, PerDenom
    <3>2. SumOf(collateral[d]) = 0
      BY <3>1, SumZero
    <3> QED
      BY <3>1, <3>2
  <2> QED
    BY <2>1 DEF CollateralAccounting
<1> QED
  BY <1>2, <1>3, <1>4, <1>5, <1>6, <1>7 DEF Inv

\* Interest, and the loans it writes off.
LEMMA InterestTypes ==
  ASSUME NEW a \in Nat, NEW rate \in Rates
  PROVE  /\ WithInterest(a, rate) \in Nat
         /\ WithInterest(a, rate) > 0 => a > 0 /\ a <= WithInterest(a, rate)
<1>1. rate \in Nat /\ MinimumLoanSize \in Nat
  BY CollateralAssumption
<1>2. Mul(a, rate) \in Nat
  BY <1>1, MulType
<1>3. a = 0 => Mul(a, rate) = 0
  <2>1. ToDec(0) = 0 /\ 0 * rate = 0
    BY <1>1, ScaleAssumption DEF ToDec
  <2>2. Mul(ToDec(0), rate) = 0 * rate
    BY <1>1, MulWhole
  <2> QED
    BY <2>1, <2>2
<1> QED
  BY <1>2, <1>3 DEF WithInterest

LEMMA BeginEndBlockKeeps ==
  ASSUME Inv, NEW rate \in Rates, NEW o \in SetToSeqs(DOMAIN ltv), BeginEndBlock(rate, o)
  PROVE  Inv'
<1> DEFINE interest(d, u) == WithInterest(loans[d][u], rate)
           off(d) == {u \in Users : loans[d][u] > 0 /\ ~(interest(d, u) > 0)}
           sum(d) == SumDec(Only(loans[d], off(d)))
<1>1. /\ phase' = "borrowers" /\ nextIndex' = nextIndex /\ order' = o
      /\ loans' = [d \in Denoms |-> [u \in Users |-> interest(d, u)]]
      /\ index' = [d \in Denoms |-> [u \in Users |-> IF interest(d, u) > 0 THEN index[d][u] ELSE 0]]
      /\ writtenOff' = [d \in Denoms |-> writtenOff[d] + sum(d)]
      /\ queue' = IF \A d \in DOMAIN ltv : ratio[d] > 0 THEN Borrowers(loans') ELSE {}
      /\ UNCHANGED <<collateral, banks, market, params, work, settled, lost>>
  BY DEF BeginEndBlock
<1>2. StoresOK /\ CollateralAccounting /\ PricesOK /\ IndexOK /\ WorkType
  BY InvParts
<1>3. \A d \in Denoms, u \in Users : loans[d][u] \in Nat /\ index[d][u] \in Nat
  BY <1>2 DEF StoresOK, IndexOK
<1>4. \A d \in Denoms, u \in Users :
        interest(d, u) \in Nat /\ (interest(d, u) > 0 => loans[d][u] > 0)
  BY <1>3, InterestTypes
<1>5. ASSUME NEW d \in Denoms PROVE sum(d) \in Nat
  <2> DEFINE f == Only(loans[d], off(d))
  <2>1. f \in [off(d) -> Nat]
    BY <1>3 DEF Only
  <2>2. IsFiniteSet(off(d))
    BY Finite, FS_Subset
  <2>3. SumDec(f) \in Nat
    <3> HIDE DEF f, off
    <3> QED
      BY <2>1, <2>2, SumDecNat
  <2> QED
    BY <2>3
<1> HIDE DEF interest, sum
<1>6. StoresOK'
  <2>1. loans' \in [Denoms -> [Users -> Nat]]
    BY <1>1, <1>4
  <2>2. writtenOff' \in [Denoms -> Nat]
    <3>1. \A d \in Denoms : writtenOff[d] \in Nat
      BY <1>2 DEF StoresOK
    <3> QED
      BY <1>1, <1>5, <3>1
  <2> QED
    BY <1>1, <1>2, <2>1, <2>2 DEF StoresOK, banks, market, params
<1>7. \A d \in Denoms, u \in Users :
        /\ loans'[d][u] = interest(d, u)
        /\ index'[d][u] = IF interest(d, u) > 0 THEN index[d][u] ELSE 0
  BY <1>1
<1>8. IndexOK'
  <2>1. nextIndex' \in Nat \ {0} /\ nextIndex' = nextIndex
    BY <1>1, <1>2 DEF IndexOK
  <2>2. index' \in [Denoms -> [Users -> Nat]]
    BY <1>1, <1>3
  <2>3. ASSUME NEW d \in Denoms, NEW u \in Users
        PROVE  index'[d][u] < nextIndex' /\ (index'[d][u] > 0 <=> loans'[d][u] > 0)
               /\ (index'[d][u] > 0 => index'[d][u] = index[d][u])
    <3>1. index[d][u] < nextIndex /\ (index[d][u] > 0 <=> loans[d][u] > 0)
          /\ nextIndex \in Nat \ {0}
      BY <1>2 DEF IndexOK
    <3> QED
      BY <1>3, <1>4, <1>7, <2>1, <3>1
  <2>4. ASSUME NEW c \in Denoms, NEW d \in Denoms, NEW u \in Users, NEW v \in Users,
               index'[c][u] > 0, index'[c][u] = index'[d][v]
        PROVE  c = d /\ u = v
    <3>1. index[c][u] > 0 /\ index[c][u] = index[d][v]
      BY <2>3, <2>4
    <3> QED
      BY <1>2, <3>1 DEF IndexOK
  <2> QED
    BY <2>1, <2>2, <2>3, <2>4 DEF IndexOK
<1>9. PricesOK'
  <2>1. ratio' = ratio /\ ltv' = ltv
    BY <1>1 DEF market, params
  <2>2. \A d \in Denoms, u \in Users : loans'[d][u] > 0 => ratio[d] > 0
    BY <1>2, <1>4, <1>7 DEF PricesOK
  <2>3. queue' # {} => \A d \in DOMAIN ltv : ratio[d] > 0
    BY <1>1
  <2> QED
    BY <1>2, <2>1, <2>2, <2>3 DEF PricesOK
<1>10. o \in Seq(DOMAIN ltv) /\ DOMAIN ltv \subseteq Denoms
  <2>1. DOMAIN ltv \subseteq Denoms
    BY <1>2 DEF StoresOK
  <2>2. Cardinality(DOMAIN ltv) \in Nat
    BY <2>1, Finite, FS_Subset, FS_CardinalityType
  <2>3. o \in [1..Cardinality(DOMAIN ltv) -> DOMAIN ltv]
    BY DEF SetToSeqs
  <2> QED
    BY <2>1, <2>2, <2>3
<1>11. o \in Seq(Denoms) /\ \A i \in 1..Len(o) : o[i] \in DOMAIN ltv
  <2>1. o \in [1..Len(o) -> DOMAIN ltv] /\ Len(o) \in Nat
    BY <1>10
  <2> QED
    BY <1>10, <2>1
<1>12. WorkType'
  <2>1. queue' \subseteq Users
    BY <1>1 DEF Borrowers
  <2> QED
    BY <1>1, <1>2, <1>11, <2>1 DEF WorkType
<1>13. LoopOK' /\ RepaidOK'
  BY <1>1, <1>11 DEF LoopOK, RepaidOK, AreCollateral, params
<1>14. CollateralAccounting'
  BY <1>1, <1>2, CollateralRests DEF banks
<1> QED
  BY <1>6, <1>8, <1>9, <1>12, <1>13, <1>14 DEF Inv

-----------------------------------------------------------------------------
(* Borrowers and loans.                                                    *)

\* What the loops leave alone.
LEMMA StoresRest ==
  ASSUME Inv, UNCHANGED <<positions, banks, market, params, history>>
  PROVE  /\ StoresOK' /\ IndexOK' /\ CollateralAccounting'
         /\ queue' \subseteq queue => PricesOK'
<1>1. StoresOK /\ IndexOK /\ CollateralAccounting /\ PricesOK
  BY InvParts
<1>2. UNCHANGED <<collateral, loanStore, loans, coins, vault, ratio, ltv, cap, settled, lost, writtenOff>>
  BY DEF positions, loanStore, banks, market, params, history
<1>3. StoresOK'
  BY <1>1, <1>2 DEF StoresOK
<1>4. IndexOK' /\ CollateralAccounting'
  BY <1>1, <1>2, IndexAtRest, CollateralRests
<1>5. queue' \subseteq queue => PricesOK'
  BY <1>1, <1>2 DEF PricesOK
<1> QED
  BY <1>3, <1>4, <1>5

LEMMA PassBorrowerKeeps ==
  ASSUME Inv, NEW u \in Users, PassBorrower(u)
  PROVE  Inv'
<1>1. /\ UNCHANGED <<positions, banks, market, params, history, phase, order, work>>
      /\ phase = "borrowers" /\ queue' = queue \ {u}
  BY DEF PassBorrower
<1>2. StoresOK' /\ IndexOK' /\ CollateralAccounting' /\ PricesOK'
  BY <1>1, StoresRest
<1>3. WorkType' /\ LoopOK' /\ RepaidOK'
  BY <1>1, InvParts DEF WorkType, LoopOK, RepaidOK, AreCollateral, params
<1> QED
  BY <1>2, <1>3 DEF Inv

LEMMA NextBlockKeeps ==
  ASSUME Inv, NextBlock
  PROVE  Inv'
<1>1. /\ UNCHANGED <<positions, banks, market, params, history, queue, work>>
      /\ phase' = "tx" /\ queue = {} /\ order' = <<>>
  BY DEF NextBlock
<1>2. StoresOK' /\ IndexOK' /\ CollateralAccounting' /\ PricesOK'
  BY <1>1, StoresRest
<1>3. WorkType' /\ LoopOK' /\ RepaidOK'
  BY <1>1, InvParts DEF WorkType, LoopOK, RepaidOK
<1> QED
  BY <1>2, <1>3 DEF Inv

LEMMA NoMoreLoansKeeps ==
  ASSUME Inv, NoMoreLoans
  PROVE  Inv'
<1>1. /\ UNCHANGED <<positions, banks, market, params, history, order>>
      /\ phase = "loans" /\ phase' = "borrowers" /\ queue' = queue \ {work.user}
      /\ work' = NoWork
  BY DEF NoMoreLoans
<1>2. StoresOK' /\ IndexOK' /\ CollateralAccounting' /\ PricesOK'
  BY <1>1, StoresRest
<1>3. WorkType' /\ LoopOK' /\ RepaidOK'
  BY <1>1, InvParts, NoWorkType DEF WorkType, LoopOK, RepaidOK, AreCollateral, params
<1> QED
  BY <1>2, <1>3 DEF Inv

LEMMA BeginBorrowerKeeps ==
  ASSUME Inv, NEW u \in Users, BeginBorrower(u)
  PROVE  Inv'
<1> DEFINE S == {d \in Denoms : loans[d][u] > 0}
           e == LoanBaseValue(u) - Mul(CollateralBaseValue(u), Discount)
<1>1. /\ UNCHANGED <<positions, banks, market, params, history, order, queue>>
      /\ phase = "borrowers" /\ phase' = "loans" /\ u \in queue
      /\ work' = [NoWork EXCEPT !.user = u, !.loansLeft = S, !.excessBase = e]
  BY DEF BeginBorrower
<1>2. StoresOK' /\ IndexOK' /\ CollateralAccounting' /\ PricesOK'
  BY <1>1, StoresRest
<1>3. e \in Int
  <2>1. StoresOK /\ PricesOK /\ \A d \in DOMAIN ltv : ratio[d] > 0
    BY <1>1, InvParts DEF PricesOK
  <2>2. LoanBaseValue(u) \in Nat /\ CollateralBaseValue(u) \in Nat
    BY <2>1, LoanBaseValueType, CollateralBaseValueType
  <2>3. Discount \in Nat
    BY CollateralAssumption, ScaleAssumption
  <2>4. Mul(CollateralBaseValue(u), Discount) \in Nat
    BY <2>2, <2>3, MulType
  <2> QED
    BY <2>2, <2>4
<1> HIDE DEF e
<1>4. /\ work' \in [user: Users, excessBase: Int, excess: Int, repaid: Int,
                    loansLeft: SUBSET Denoms, denomsLeft: Seq(Denoms)]
      /\ work'.user = u /\ work'.loansLeft = S
  <2>1. S \subseteq Denoms
    OBVIOUS
  <2> HIDE DEF S
  <2> QED
    BY <1>1, <1>3, <2>1, NoWorkType DEF NoWork
<1>5. WorkType'
  BY <1>1, <1>4, InvParts DEF WorkType
<1>6. LoopOK' /\ RepaidOK'
  <2>1. loans' = loans /\ ltv' = ltv
    BY <1>1 DEF positions, loanStore, params
  <2> QED
    BY <1>1, <1>4, <2>1, InvParts DEF LoopOK, RepaidOK, AreCollateral
<1> QED
  BY <1>2, <1>5, <1>6 DEF Inv

LEMMA BeginLoanKeeps ==
  ASSUME Inv, BeginLoan
  PROVE  Inv'
<1> DEFINE value == ValueInDenom(LoanDenom, RoundInt(work.excessBase))
           loan == loans[LoanDenom][work.user]
           e == MinDec(value, loan)
<1>1. /\ UNCHANGED <<positions, banks, market, params, history, order, queue>>
      /\ phase = "loans" /\ phase' = "denoms" /\ work.loansLeft # {}
      /\ work' = [work EXCEPT !.repaid = 0, !.denomsLeft = order, !.excess = e]
  BY DEF BeginLoan
<1>2. StoresOK' /\ IndexOK' /\ CollateralAccounting' /\ PricesOK'
  BY <1>1, StoresRest
<1>3. StoresOK /\ PricesOK /\ IndexOK /\ WorkType /\ LoopOK
  BY InvParts
<1>4. LoanDenom \in work.loansLeft /\ LoanDenom \in Denoms
  BY <1>1, <1>3, LoanDenomLeft
<1>5. /\ work.user \in Users /\ work.excessBase \in Int /\ loan \in Nat
      /\ loan > 0 /\ ratio[LoanDenom] > 0 /\ vault[LoanDenom] \in Nat
  BY <1>1, <1>3, <1>4 DEF WorkType, StoresOK, LoopOK, PricesOK
<1>6. e \in Int /\ e <= loan
  <2>1. value \in Int
    BY <1>3, <1>4, <1>5, IntTypes, ValueTypes
  <2>2. loan \in Int
    BY <1>5
  <2> HIDE DEF value, loan
  <2>3. MinDec(value, loan) \in Int /\ MinDec(value, loan) <= loan
    BY <2>1, <2>2, MinDecType
  <2> QED
    BY <2>3
<1> HIDE DEF e
<1>7. /\ WorkType' /\ work'.user = work.user /\ work'.loansLeft = work.loansLeft
      /\ work'.denomsLeft = order /\ work'.excess = e /\ work'.repaid = 0
  <2>1. order \in Seq(Denoms) /\ 0 \in Int
    BY <1>3 DEF WorkType
  <2>2. work \in [user: Users, excessBase: Int, excess: Int, repaid: Int,
                  loansLeft: SUBSET Denoms, denomsLeft: Seq(Denoms)]
    BY <1>3 DEF WorkType
  <2>3. work' = [work EXCEPT !.repaid = 0, !.denomsLeft = order, !.excess = e]
    BY <1>1
  <2>4. /\ work' \in [user: Users, excessBase: Int, excess: Int, repaid: Int,
                      loansLeft: SUBSET Denoms, denomsLeft: Seq(Denoms)]
        /\ work'.user = work.user /\ work'.loansLeft = work.loansLeft
        /\ work'.denomsLeft = order /\ work'.excess = e /\ work'.repaid = 0
    BY <1>6, <2>1, <2>2, <2>3
  <2> QED
    BY <1>1, <1>3, <2>4 DEF WorkType
<1>8. loans' = loans /\ index' = index /\ ltv' = ltv /\ vault' = vault
  BY <1>1 DEF positions, loanStore, params, banks
<1>9. LoopOK'
  BY <1>1, <1>3, <1>7, <1>8 DEF LoopOK, AreCollateral
<1>10. RepaidOK'
  <2>1. LoanDenom' = LoanDenom
    BY <1>7, <1>8 DEF LoanDenom
  <2>2. loans'[LoanDenom'][work'.user] = loan /\ vault'[LoanDenom'] = vault[LoanDenom]
    BY <1>7, <1>8, <2>1
  <2>3. ToDec(work'.repaid) = 0
    BY <1>7, ScaleAssumption DEF ToDec
  <2>4. ToDec(vault[LoanDenom]) \in Nat
    BY <1>5, ToDecNat
  <2> HIDE DEF loan
  <2>5. work'.excess + ToDec(work'.repaid) <= loan
        /\ ToDec(work'.repaid) <= loan + ToDec(vault[LoanDenom])
    BY <1>5, <1>6, <1>7, <2>3, <2>4
  <2> QED
    BY <2>2, <2>5 DEF RepaidOK
<1> QED
  BY <1>2, <1>7, <1>9, <1>10 DEF Inv

\* A round of the loop of liquidateLoan: what it works with.
LEMMA InRound ==
  ASSUME Inv, InLoop
  PROVE  /\ phase = "denoms" /\ work.user \in Users /\ work.user \in queue
         /\ work.excess \in Int /\ work.repaid \in Int
         /\ CollateralDenom \in DOMAIN ltv /\ CollateralDenom \in Denoms
         /\ LoanDenom \in work.loansLeft /\ LoanDenom \in Denoms
         /\ Found \in Nat
         /\ ratio[CollateralDenom] \in Nat /\ ratio[CollateralDenom] > 0
         /\ ratio[LoanDenom] \in Nat /\ ratio[LoanDenom] > 0
         /\ loans[LoanDenom][work.user] \in Nat
         /\ coins[CollateralDenom] \in Nat /\ vault[LoanDenom] \in Nat
         /\ lost[CollateralDenom] \in Nat /\ settled[LoanDenom] \in Int
<1>1. StoresOK /\ PricesOK /\ IndexOK /\ WorkType /\ LoopOK
  BY InvParts
<1>2. /\ phase = "denoms" /\ work.denomsLeft # <<>>
  BY DEF InLoop
<1>3. /\ work.user \in Users /\ work.user \in queue /\ work.excess \in Int /\ work.repaid \in Int
      /\ work.loansLeft # {} /\ AreCollateral(work.denomsLeft)
      /\ work.denomsLeft \in Seq(Denoms)
  BY <1>1, <1>2 DEF WorkType, LoopOK
<1>4. CollateralDenom \in DOMAIN ltv
  <2>1. Len(work.denomsLeft) \in Nat /\ Len(work.denomsLeft) > 0
    BY <1>2, <1>3
  <2>2. CollateralDenom = work.denomsLeft[1]
    BY <1>2, <1>3, <2>1 DEF CollateralDenom
  <2> QED
    BY <1>3, <2>1, <2>2 DEF AreCollateral
<1>5. CollateralDenom \in Denoms
  BY <1>1, <1>4 DEF StoresOK
<1>6. LoanDenom \in work.loansLeft /\ LoanDenom \in Denoms
  BY <1>1, <1>3, LoanDenomLeft
<1>7. loans[LoanDenom][work.user] > 0
  BY <1>1, <1>2, <1>6 DEF LoopOK
<1>8. ratio[CollateralDenom] > 0 /\ ratio[LoanDenom] > 0
  BY <1>1, <1>3, <1>4, <1>6, <1>7 DEF PricesOK
<1> HIDE DEF CollateralDenom, LoanDenom
<1>9. Found \in Nat
  BY <1>1, <1>3, <1>5 DEF Found, StoresOK
<1>10. /\ ratio[CollateralDenom] \in Nat /\ ratio[LoanDenom] \in Nat
       /\ loans[LoanDenom][work.user] \in Nat
       /\ coins[CollateralDenom] \in Nat /\ vault[LoanDenom] \in Nat
       /\ lost[CollateralDenom] \in Nat /\ settled[LoanDenom] \in Int
  BY <1>1, <1>3, <1>5, <1>6 DEF StoresOK
<1> QED
  BY <1>2, <1>3, <1>4, <1>5, <1>6, <1>8, <1>9, <1>10

\* And what every round leaves behind.
LEMMA AfterRound ==
  ASSUME Inv, InLoop, NEW e \in Int, NEW r \in Int,
         work' = [work EXCEPT !.denomsLeft = Tail(work.denomsLeft), !.excess = e, !.repaid = r],
         UNCHANGED <<loanStore, params, phase, queue, order>>
  PROVE  /\ WorkType' /\ LoopOK' /\ IndexOK'
         /\ LoanDenom' = LoanDenom /\ work'.user = work.user
         /\ work'.excess = e /\ work'.repaid = r
<1>1. IndexOK /\ WorkType /\ LoopOK
  BY InvParts
<1>2. /\ phase = "denoms" /\ work.denomsLeft # <<>>
  BY DEF InLoop
<1>3. work.denomsLeft \in Seq(Denoms) /\ AreCollateral(work.denomsLeft)
  BY <1>1, <1>2 DEF WorkType, LoopOK
<1> DEFINE t == Tail(work.denomsLeft)
<1>4. t \in Seq(Denoms)
  BY <1>2, <1>3
<1>5. \A i \in 1..Len(t) : t[i] \in DOMAIN ltv
  <2>1. Len(t) = Len(work.denomsLeft) - 1 /\ Len(work.denomsLeft) \in Nat
        /\ Len(work.denomsLeft) > 0
    BY <1>2, <1>3
  <2>2. ASSUME NEW i \in 1..Len(t) PROVE t[i] \in DOMAIN ltv
    <3>1. t[i] = work.denomsLeft[i + 1]
      BY <1>2, <1>3, <2>1
    <3>2. i + 1 \in 1..Len(work.denomsLeft)
      BY <2>1
    <3> QED
      BY <1>3, <3>1, <3>2 DEF AreCollateral
  <2> QED
    BY <2>2
<1> HIDE DEF t
<1>6. work' = [work EXCEPT !.denomsLeft = t, !.excess = e, !.repaid = r]
  BY DEF t
<1>7. /\ work' \in [user: Users, excessBase: Int, excess: Int, repaid: Int,
                    loansLeft: SUBSET Denoms, denomsLeft: Seq(Denoms)]
      /\ work'.user = work.user /\ work'.loansLeft = work.loansLeft
      /\ work'.denomsLeft = t /\ work'.excess = e /\ work'.repaid = r
  BY <1>1, <1>4, <1>6 DEF WorkType
<1>8. WorkType'
  BY <1>1, <1>7 DEF WorkType
<1>9. loans' = loans /\ index' = index /\ ltv' = ltv
  BY DEF loanStore, params
<1>10. LoopOK'
  BY <1>1, <1>2, <1>5, <1>7, <1>9 DEF LoopOK, AreCollateral
<1>11. IndexOK'
  BY <1>1, IndexAtRest
<1>12. LoanDenom' = LoanDenom
  BY <1>7, <1>9 DEF LoanDenom
<1> QED
  BY <1>7, <1>8, <1>10, <1>11, <1>12

LEMMA ToDecAdd ==
  ASSUME NEW a \in Int, NEW b \in Int
  PROVE  /\ ToDec(a) \in Int /\ ToDec(b) \in Int
         /\ ToDec(a + b) = ToDec(a) + ToDec(b)
         /\ ToDec(-a) = -ToDec(a)
<1>1. Scale \in Int
  BY ScaleAssumption
<1> QED
  BY <1>1 DEF ToDec

LEMMA ToDecMonotone ==
  ASSUME NEW a \in Int, NEW b \in Int, a <= b
  PROVE  ToDec(a) <= ToDec(b)
<1>1. Scale \in Nat
  BY ScaleAssumption
<1> DEFINE c == b - a
<1>2. c \in Nat /\ b = a + c
  OBVIOUS
<1> HIDE DEF c
<1>3. ToDec(b) = ToDec(a) + ToDec(c) /\ ToDec(a) \in Int /\ ToDec(c) \in Nat
  BY <1>2, ToDecAdd, ToDecNat
<1> QED
  BY <1>3

LEMMA TruncateBounds ==
  ASSUME NEW a \in Int
  PROVE  /\ TruncateInt(a) \in Int
         /\ a >= 0 => ToDec(TruncateInt(a)) <= a
         /\ a < 0 => ToDec(TruncateInt(a)) <= 0
<1>1. TruncateInt(a) \in Int
  BY IntTypes
<1>2. CASE a >= 0
  BY <1>1, <1>2, RoundTruncate DEF ToDec
<1>3. CASE a < 0
  <2>1. TruncateInt(a) <= 0
    <3>1. -a \in Nat /\ Scale \in Nat /\ Scale > 0
      BY <1>3, ScaleAssumption
    <3>2. (-a) \div Scale \in Nat
      BY <3>1, DivMod
    <3> QED
      BY <1>3, <3>2 DEF TruncateInt
  <2>2. ToDec(0) = 0
    BY ScaleAssumption DEF ToDec
  <2> QED
    BY <1>1, <1>3, <2>1, <2>2, ToDecMonotone
<1> QED
  BY <1>1, <1>2, <1>3

LEMMA RepayFromSameDenomKeeps ==
  ASSUME Inv, RepayFromSameDenom
  PROVE  Inv'
<1> DEFINE t == TruncateInt(work.excess)
           amount == IF t < Found THEN t ELSE Found
           D == CollateralDenom
           u == work.user
<1>1. /\ InLoop /\ Found > 0 /\ D = LoanDenom /\ RoundDone(amount, amount)
      /\ settled' = [settled EXCEPT ![LoanDenom] = settled[LoanDenom] + amount]
      /\ UNCHANGED <<loanStore, banks, market, params, phase, queue, order, lost, writtenOff>>
  BY DEF RepayFromSameDenom, Add
<1>2. /\ phase = "denoms" /\ u \in Users /\ work.excess \in Int /\ work.repaid \in Int
      /\ D \in Denoms /\ Found \in Nat /\ loans[D][u] \in Nat /\ vault[D] \in Nat
      /\ settled[D] \in Int
  BY <1>1, InRound
<1>3. StoresOK /\ PricesOK /\ RepaidOK /\ CollateralAccounting
  BY InvParts
<1>4. t \in Int /\ (work.excess >= 0 => ToDec(t) <= work.excess)
      /\ (work.excess < 0 => ToDec(t) <= 0)
  BY <1>2, TruncateBounds
<1>5. amount \in Int /\ amount <= Found /\ amount <= t
  <2> HIDE DEF t
  <2> QED
    BY <1>2, <1>4
<1> HIDE DEF amount
<1>6. ToDec(amount) <= ToDec(t) /\ ToDec(amount) \in Int /\ ToDec(t) \in Int
  <2> HIDE DEF t
  <2> QED
    BY <1>4, <1>5, ToDecMonotone, ToDecAdd
<1> DEFINE e == work.excess - ToDec(amount)
           r == work.repaid + amount
           v == Kept(Found - amount)
<1>7. /\ collateral' = [collateral EXCEPT ![D][u] = v]
      /\ work' = [work EXCEPT !.denomsLeft = Tail(work.denomsLeft), !.excess = e, !.repaid = r]
  BY <1>1 DEF RoundDone, Found
<1>8. e \in Int /\ r \in Int
  BY <1>2, <1>5, <1>6
<1>9. v \in Nat /\ v = Found - amount
  BY <1>2, <1>5 DEF Kept
<1>10. /\ WorkType' /\ LoopOK' /\ IndexOK' /\ LoanDenom' = LoanDenom /\ work'.user = u
       /\ work'.excess = e /\ work'.repaid = r
  <2> HIDE DEF e, r
  <2> QED
    BY <1>1, <1>7, <1>8, AfterRound
<1>11. /\ settled' \in [Denoms -> Int] /\ settled'[D] = settled[D] + amount
       /\ \A c \in Denoms : c # D => settled'[c] = settled[c]
  BY <1>1, <1>2, <1>3, <1>5 DEF StoresOK
<1>12. coins' = coins /\ vault' = vault /\ ratio' = ratio /\ loans' = loans
       /\ ltv' = ltv /\ cap' = cap
  BY <1>1 DEF banks, market, loanStore, params
<1>13. collateral' \in [Denoms -> [Users -> Nat]] /\ CollateralAccounting'
  <2>1. \A c \in Denoms : coins[c] \in Nat /\ lost[c] \in Nat /\ settled[c] \in Int
    BY <1>3 DEF StoresOK
  <2>2. \A c \in Denoms : coins'[c] \in Int /\ lost'[c] \in Int /\ settled'[c] \in Int
    BY <1>1, <1>11, <1>12, <2>1
  <2>3. (coins'[D] + lost'[D]) - settled'[D]
          = ((coins[D] + lost[D]) - settled[D]) + (v - collateral[D][u])
    <3>1. collateral[D][u] = Found
      BY DEF Found
    <3> HIDE DEF v, D, u
    <3>2. coins'[D] = coins[D] /\ lost'[D] = lost[D] /\ settled'[D] = settled[D] + amount
          /\ v = Found - amount /\ coins[D] \in Nat /\ lost[D] \in Nat /\ settled[D] \in Int
      BY <1>1, <1>2, <1>9, <1>11, <1>12, <2>1
    <3> QED
      BY <1>2, <1>5, <3>1, <3>2
  <2> HIDE DEF v, D, u
  <2> QED
    BY <1>1, <1>2, <1>3, <1>7, <1>9, <1>11, <1>12, <2>2, <2>3, CollateralMoves
<1>14. StoresOK'
  BY <1>1, <1>3, <1>11, <1>12, <1>13 DEF StoresOK
<1>15. PricesOK'
  BY <1>1, <1>3, <1>12 DEF PricesOK
<1>16. RepaidOK'
  <2> DEFINE L == loans[D][u]
             V == ToDec(vault[D])
             R == ToDec(work.repaid)
             A == ToDec(amount)
  <2>1. loans'[LoanDenom'][work'.user] = L /\ vault'[LoanDenom'] = vault[D]
    BY <1>1, <1>10, <1>12
  <2>2. work.excess + R <= L /\ R <= L + V
    BY <1>1, <1>2, <1>3 DEF RepaidOK
  <2>3. ToDec(r) = R + A /\ R \in Int
    BY <1>2, <1>5, ToDecAdd
  <2>4. V \in Nat
    BY <1>2, ToDecNat
  <2>5. A \in Int /\ (work.excess >= 0 => A <= work.excess) /\ (work.excess < 0 => A <= 0)
    <3> HIDE DEF t
    <3> QED
      BY <1>2, <1>4, <1>6
  <2>6. e = work.excess - A /\ L \in Nat
    BY <1>2
  <2>7. e + ToDec(r) <= L /\ ToDec(r) <= L + V
    <3> HIDE DEF L, V, R, A, e, r
    <3> QED
      BY <1>2, <2>2, <2>3, <2>4, <2>5, <2>6
  <2> QED
    BY <1>10, <2>1, <2>7 DEF RepaidOK
<1> QED
  BY <1>10, <1>13, <1>14, <1>15, <1>16 DEF Inv

\* What a sale may give: coins that PoolCollateral and the borrower have.
LEMMA Given ==
  ASSUME Inv, ToSell, NEW given \in GivenAmounts
  PROVE  /\ given \in Nat /\ given > 0
         /\ given <= Found /\ given <= coins[CollateralDenom]
<1> DEFINE x == RoundInt(work.excess)
           q == Quo(ToDec(x), ratio[LoanDenom])
           m == Mul(q, ratio[CollateralDenom])
           simulated == TruncateInt(m)
<1>1. /\ work.excess \in Int /\ Found \in Nat /\ coins[CollateralDenom] \in Nat
      /\ ratio[CollateralDenom] \in Nat /\ ratio[LoanDenom] \in Nat /\ ratio[LoanDenom] > 0
  BY InRound DEF ToSell
<1>2. ToDec(x) \in Int
  BY <1>1, IntTypes
<1>3. q \in Int
  <2> HIDE DEF x
  <2> QED
    BY <1>1, <1>2, QuoInt
<1>4. m \in Int
  <2>1. ratio[CollateralDenom] \in Int
    BY <1>1
  <2> HIDE DEF q
  <2> QED
    BY <1>3, <2>1, MulInt
<1>5. simulated \in Int
  <2> HIDE DEF m
  <2> QED
    BY <1>4, IntTypes
<1>6. AmountToGive = IF simulated < Found THEN simulated ELSE Found
  BY DEF AmountToGive, Converted
<1>7. AmountToGive \in Int /\ AmountToGive <= Found
  <2> HIDE DEF simulated
  <2> QED
    BY <1>1, <1>5, <1>6
<1>8. /\ given = AmountToGive \/ (given \in Depths /\ given < AmountToGive)
      /\ given >= MinTradeAmount /\ given <= coins[CollateralDenom]
  BY DEF GivenAmounts
<1>9. Depths \subseteq Nat /\ MinTradeAmount \in Nat /\ MinTradeAmount > 0
  BY CollateralAssumption
<1>10. given \in Int /\ given <= AmountToGive
  <2> DEFINE a == AmountToGive
  <2>1. a \in Int /\ (given = a \/ (given \in Depths /\ given < a))
    BY <1>7, <1>8
  <2> HIDE DEF a
  <2>2. given \in Int
    <3>1. \A n \in Depths : n \in Int
      BY <1>9
    <3>2. CASE given = a
      BY <2>1, <3>2
    <3>3. CASE given \in Depths
      BY <3>1, <3>3
    <3> QED
      BY <2>1, <3>2, <3>3
  <2>3. given <= a
    BY <2>1, <2>2
  <2> QED
    BY <2>2, <2>3 DEF a
<1>11. given \in Nat /\ given > 0
  BY <1>8, <1>9, <1>10
<1>12. given <= Found
  BY <1>1, <1>7, <1>10
<1> QED
  BY <1>8, <1>11, <1>12

\* What a trade uses of it, and what it moves.
LEMMA Used ==
  ASSUME Inv, ToSell, NEW given \in GivenAmounts, NEW used \in UsedAmounts(given)
  PROVE  /\ used \in Nat /\ used <= given /\ used <= Found
         /\ Sent(given, used) \in Nat /\ used <= Sent(given, used)
         /\ Sent(given, used) <= coins[CollateralDenom]
<1>1. /\ given \in Nat /\ given <= Found /\ given <= coins[CollateralDenom]
      /\ Found \in Nat /\ coins[CollateralDenom] \in Nat
  BY Given, InRound DEF ToSell
<1>2. used >= 0 /\ \E x \in Unused : used = given - x
  BY DEF UsedAmounts
<1>3. \A x \in Unused : x \in Nat
  BY CollateralAssumption
<1>4. used \in Nat /\ used <= given
  BY <1>1, <1>2, <1>3
<1>5. Sent(given, used) = given \/ Sent(given, used) = used
  BY DEF Sent
<1> QED
  BY <1>1, <1>4, <1>5

LEMMA ReceivedType ==
  ASSUME Inv, ToSell, NEW used \in Nat, NEW yield \in Yields
  PROVE  Received(used, yield) \in Nat
<1> DEFINE q == Quo(ToDec(used), ratio[CollateralDenom])
           m == Mul(q, ratio[LoanDenom])
           n == Mul(m, yield)
<1>1. /\ ratio[CollateralDenom] \in Nat /\ ratio[CollateralDenom] > 0 /\ ratio[LoanDenom] \in Nat
      /\ yield \in Nat
  BY InRound, CollateralAssumption DEF ToSell
<1>2. q \in Nat
  BY <1>1, ToDecNat, QuoType
<1>3. m \in Nat
  <2> HIDE DEF q
  <2> QED
    BY <1>1, <1>2, MulType
<1>4. n \in Nat
  <2> HIDE DEF m
  <2> QED
    BY <1>1, <1>3, MulType
<1>5. TruncateInt(n) \in Nat
  <2> HIDE DEF n
  <2> QED
    BY <1>4, RoundTruncate
<1> QED
  BY <1>5 DEF Received, Converted

\* The ratios after a sale are ratios with a price.
LEMMA SoldRatios ==
  ASSUME Inv, ToSell, PricesMove
  PROVE  /\ ratio' \in [Denoms -> Nat]
         /\ \A c \in Denoms : ratio'[c] > 0 => Quo(Scale, ratio'[c]) > 0
         /\ \A c \in Denoms : ratio[c] > 0 => ratio'[c] > 0
<1> DEFINE C == CollateralDenom
           D == LoanDenom
<1>1. /\ C \in Denoms /\ D \in Denoms
      /\ ratio[C] \in Nat /\ ratio[C] > 0 /\ ratio[D] \in Nat /\ ratio[D] > 0
  BY InRound DEF ToSell
<1>2. /\ ratio \in [Denoms -> Nat]
      /\ \A c \in Denoms : ratio[c] > 0 => Quo(Scale, ratio[c]) > 0
  BY InvParts DEF StoresOK, PricesOK
<1>3. PICK down \in RatiosOf(C), up \in RatiosOf(D) :
        ratio' = [ratio EXCEPT ![C] = down, ![D] = up]
  BY DEF PricesMove
<1> HIDE DEF C, D
<1>4. \A r \in Ratios : r \in Nat /\ r > 0 /\ Quo(Scale, r) > 0
  BY CollateralAssumption, PriceAssumption
<1>5. down \in Nat /\ down > 0 /\ Quo(Scale, down) > 0
  BY <1>1, <1>2, <1>4 DEF RatiosOf
<1>6. up \in Nat /\ up > 0 /\ Quo(Scale, up) > 0
  BY <1>1, <1>2, <1>4 DEF RatiosOf
<1> QED
  BY <1>2, <1>3, <1>5, <1>6

LEMMA SellCollateralKeeps ==
  ASSUME Inv, NEW given \in GivenAmounts, NEW used \in UsedAmounts(given),
         NEW yield \in Yields, SellCollateral(given, used, yield)
  PROVE  Inv'
<1> DEFINE received == Received(used, yield)
           sent == Sent(given, used)
           C == CollateralDenom
           D == LoanDenom
           u == work.user
<1>1. /\ ToSell /\ InLoop /\ C # D /\ RoundDone(used, received)
      /\ coins' = [coins EXCEPT ![C] = coins[C] + -sent]
      /\ lost' = [lost EXCEPT ![C] = lost[C] + (sent - used)]
      /\ vault' = [vault EXCEPT ![D] = vault[D] + received]
      /\ PricesMove
      /\ UNCHANGED <<loanStore, params, phase, queue, order, settled, writtenOff>>
  BY DEF SellCollateral, ToSell, Add
<1>2. /\ phase = "denoms" /\ u \in Users /\ work.excess \in Int /\ work.repaid \in Int
      /\ C \in Denoms /\ D \in Denoms /\ Found \in Nat /\ loans[D][u] \in Nat
      /\ vault[D] \in Nat /\ coins[C] \in Nat /\ lost[C] \in Nat /\ settled[D] \in Int
  BY <1>1, InRound
<1>3. StoresOK /\ PricesOK /\ RepaidOK /\ CollateralAccounting
  BY InvParts
<1>4. /\ used \in Nat /\ used <= Found
      /\ sent \in Nat /\ used <= sent /\ sent <= coins[C]
  BY <1>1, Used
<1>5. received \in Nat
  BY <1>1, <1>4, ReceivedType
<1> HIDE DEF received, sent
<1> DEFINE e == work.excess - ToDec(received)
           r == work.repaid + received
           v == Kept(Found - used)
<1>6. /\ collateral' = [collateral EXCEPT ![C][u] = v]
      /\ work' = [work EXCEPT !.denomsLeft = Tail(work.denomsLeft), !.excess = e, !.repaid = r]
  BY <1>1 DEF RoundDone, Found
<1>7. ToDec(received) \in Nat /\ received \in Int
  BY <1>5, ToDecNat
<1>8. e \in Int /\ r \in Int
  BY <1>2, <1>7
<1>9. v \in Nat /\ v = Found - used
  BY <1>2, <1>4 DEF Kept
<1>10. /\ WorkType' /\ LoopOK' /\ IndexOK' /\ LoanDenom' = LoanDenom /\ work'.user = u
       /\ work'.excess = e /\ work'.repaid = r
  <2> HIDE DEF e, r
  <2> QED
    BY <1>1, <1>6, <1>8, AfterRound
<1>11. /\ coins' \in [Denoms -> Nat] /\ coins'[C] = coins[C] - sent
       /\ \A c \in Denoms : c # C => coins'[c] = coins[c]
       /\ lost' \in [Denoms -> Nat] /\ lost'[C] = lost[C] + (sent - used)
       /\ \A c \in Denoms : c # C => lost'[c] = lost[c]
  <2>1. coins[C] + -sent \in Nat /\ lost[C] + (sent - used) \in Nat
    BY <1>2, <1>4
  <2> QED
    BY <1>1, <1>2, <1>3, <1>4, <2>1 DEF StoresOK
<1>12. vault' \in [Denoms -> Nat] /\ vault'[D] = vault[D] + received
  BY <1>1, <1>2, <1>3, <1>5 DEF StoresOK
<1>13. loans' = loans /\ ltv' = ltv /\ cap' = cap /\ settled' = settled
       /\ writtenOff' = writtenOff
  BY <1>1 DEF loanStore, params
<1>14. /\ ratio' \in [Denoms -> Nat]
       /\ \A c \in Denoms : ratio'[c] > 0 => Quo(Scale, ratio'[c]) > 0
       /\ \A c \in Denoms : ratio[c] > 0 => ratio'[c] > 0
  BY <1>1, SoldRatios
<1>15. collateral' \in [Denoms -> [Users -> Nat]] /\ CollateralAccounting'
  <2>1. \A c \in Denoms : coins[c] \in Nat /\ lost[c] \in Nat /\ settled[c] \in Int
    BY <1>3 DEF StoresOK
  <2>2. \A c \in Denoms : coins'[c] \in Int /\ lost'[c] \in Int /\ settled'[c] \in Int
    BY <1>11, <1>13, <2>1
  <2>3. (coins'[C] + lost'[C]) - settled'[C]
          = ((coins[C] + lost[C]) - settled[C]) + (v - collateral[C][u])
    <3>1. collateral[C][u] = Found
      BY DEF Found
    <3> HIDE DEF v, C, u
    <3>2. coins'[C] = coins[C] - sent /\ lost'[C] = lost[C] + (sent - used) /\ settled'[C] = settled[C]
          /\ v = Found - used /\ coins[C] \in Nat /\ lost[C] \in Nat /\ settled[C] \in Int
      BY <1>2, <1>9, <1>11, <1>13, <2>1
    <3> QED
      BY <1>2, <1>4, <3>1, <3>2
  <2> HIDE DEF v, C, D, u
  <2> QED
    BY <1>2, <1>3, <1>6, <1>9, <1>11, <1>13, <2>2, <2>3, CollateralMoves
<1>16. StoresOK'
  BY <1>3, <1>11, <1>12, <1>13, <1>14, <1>15 DEF StoresOK
<1>17. PricesOK'
  <2>1. DOMAIN ltv \subseteq Denoms
    BY <1>3 DEF StoresOK
  <2>2. queue' = queue
    BY <1>1
  <2> QED
    BY <1>3, <1>13, <1>14, <2>1, <2>2 DEF PricesOK
<1>18. RepaidOK'
  <2> DEFINE L == loans[D][u]
             V == ToDec(vault[D])
             W == ToDec(vault'[D])
             R == ToDec(work.repaid)
             A == ToDec(received)
  <2>1. loans'[LoanDenom'][work'.user] = L /\ vault'[LoanDenom'] = vault'[D]
    BY <1>10, <1>13
  <2>2. work.excess + R <= L /\ R <= L + V
    BY <1>2, <1>3 DEF RepaidOK
  <2>3. ToDec(r) = R + A /\ R \in Int
    BY <1>2, <1>7, ToDecAdd
  <2>4. W = V + A
    <3>1. vault[D] \in Int
      BY <1>2
    <3> QED
      BY <1>7, <1>12, <3>1, ToDecAdd
  <2>5. V \in Nat /\ A \in Nat /\ L \in Nat
    BY <1>2, <1>7, ToDecNat
  <2>6. e = work.excess - A
    OBVIOUS
  <2>7. e + ToDec(r) <= L /\ ToDec(r) <= L + W
    <3> HIDE DEF L, V, W, R, A, e, r
    <3> QED
      BY <1>2, <2>2, <2>3, <2>4, <2>5, <2>6
  <2> QED
    BY <1>10, <2>1, <2>7 DEF RepaidOK
<1> QED
  BY <1>10, <1>15, <1>16, <1>17, <1>18 DEF Inv

LEMMA SellFailsHalfwayKeeps ==
  ASSUME Inv, NEW given \in GivenAmounts, NEW used \in UsedAmounts(given),
         SellFailsHalfway(given, used)
  PROVE  Inv'
<1> DEFINE C == CollateralDenom
           sent == Sent(given, used)
<1>1. /\ ToSell /\ InLoop
      /\ coins' = [coins EXCEPT ![C] = coins[C] + -sent]
      /\ lost' = [lost EXCEPT ![C] = lost[C] + sent]
      /\ work' = [work EXCEPT !.denomsLeft = Tail(work.denomsLeft)]
      /\ UNCHANGED <<positions, vault, market, params, phase, queue, order, settled, writtenOff>>
  BY DEF SellFailsHalfway, ToSell, Add
<1>2. /\ phase = "denoms" /\ C \in Denoms /\ coins[C] \in Nat /\ lost[C] \in Nat
      /\ work.excess \in Int /\ work.repaid \in Int
  BY <1>1, InRound
<1>3. StoresOK /\ PricesOK /\ RepaidOK /\ CollateralAccounting /\ WorkType
  BY InvParts
<1>4. sent \in Nat /\ sent <= coins[C]
  BY <1>1, Used
<1> HIDE DEF sent
<1>5. work' = [work EXCEPT !.denomsLeft = Tail(work.denomsLeft), !.excess = work.excess,
                           !.repaid = work.repaid]
  BY <1>1, <1>3 DEF WorkType
<1>6. /\ WorkType' /\ LoopOK' /\ IndexOK' /\ LoanDenom' = LoanDenom /\ work'.user = work.user
      /\ work'.excess = work.excess /\ work'.repaid = work.repaid
  BY <1>1, <1>2, <1>5, AfterRound DEF positions
<1>7. /\ coins' \in [Denoms -> Nat] /\ lost' \in [Denoms -> Nat]
      /\ \A c \in Denoms : coins'[c] + lost'[c] = coins[c] + lost[c]
  <2>1. coins \in [Denoms -> Nat] /\ lost \in [Denoms -> Nat]
    BY <1>3 DEF StoresOK
  <2>2. coins[C] + -sent \in Nat /\ lost[C] + sent \in Nat
        /\ (coins[C] + -sent) + (lost[C] + sent) = coins[C] + lost[C]
    BY <1>2, <1>4
  <2> HIDE DEF C
  <2> QED
    BY <1>1, <1>2, <2>1, <2>2
<1>8. collateral' = collateral /\ loans' = loans /\ vault' = vault /\ ratio' = ratio
      /\ ltv' = ltv /\ cap' = cap /\ settled' = settled /\ writtenOff' = writtenOff
      /\ queue' = queue
  BY <1>1 DEF positions, loanStore, market, params
<1>9. StoresOK'
  BY <1>3, <1>7, <1>8 DEF StoresOK
<1>10. PricesOK'
  BY <1>3, <1>8 DEF PricesOK
<1>11. RepaidOK'
  BY <1>1, <1>3, <1>6, <1>8 DEF RepaidOK
<1>12. CollateralAccounting'
  BY <1>3, <1>7, <1>8 DEF CollateralAccounting
<1> QED
  BY <1>6, <1>9, <1>10, <1>11, <1>12 DEF Inv

LEMMA SkipDenomKeeps ==
  ASSUME Inv, SkipDenom
  PROVE  Inv'
<1>1. /\ InLoop
      /\ work' = [work EXCEPT !.denomsLeft = Tail(work.denomsLeft)]
      /\ UNCHANGED <<positions, banks, market, params, phase, queue, order, history>>
  BY DEF SkipDenom
<1>2. phase = "denoms" /\ work.excess \in Int /\ work.repaid \in Int
  BY <1>1, InRound
<1>3. RepaidOK /\ WorkType
  BY InvParts
<1>4. work' = [work EXCEPT !.denomsLeft = Tail(work.denomsLeft), !.excess = work.excess,
                           !.repaid = work.repaid]
  BY <1>1, <1>3 DEF WorkType
<1>5. /\ WorkType' /\ LoopOK' /\ LoanDenom' = LoanDenom /\ work'.user = work.user
      /\ work'.excess = work.excess /\ work'.repaid = work.repaid
  BY <1>1, <1>2, <1>4, AfterRound DEF positions
<1>6. StoresOK' /\ IndexOK' /\ CollateralAccounting' /\ PricesOK'
  BY <1>1, StoresRest
<1>7. RepaidOK'
  BY <1>1, <1>3, <1>5 DEF RepaidOK, positions, loanStore, banks
<1> QED
  BY <1>5, <1>6, <1>7 DEF Inv

LEMMA PanicKeeps ==
  ASSUME Inv, PanicOnEmptyPools
  PROVE  Inv'
<1>1. UNCHANGED <<positions, banks, market, params, phase, queue, order, work, history>>
  BY DEF PanicOnEmptyPools
<1>2. StoresOK' /\ IndexOK' /\ CollateralAccounting' /\ PricesOK'
  BY <1>1, StoresRest
<1>3. loans' = loans /\ index' = index /\ vault' = vault /\ ltv' = ltv
  BY <1>1 DEF positions, loanStore, banks, params
<1>4. WorkType' /\ LoopOK'
  BY <1>1, <1>3, InvParts DEF WorkType, LoopOK, AreCollateral
<1>5. RepaidOK'
  BY <1>1, <1>3, InvParts DEF RepaidOK, LoanDenom
<1> QED
  BY <1>2, <1>4, <1>5 DEF Inv

\* The end of liquidateLoan: the vault has what it pays back.
LEMMA FinishLoanKeeps ==
  ASSUME Inv, FinishLoan
  PROVE  Inv'
<1> DEFINE D == LoanDenom
           u == work.user
           rest == loans[D][u] - ToDec(work.repaid)
           refund == IF rest < 0 THEN -RoundInt(-rest) ELSE 0
           value == ValueInBase(D, work.repaid)
<1>1. /\ phase = "denoms" /\ phase' = "loans" /\ SetLoan(u, D, rest)
      /\ vault' = [vault EXCEPT ![D] = vault[D] + refund]
      /\ work' = [work EXCEPT !.loansLeft = work.loansLeft \ {D}, !.excess = 0, !.repaid = 0,
                              !.excessBase = work.excessBase - value]
      /\ UNCHANGED <<collateral, coins, market, params, queue, order, history>>
  BY DEF FinishLoan, Add
<1>2. StoresOK /\ PricesOK /\ IndexOK /\ WorkType /\ LoopOK /\ RepaidOK /\ CollateralAccounting
  BY InvParts
<1>3. work.loansLeft # {} /\ u \in queue /\ u \in Users /\ work.repaid \in Int
      /\ work.excessBase \in Int /\ \A d \in work.loansLeft : loans[d][u] > 0
  BY <1>1, <1>2 DEF LoopOK, WorkType
<1>4. D \in work.loansLeft /\ D \in Denoms /\ work.loansLeft \subseteq Denoms
  BY <1>2, <1>3, LoanDenomLeft DEF WorkType
<1>5. loans[D][u] \in Nat /\ loans[D][u] > 0 /\ ratio[D] > 0 /\ vault[D] \in Nat
  BY <1>2, <1>3, <1>4 DEF StoresOK, PricesOK
<1>6. ToDec(work.repaid) \in Int /\ ToDec(work.repaid) <= loans[D][u] + ToDec(vault[D])
      /\ ToDec(vault[D]) \in Nat
  BY <1>1, <1>2, <1>3, <1>5, IntTypes, ToDecNat DEF RepaidOK
<1>7. rest \in Int /\ -rest <= ToDec(vault[D])
  BY <1>5, <1>6
<1>8. value \in Int
  BY <1>2, <1>3, <1>4, <1>5, ValueTypes
<1> HIDE DEF rest, value
<1>9. vault[D] + refund \in Nat
  <2>1. CASE rest < 0
    <3>1. -rest \in Nat
      BY <1>7, <2>1
    <3>2. RoundInt(-rest) <= vault[D] /\ RoundInt(-rest) \in Nat
      BY <1>5, <1>7, <3>1, RoundBelow, RoundTruncate
    <3> QED
      BY <1>5, <2>1, <3>2
  <2>2. CASE ~(rest < 0)
    BY <1>5, <2>2
  <2> QED
    BY <2>1, <2>2
<1>10. /\ loans' \in [Denoms -> [Users -> Nat]]
       /\ \A c \in Denoms, w \in Users : <<c, w>> # <<D, u>> => loans'[c][w] = loans[c][w]
       /\ IndexOK'
  <2> HIDE DEF D, u
  <2> QED
    BY <1>1, <1>2, <1>3, <1>4, <1>7, SetLoanSets
<1>11. StoresOK'
  <2>1. vault' \in [Denoms -> Nat]
    BY <1>1, <1>2, <1>4, <1>9 DEF StoresOK
  <2> QED
    BY <1>1, <1>2, <1>10, <2>1 DEF StoresOK, market, params, history
<1>12. /\ work' \in [user: Users, excessBase: Int, excess: Int, repaid: Int,
                     loansLeft: SUBSET Denoms, denomsLeft: Seq(Denoms)]
       /\ work'.user = u /\ work'.loansLeft = work.loansLeft \ {D}
  <2>1. work.excessBase - value \in Int /\ 0 \in Int
    BY <1>3, <1>8
  <2>2. work \in [user: Users, excessBase: Int, excess: Int, repaid: Int,
                  loansLeft: SUBSET Denoms, denomsLeft: Seq(Denoms)]
    BY <1>2 DEF WorkType
  <2>3. work.loansLeft \ {D} \in SUBSET Denoms
    BY <1>4
  <2> DEFINE b == work.excessBase - value
             l == work.loansLeft \ {D}
  <2>4. work' = [work EXCEPT !.loansLeft = l, !.excess = 0, !.repaid = 0, !.excessBase = b]
    BY <1>1
  <2> HIDE DEF b, l, D
  <2>5. b \in Int /\ l \in SUBSET Denoms
    BY <2>1, <2>3 DEF b, l
  <2>6. /\ work' \in [user: Users, excessBase: Int, excess: Int, repaid: Int,
                      loansLeft: SUBSET Denoms, denomsLeft: Seq(Denoms)]
        /\ work'.user = work.user /\ work'.loansLeft = l
    BY <2>1, <2>2, <2>4, <2>5
  <2> QED
    BY <2>6 DEF l
<1>13. WorkType'
  BY <1>1, <1>2, <1>12 DEF WorkType
<1>14. LoopOK'
  <2>1. \A d \in work'.loansLeft : loans'[d][u] > 0
    BY <1>3, <1>4, <1>10, <1>12
  <2> QED
    BY <1>1, <1>2, <1>3, <1>12, <2>1 DEF LoopOK, AreCollateral, params
<1>15. PricesOK'
  <2>1. \A c \in Denoms, w \in Users : loans'[c][w] > 0 => ratio[c] > 0
    BY <1>2, <1>5, <1>10 DEF PricesOK
  <2> QED
    BY <1>1, <1>2, <2>1 DEF PricesOK, market, params
<1>16. RepaidOK' /\ CollateralAccounting'
  BY <1>1, <1>2, CollateralRests DEF RepaidOK, history
<1> QED
  BY <1>10, <1>11, <1>13, <1>14, <1>15, <1>16 DEF Inv

-----------------------------------------------------------------------------
(* The invariant.                                                          *)

LEMMA LiquidationKeeps ==
  ASSUME Inv, Liquidation
  PROVE  Inv'
BY PassBorrowerKeeps, BeginBorrowerKeeps, BeginLoanKeeps, RepayFromSameDenomKeeps,
   PanicKeeps, SellFailsHalfwayKeeps, SellCollateralKeeps, SkipDenomKeeps,
   FinishLoanKeeps, NoMoreLoansKeeps, NextBlockKeeps
   DEF Liquidation

LEMMA EveryStep ==
  ASSUME Inv, [Next]_vars
  PROVE  Inv'
<1>1. CASE Transaction
  BY <1>1, MessageKeeps, GovernanceKeeps, EnvironmentKeeps DEF Transaction
<1>2. CASE EndBlock
  BY <1>2, BeginEndBlockKeeps, LiquidationKeeps DEF EndBlock
<1>3. CASE UNCHANGED vars
  <2>1. UNCHANGED <<positions, banks, market, params, history, phase, queue, order, work>>
    BY <1>3 DEF vars, handling
  <2>2. StoresOK' /\ IndexOK' /\ CollateralAccounting' /\ PricesOK'
    BY <2>1, StoresRest
  <2>3. loans' = loans /\ index' = index /\ vault' = vault /\ ltv' = ltv
    BY <2>1 DEF positions, loanStore, banks, params
  <2>4. WorkType' /\ LoopOK'
    BY <2>1, <2>3, InvParts DEF WorkType, LoopOK, AreCollateral
  <2>5. RepaidOK'
    BY <2>1, <2>3, InvParts DEF RepaidOK, LoanDenom
  <2> QED
    BY <2>2, <2>4, <2>5 DEF Inv
<1> QED
  BY <1>1, <1>2, <1>3 DEF Next

\* Every reachable state satisfies the invariant: liquidateLoan never pays back
\* more coins than the vault holds, whatever the trades of a liquidation yield.
THEOREM Invariance == Spec => []Inv
<1>1. Init => Inv
  BY InitInv
<1>2. Inv /\ [Next]_vars => Inv'
  BY EveryStep
<1> QED
  BY <1>1, <1>2, PTL DEF Spec

\* The stores have their types, no balance of a module account is negative, and
\* SetLoan gives every loan an Index that no other loan has.
THEOREM TypeCorrect == Spec => []TypeOK
<1>1. Inv => TypeOK
  <2> SUFFICES ASSUME Inv PROVE TypeOK
    OBVIOUS
  <2>1. StoresOK /\ IndexOK /\ WorkType
    BY InvParts
  <2>2. index \in [Denoms -> [Users -> 0..(nextIndex - 1)]]
    <3>1. nextIndex \in Nat \ {0} /\ index \in [Denoms -> [Users -> Nat]]
          /\ \A d \in Denoms, u \in Users : index[d][u] < nextIndex
      BY <2>1 DEF IndexOK
    <3>2. \A d \in Denoms, u \in Users : index[d][u] \in 0..(nextIndex - 1)
      BY <3>1
    <3>3. \A d \in Denoms : index[d] \in [Users -> 0..(nextIndex - 1)]
      BY <3>1, <3>2
    <3> QED
      BY <3>1, <3>3
  <2> QED
    BY <2>1, <2>2 DEF TypeOK, StoresOK, IndexOK, WorkType
<1> QED
  BY <1>1, Invariance, PTL

\* AddCollateral, RemoveCollateral and liquidations keep the coins of
\* PoolCollateral equal to the sum of its entries, but for what a trade that
\* failed halfway took and what repaid a loan of the collateral's own denom.
THEOREM CollateralAccountedFor == Spec => []CollateralAccounting
<1>1. Inv => CollateralAccounting
  BY DEF Inv
<1> QED
  BY <1>1, Invariance, PTL

-----------------------------------------------------------------------------
(* What the depositors own.                                                *)

\* What the depositors of a denom would own if collateral that repaid loans of its
\* own denom had come to the vault.
Backed(d) == ToDec(vault[d] + settled[d]) + LoanSum(d) + writtenOff[d] - Pending(d)

\* The same, part by part.
WorthOf(d) ==
  /\ vault[d] \in Nat /\ settled[d] \in Int /\ writtenOff[d] \in Nat
  /\ ToDec(vault[d]) \in Nat /\ ToDec(settled[d]) \in Int
  /\ SumOf(loans[d]) \in Nat
  /\ Pending(d) \in Int
  /\ Backed(d) = (((ToDec(vault[d]) + ToDec(settled[d])) + SumOf(loans[d]))
                   + writtenOff[d]) - Pending(d)

WorthAdds == \A d \in Denoms : WorthOf(d)

LEMMA WorthParts == Inv => WorthAdds
<1> SUFFICES ASSUME Inv, NEW d \in Denoms PROVE WorthOf(d)
  BY DEF WorthAdds
<1>1. StoresOK /\ WorkType
  BY InvParts
<1>2. vault[d] \in Nat /\ settled[d] \in Int /\ writtenOff[d] \in Nat
      /\ loans[d] \in [Users -> Nat]
  BY <1>1 DEF StoresOK
<1>3. /\ ToDec(vault[d]) \in Nat /\ ToDec(settled[d]) \in Int
      /\ ToDec(vault[d] + settled[d]) = ToDec(vault[d]) + ToDec(settled[d])
  <2>1. vault[d] \in Int
    BY <1>2
  <2> QED
    BY <1>2, <2>1, ToDecNat, ToDecAdd
<1>4. LoanSum(d) = SumOf(loans[d]) /\ SumOf(loans[d]) \in Nat
  BY <1>2, Finite, SumDecNat DEF LoanSum
<1>5. Pending(d) \in Int
  <2>1. work.repaid \in Int
    BY <1>1 DEF WorkType
  <2> QED
    BY <2>1, IntTypes DEF Pending
<1>6. Backed(d) = (((ToDec(vault[d]) + ToDec(settled[d])) + SumOf(loans[d]))
                    + writtenOff[d]) - Pending(d)
  <2> DEFINE v == ToDec(vault[d] + settled[d])
             l == LoanSum(d)
             p == Pending(d)
             w == writtenOff[d]
  <2>1. Backed(d) = v + l + w - p
    BY DEF Backed
  <2>2. v \in Int /\ l \in Int /\ p \in Int /\ w \in Int
    BY <1>2, <1>3, <1>4, <1>5
  <2>3. v + l + w - p = ((v + l) + w) - p
    <3> HIDE DEF v, l, w, p
    <3> QED
      BY <2>2
  <2> QED
    BY <1>3, <1>4, <2>1, <2>3
<1> QED
  BY <1>2, <1>3, <1>4, <1>5, <1>6 DEF WorthOf

\* A step that leaves what backs a denom.
LEMMA WorthRests ==
  ASSUME Inv, NEW d \in Denoms, vault'[d] = vault[d], settled'[d] = settled[d],
         loans'[d] = loans[d], writtenOff'[d] = writtenOff[d], Pending(d)' = Pending(d)
  PROVE  Backed(d)' + Scale >= Backed(d)
<1>1. Backed(d)' = Backed(d)
  BY DEF Backed, LoanSum
<1>2. Backed(d) \in Int
  <2> DEFINE v == ToDec(vault[d])
             s == ToDec(settled[d])
             l == SumOf(loans[d])
             p == Pending(d)
             w == writtenOff[d]
  <2>1. v \in Nat /\ s \in Int /\ l \in Nat /\ w \in Nat /\ p \in Int
        /\ Backed(d) = (((v + s) + l) + w) - p
    BY WorthParts DEF WorthAdds, WorthOf
  <2> HIDE DEF v, s, l, p, w
  <2> QED
    BY <2>1
<1> QED
  BY <1>1, <1>2, ScaleAssumption

LEMMA SumOfLoans ==
  ASSUME Inv, Inv', NEW d \in Denoms, NEW u \in Users,
         \A w \in Users : w # u => loans'[d][w] = loans[d][w]
  PROVE  SumOf(loans'[d]) = SumOf(loans[d]) - loans[d][u] + loans'[d][u]
<1>1. loans[d] \in [Users -> Nat] /\ loans'[d] \in [Users -> Nat]
  BY DEF Inv, StoresOK
<1> QED
  BY <1>1, SumEntry

\* A loan and the vault of its denom change by amounts that make up for each
\* other, but for the rounding of one coin.
LEMMA LoanWorth ==
  ASSUME Inv, Inv', NEW d \in Denoms, NEW u \in Users, NEW c \in Denoms,
         \A w \in Users : <<c, w>> # <<d, u>> => loans'[c][w] = loans[c][w],
         \A w \in Users : w # u => loans'[d][w] = loans[d][w],
         settled' = settled, writtenOff' = writtenOff,
         c # d => vault'[c] = vault[c] /\ Pending(c)' = Pending(c),
         ((ToDec(vault'[d]) + loans'[d][u]) - Pending(d)') + Scale
           >= (ToDec(vault[d]) + loans[d][u]) - Pending(d)
  PROVE  Backed(c)' + Scale >= Backed(c)
<1>1. CASE c # d
  <2>1. loans[c] \in [Users -> Nat] /\ loans'[c] \in [Users -> Nat]
    BY DEF Inv, StoresOK
  <2>2. loans'[c] = loans[c]
    BY <1>1, <2>1
  <2> QED
    BY <1>1, <2>2, WorthRests
<1>2. CASE c = d
  <2> DEFINE v == ToDec(vault[d])
             s == ToDec(settled[d])
             l == SumOf(loans[d])
             p == Pending(d)
             w == writtenOff[d]
             x == ToDec(vault'[d])
             k == SumOf(loans'[d])
             q == Pending(d)'
             a == loans[d][u]
             b == loans'[d][u]
  <2>1. v \in Nat /\ s \in Int /\ l \in Nat /\ w \in Nat /\ p \in Int
        /\ Backed(d) = (((v + s) + l) + w) - p
    BY WorthParts DEF WorthAdds, WorthOf
  <2>2. \A e \in Denoms :
          /\ ToDec(vault'[e]) \in Nat /\ SumOf(loans'[e]) \in Nat /\ Pending(e)' \in Int
          /\ Backed(e)' = (((ToDec(vault'[e]) + ToDec(settled'[e])) + SumOf(loans'[e]))
                            + writtenOff'[e]) - Pending(e)'
    <3>1. Inv' => WorthAdds'
      BY WorthParts, PTL
    <3> QED
      BY <3>1 DEF WorthAdds, WorthOf
  <2>3. x \in Nat /\ k \in Nat /\ q \in Int /\ Backed(d)' = (((x + s) + k) + w) - q
    BY <2>2
  <2>4. k = l - a + b /\ a \in Nat /\ b \in Nat
    <3>1. a \in Nat /\ b \in Nat
      BY DEF Inv, StoresOK
    <3> QED
      BY <3>1, SumOfLoans
  <2>5. ((x + b) - q) + Scale >= (v + a) - p
    OBVIOUS
  <2>6. Scale \in Nat
    BY ScaleAssumption
  <2>7. Backed(d)' + Scale >= Backed(d)
    <3> DEFINE W == Backed(d)
               Y == Backed(d)'
    <3>1. W = (((v + s) + l) + w) - p /\ Y = (((x + s) + k) + w) - q
      BY <2>1, <2>3
    <3> HIDE DEF v, s, l, p, w, x, k, q, a, b, W, Y
    <3>2. Y + Scale >= W
      BY <2>1, <2>3, <2>4, <2>5, <2>6, <3>1
    <3> QED
      BY <3>2 DEF W, Y
  <2> QED
    BY <1>2, <2>7
<1> QED
  BY <1>1, <1>2

\* Outside of liquidateLoan nothing is pending.
LEMMA NothingPending ==
  ASSUME NEW d \in Denoms
  PROVE  /\ phase # "denoms" => Pending(d) = 0
         /\ phase' # "denoms" => Pending(d)' = 0
BY DEF Pending

LEMMA BorrowWorth ==
  ASSUME Inv, Inv', NEW u \in Users, NEW d \in Denoms, NEW a \in LoanAmounts, Borrow(u, d, a),
         NEW c \in Denoms
  PROVE  Backed(c)' + Scale >= Backed(c)
<1>1. /\ SetLoan(u, d, loans[d][u] + a) /\ vault[d] >= CeilInt(a)
      /\ vault' = [vault EXCEPT ![d] = vault[d] + -CeilInt(a)] /\ phase = "tx"
      /\ phase' = "tx" /\ settled' = settled /\ writtenOff' = writtenOff
  BY DEF Borrow, InTx, Add, handling, history
<1>2. a \in Nat /\ loans[d][u] \in Nat /\ vault \in [Denoms -> Nat]
  BY InvParts, CollateralAssumption DEF StoresOK
<1>3. /\ CeilInt(a) \in Nat /\ ToDec(CeilInt(a)) <= a + Scale
  BY <1>2, CeilBounds
<1>4. /\ loans'[d][u] = Kept(loans[d][u] + a)
      /\ \A e \in Denoms, w \in Users : <<e, w>> # <<d, u>> => loans'[e][w] = loans[e][w]
  <2>1. loans[d][u] + a \in Int /\ StoresOK /\ IndexOK
    BY <1>2, InvParts
  <2> QED
    BY <1>1, <2>1, SetLoanSets
<1>5. loans'[d][u] = loans[d][u] + a
  BY <1>2, <1>4 DEF Kept
<1>6. vault'[d] = vault[d] + -CeilInt(a) /\ \A e \in Denoms : e # d => vault'[e] = vault[e]
  BY <1>1, <1>2
<1>7. \A e \in Denoms : Pending(e) = 0 /\ Pending(e)' = 0
  BY <1>1 DEF Pending
<1>8. ((ToDec(vault'[d]) + loans'[d][u]) - Pending(d)') + Scale
        >= (ToDec(vault[d]) + loans[d][u]) - Pending(d)
  <2> DEFINE n == CeilInt(a)
             v == ToDec(vault[d])
             x == ToDec(vault'[d])
             m == ToDec(n)
             l == loans[d][u]
             k == loans'[d][u]
  <2>1. x = v - m /\ v \in Int /\ m \in Int
    <3>1. vault[d] \in Int /\ n \in Int /\ -n \in Int
      BY <1>2, <1>3
    <3> HIDE DEF n
    <3>2. ToDec(vault[d] + -n) = ToDec(vault[d]) + ToDec(-n) /\ ToDec(-n) = -ToDec(n)
          /\ ToDec(vault[d]) \in Int /\ ToDec(n) \in Int
      BY <3>1, ToDecAdd
    <3>3. vault'[d] = vault[d] + -n
      BY <1>6 DEF n
    <3> QED
      BY <3>2, <3>3
  <2>2. m <= a + Scale /\ k = l + a /\ l \in Nat /\ Scale \in Nat
    BY <1>2, <1>3, <1>5, ScaleAssumption
  <2>3. ((x + k) - 0) + Scale >= (v + l) - 0
    <3> HIDE DEF n, v, x, m, l, k
    <3> QED
      BY <1>2, <2>1, <2>2
  <2> QED
    BY <1>7, <2>3
<1> QED
  BY <1>1, <1>4, <1>6, <1>7, <1>8, LoanWorth

LEMMA RepayWorth ==
  ASSUME Inv, Inv', NEW u \in Users, NEW d \in Denoms, NEW amount \in Nat, Repay(u, d, amount),
         NEW c \in Denoms
  PROVE  Backed(c)' + Scale >= Backed(c)
<1> DEFINE paid == MinDec(amount, loans[d][u])
<1>1. /\ SetLoan(u, d, loans[d][u] - paid)
      /\ vault' = [vault EXCEPT ![d] = vault[d] + CeilInt(paid)] /\ phase = "tx"
      /\ phase' = "tx" /\ settled' = settled /\ writtenOff' = writtenOff
  BY DEF Repay, InTx, Add, handling, history
<1>2. loans[d][u] \in Nat /\ vault \in [Denoms -> Nat]
  BY InvParts DEF StoresOK
<1>3. paid \in Nat /\ paid <= loans[d][u]
  BY <1>2 DEF MinDec
<1> HIDE DEF paid
<1>4. CeilInt(paid) \in Nat /\ paid <= ToDec(CeilInt(paid))
  BY <1>3, CeilBounds
<1>5. /\ loans'[d][u] = Kept(loans[d][u] - paid)
      /\ \A e \in Denoms, w \in Users : <<e, w>> # <<d, u>> => loans'[e][w] = loans[e][w]
  <2>1. loans[d][u] - paid \in Int /\ StoresOK /\ IndexOK
    BY <1>2, <1>3, InvParts
  <2> QED
    BY <1>1, <2>1, SetLoanSets
<1>6. loans'[d][u] = loans[d][u] - paid
  BY <1>2, <1>3, <1>5 DEF Kept
<1>7. vault'[d] = vault[d] + CeilInt(paid) /\ \A e \in Denoms : e # d => vault'[e] = vault[e]
  BY <1>1, <1>2
<1>8. \A e \in Denoms : Pending(e) = 0 /\ Pending(e)' = 0
  BY <1>1 DEF Pending
<1>9. ((ToDec(vault'[d]) + loans'[d][u]) - Pending(d)') + Scale
        >= (ToDec(vault[d]) + loans[d][u]) - Pending(d)
  <2> DEFINE n == CeilInt(paid)
             v == ToDec(vault[d])
             x == ToDec(vault'[d])
             m == ToDec(n)
             l == loans[d][u]
             k == loans'[d][u]
  <2>1. x = v + m /\ v \in Int /\ m \in Int
    <3>1. vault[d] \in Int /\ n \in Int
      BY <1>2, <1>4
    <3> HIDE DEF n
    <3>2. ToDec(vault[d] + n) = ToDec(vault[d]) + ToDec(n)
          /\ ToDec(vault[d]) \in Int /\ ToDec(n) \in Int
      BY <3>1, ToDecAdd
    <3>3. vault'[d] = vault[d] + n
      BY <1>7 DEF n
    <3> QED
      BY <3>2, <3>3
  <2>2. paid <= m /\ k = l - paid /\ l \in Nat /\ Scale \in Nat
    BY <1>2, <1>4, <1>6, ScaleAssumption
  <2>3. ((x + k) - 0) + Scale >= (v + l) - 0
    <3> HIDE DEF n, v, x, m, l, k
    <3> QED
      BY <1>3, <2>1, <2>2
  <2> QED
    BY <1>8, <2>3
<1> QED
  BY <1>1, <1>5, <1>7, <1>8, <1>9, LoanWorth

LEMMA WorthAddsNext ==
  ASSUME Inv'
  PROVE  WorthAdds'
<1>1. Inv' => WorthAdds'
  BY WorthParts, PTL
<1> QED
  BY <1>1

\* Coins that a liquidation collects count as pending.
LEMMA CollectedWorth ==
  ASSUME Inv, Inv', NEW c \in Denoms, loans' = loans, writtenOff' = writtenOff,
         (ToDec(vault'[c]) + ToDec(settled'[c])) - Pending(c)'
           = (ToDec(vault[c]) + ToDec(settled[c])) - Pending(c)
  PROVE  Backed(c)' + Scale >= Backed(c)
<1> DEFINE v == ToDec(vault[c])
           s == ToDec(settled[c])
           l == SumOf(loans[c])
           p == Pending(c)
           w == writtenOff[c]
           x == ToDec(vault'[c])
           y == ToDec(settled'[c])
           q == Pending(c)'
           W == Backed(c)
           Y == Backed(c)'
<1>1. v \in Nat /\ s \in Int /\ l \in Nat /\ w \in Nat /\ p \in Int
      /\ W = (((v + s) + l) + w) - p
  BY WorthParts DEF WorthAdds, WorthOf
<1>2. x \in Nat /\ y \in Int /\ q \in Int /\ Y = (((x + y) + l) + w) - q
  BY WorthAddsNext DEF WorthAdds, WorthOf
<1>3. (x + y) - q = (v + s) - p /\ Scale \in Nat
  BY ScaleAssumption
<1>4. Y + Scale >= W
  <2> HIDE DEF v, s, l, p, w, x, y, q, W, Y
  <2> QED
    BY <1>1, <1>2, <1>3
<1> QED
  BY <1>4

LEMMA RepayFromSameDenomWorth ==
  ASSUME Inv, Inv', RepayFromSameDenom, NEW c \in Denoms
  PROVE  Backed(c)' + Scale >= Backed(c)
<1> DEFINE t == TruncateInt(work.excess)
           amount == IF t < Found THEN t ELSE Found
           D == LoanDenom
<1>1. /\ InLoop /\ RoundDone(amount, amount)
      /\ settled' = [settled EXCEPT ![D] = settled[D] + amount]
      /\ UNCHANGED <<loanStore, banks, params, phase, queue, order, writtenOff>>
  BY DEF RepayFromSameDenom, Add
<1>2. /\ phase = "denoms" /\ work.excess \in Int /\ work.repaid \in Int
      /\ D \in Denoms /\ Found \in Nat
  BY <1>1, InRound
<1>3. amount \in Int
  BY <1>2, TruncateBounds
<1> HIDE DEF amount
<1>4. work'.repaid = work.repaid + amount /\ work'.user = work.user
      /\ work'.loansLeft = work.loansLeft
  BY <1>1, InvParts DEF RoundDone, WorkType
<1>5. LoanDenom' = D /\ loans' = loans /\ vault' = vault /\ phase' = "denoms"
  BY <1>1, <1>2, <1>4 DEF LoanDenom, loanStore, banks
<1>6. settled \in [Denoms -> Int]
  BY InvParts DEF StoresOK
<1>7. CASE c = D
  <2> DEFINE A == ToDec(amount)
             s == ToDec(settled[D])
             v == ToDec(vault[D])
             p == ToDec(work.repaid)
  <2>1. settled'[D] = settled[D] + amount /\ settled[D] \in Int
    BY <1>1, <1>2, <1>6
  <2>2. ToDec(settled'[D]) = s + A /\ A \in Int /\ s \in Int
    BY <1>3, <2>1, ToDecAdd
  <2>3. ToDec(work'.repaid) = p + A /\ p \in Int
    BY <1>2, <1>3, <1>4, ToDecAdd
  <2>4. Pending(c) = p /\ Pending(c)' = p + A
    BY <1>2, <1>5, <1>7, <2>3 DEF Pending
  <2>5. v \in Int
    BY <1>2, WorthParts DEF WorthAdds, WorthOf
  <2>6. (v + (s + A)) - (p + A) = (v + s) - p
    <3> HIDE DEF A, s, v, p
    <3> QED
      BY <2>2, <2>3, <2>5
  <2>7. (ToDec(vault'[c]) + ToDec(settled'[c])) - Pending(c)'
          = (ToDec(vault[c]) + ToDec(settled[c])) - Pending(c)
    BY <1>5, <1>7, <2>2, <2>4, <2>6
  <2> QED
    BY <1>1, <1>5, <2>7, CollectedWorth
<1>8. CASE c # D
  <2>1. settled'[c] = settled[c]
    BY <1>1, <1>6, <1>8
  <2>2. Pending(c) = 0 /\ Pending(c)' = 0
    BY <1>5, <1>8 DEF Pending
  <2> QED
    BY <1>1, <1>5, <2>1, <2>2, WorthRests
<1> QED
  BY <1>7, <1>8

LEMMA SellCollateralWorth ==
  ASSUME Inv, Inv', NEW given \in GivenAmounts, NEW used \in UsedAmounts(given),
         NEW yield \in Yields, SellCollateral(given, used, yield), NEW c \in Denoms
  PROVE  Backed(c)' + Scale >= Backed(c)
<1> DEFINE received == Received(used, yield)
           D == LoanDenom
<1>1. /\ ToSell /\ InLoop /\ RoundDone(used, received)
      /\ vault' = [vault EXCEPT ![D] = vault[D] + received]
      /\ UNCHANGED <<loanStore, phase, queue, order, settled, writtenOff>>
  BY DEF SellCollateral, ToSell, Add
<1>2. /\ phase = "denoms" /\ work.repaid \in Int /\ D \in Denoms /\ vault[D] \in Nat
  BY <1>1, InRound
<1>3. received \in Int
  <2>1. used \in Nat
    BY <1>1, Used
  <2>2. received \in Nat
    BY <1>1, <2>1, ReceivedType
  <2> QED
    BY <2>2
<1> HIDE DEF received
<1>4. work'.repaid = work.repaid + received /\ work'.user = work.user
      /\ work'.loansLeft = work.loansLeft
  BY <1>1, InvParts DEF RoundDone, WorkType
<1>5. LoanDenom' = D /\ loans' = loans /\ settled' = settled /\ writtenOff' = writtenOff
      /\ phase' = "denoms"
  BY <1>1, <1>2, <1>4 DEF LoanDenom, loanStore
<1>6. vault \in [Denoms -> Nat]
  BY InvParts DEF StoresOK
<1>7. CASE c = D
  <2> DEFINE A == ToDec(received)
             s == ToDec(settled[D])
             v == ToDec(vault[D])
             p == ToDec(work.repaid)
  <2>1. vault'[D] = vault[D] + received /\ vault[D] \in Int
    BY <1>1, <1>2, <1>6
  <2>2. ToDec(vault'[D]) = v + A /\ A \in Int /\ v \in Int
    BY <1>3, <2>1, ToDecAdd
  <2>3. ToDec(work'.repaid) = p + A /\ p \in Int
    BY <1>2, <1>3, <1>4, ToDecAdd
  <2>4. Pending(c) = p /\ Pending(c)' = p + A
    BY <1>2, <1>5, <1>7, <2>3 DEF Pending
  <2>5. s \in Int
    BY <1>2, WorthParts DEF WorthAdds, WorthOf
  <2>6. ((v + A) + s) - (p + A) = (v + s) - p
    <3> HIDE DEF A, s, v, p
    <3> QED
      BY <2>2, <2>3, <2>5
  <2>7. (ToDec(vault'[c]) + ToDec(settled'[c])) - Pending(c)'
          = (ToDec(vault[c]) + ToDec(settled[c])) - Pending(c)
    BY <1>5, <1>7, <2>2, <2>4, <2>6
  <2> QED
    BY <1>5, <2>7, CollectedWorth
<1>8. CASE c # D
  <2>1. vault'[c] = vault[c]
    BY <1>1, <1>6, <1>8
  <2>2. Pending(c) = 0 /\ Pending(c)' = 0
    BY <1>5, <1>8 DEF Pending
  <2> QED
    BY <1>5, <2>1, <2>2, WorthRests
<1> QED
  BY <1>7, <1>8

\* What is repaid beyond the loan goes back, rounded to a coin.
LEMMA FinishLoanWorth ==
  ASSUME Inv, Inv', FinishLoan, NEW c \in Denoms
  PROVE  Backed(c)' + Scale >= Backed(c)
<1>1. StoresOK /\ IndexOK /\ WorkType /\ LoopOK
  BY InvParts
<1>2. work.user \in Users /\ LoanDenom \in Denoms /\ work.repaid \in Int
  <2>1. work.loansLeft # {}
    BY <1>1 DEF LoopOK, FinishLoan
  <2> QED
    BY <1>1, <2>1, LoanDenomLeft DEF WorkType
<1>3. PICK D \in Denoms : D = LoanDenom
  BY <1>2
<1>4. PICK u \in Users : u = work.user
  BY <1>2
<1> DEFINE p == ToDec(work.repaid)
           l == loans[D][u]
           rest == l - p
           n == RoundInt(-rest)
           refund == IF rest < 0 THEN -n ELSE 0
           v == ToDec(vault[D])
           x == ToDec(vault'[D])
<1>5. /\ phase = "denoms" /\ phase' = "loans" /\ SetLoan(u, D, rest)
      /\ vault' = [vault EXCEPT ![D] = vault[D] + refund]
      /\ settled' = settled /\ writtenOff' = writtenOff
  BY <1>3, <1>4 DEF FinishLoan, Add, history
<1>6. l \in Nat /\ vault \in [Denoms -> Nat] /\ vault[D] \in Int
  BY <1>1, <1>2 DEF StoresOK
<1>7. p \in Int /\ Scale \in Nat
  BY <1>2, IntTypes, ScaleAssumption
<1>8. rest \in Int /\ -rest \in Int
  BY <1>6, <1>7
<1>9. /\ loans'[D][u] = Kept(rest)
      /\ \A e \in Denoms, w \in Users : <<e, w>> # <<D, u>> => loans'[e][w] = loans[e][w]
  <2> HIDE DEF rest
  <2> QED
    BY <1>5, <1>1, <1>2, <1>8, SetLoanSets
<1>10. Pending(D) = p /\ \A e \in Denoms : Pending(e)' = 0 /\ (e # D => Pending(e) = 0)
  BY <1>5, <1>3 DEF Pending
<1>11. ((x + Kept(rest)) - 0) + Scale >= (v + l) - p
  <2>1. v \in Int /\ rest = l - p
    BY <1>6, IntTypes
  <2>2. CASE rest < 0
    <3>1. n \in Nat /\ 2 * (Scale * n) <= 2 * (-rest) + Scale
      <4>1. -rest \in Nat
        BY <1>8, <2>2
      <4> HIDE DEF rest
      <4>2. HalfEven(-rest) \in Nat /\ 2 * (Scale * HalfEven(-rest)) <= 2 * (-rest) + Scale
        BY <4>1, HalfEvenNear, HalfEvenBounds
      <4>3. n = HalfEven(-rest)
        BY <4>1 DEF RoundInt, ChopRound
      <4> QED
        BY <4>2, <4>3
    <3>2. x = v + -ToDec(n) /\ ToDec(n) \in Int
      <4>1. vault'[D] = vault[D] + -n
        BY <1>5, <1>2, <1>6, <2>2
      <4>2. n \in Int /\ -n \in Int
        BY <3>1
      <4> HIDE DEF n
      <4>3. ToDec(vault[D] + -n) = ToDec(vault[D]) + ToDec(-n) /\ ToDec(-n) = -ToDec(n)
            /\ ToDec(n) \in Int
        BY <1>6, <4>2, ToDecAdd
      <4> QED
        BY <4>1, <4>3
    <3>3. ToDec(n) = Scale * n
      BY <1>7, <3>1 DEF ToDec
    <3>4. Kept(rest) = 0
      BY <1>8, <2>2 DEF Kept
    <3> DEFINE m == ToDec(n)
    <3>5. 2 * m <= 2 * (-rest) + Scale /\ m \in Int /\ x = v + -m
      BY <3>1, <3>2, <3>3
    <3>6. ((x + 0) - 0) + Scale >= (v + l) - p
      <4> HIDE DEF m, n, x, v, l, p, rest
      <4> QED
        BY <1>6, <1>7, <1>8, <2>1, <3>5
    <3> QED
      BY <3>4, <3>6
  <2>3. CASE ~(rest < 0)
    <3>1. vault'[D] = vault[D]
      BY <1>5, <1>2, <1>6, <2>3
    <3>2. Kept(rest) = rest
      BY <1>8, <2>3 DEF Kept
    <3>3. x = v
      BY <3>1
    <3>4. ((x + rest) - 0) + Scale >= (v + l) - p
      <4> HIDE DEF x, v, l, p, rest
      <4> QED
        BY <1>6, <1>7, <1>8, <2>1, <3>3
    <3> QED
      BY <3>2, <3>4
  <2> QED
    BY <2>2, <2>3
<1>12. \A e \in Denoms : e # D => vault'[e] = vault[e]
  BY <1>5, <1>6
<1>13. ((ToDec(vault'[D]) + loans'[D][u]) - Pending(D)') + Scale
         >= (ToDec(vault[D]) + loans[D][u]) - Pending(D)
  BY <1>2, <1>9, <1>10, <1>11
<1> QED
  BY <1>5, <1>2, <1>9, <1>10, <1>12, <1>13, LoanWorth

\* Interest raises a loan; one that is written off counts as such.
LEMMA BeginEndBlockWorth ==
  ASSUME Inv, Inv', NEW rate \in Rates, NEW o, BeginEndBlock(rate, o), NEW c \in Denoms
  PROVE  Backed(c)' + Scale >= Backed(c)
<1> DEFINE interest(d, w) == WithInterest(loans[d][w], rate)
           off == {w \in Users : loans[c][w] > 0 /\ ~(interest(c, w) > 0)}
           f == loans[c]
           g == loans'[c]
           sum == SumDec(Only(f, off))
<1>1. /\ phase = "tx" /\ phase' = "borrowers" /\ UNCHANGED <<banks, settled>>
      /\ loans' = [d \in Denoms |-> [w \in Users |-> interest(d, w)]]
      /\ writtenOff'[c] = writtenOff[c] + sum
  BY DEF BeginEndBlock, InTx
<1>2. f \in [Users -> Nat] /\ g \in [Users -> Nat] /\ off \in SUBSET Users
  BY DEF Inv, StoresOK
<1>3. \A w \in Users : g[w] = interest(c, w)
  BY <1>1
<1>4. \A w \in Users \ off : f[w] <= g[w]
  <2>1. ASSUME NEW w \in Users \ off PROVE f[w] <= g[w]
    <3>1. f[w] \in Nat /\ g[w] \in Nat /\ g[w] = interest(c, w)
      BY <1>2, <1>3
    <3>2. CASE interest(c, w) > 0
      BY <3>1, <3>2, InterestTypes
    <3>3. CASE ~(interest(c, w) > 0)
      <4>1. ~(f[w] > 0)
        BY <3>3
      <4> QED
        BY <3>1, <4>1
    <3> QED
      BY <3>2, <3>3
  <2> QED
    BY <2>1
<1> HIDE DEF off, interest, f, g
<1> DEFINE A == SumOf(Without(f, off))
           B == SumOf(Only(f, off))
           K == SumOf(Without(g, off))
           M == SumOf(Only(g, off))
<1>5. /\ A \in Nat /\ B \in Nat /\ SumOf(f) = A + B
      /\ K \in Nat /\ M \in Nat /\ SumOf(g) = K + M
  BY <1>2, Finite, SumSplit
<1>6. A <= K
  <2> DEFINE S == Users \ off
  <2>1. IsFiniteSet(S)
    BY Finite, FS_Subset
  <2>2. /\ Without(f, off) \in [S -> Nat] /\ Without(g, off) \in [S -> Nat]
        /\ \A w \in S : Without(f, off)[w] <= Without(g, off)[w]
    BY <1>2, <1>4 DEF Without
  <2> HIDE DEF S
  <2> QED
    BY <2>1, <2>2, SumMonotone
<1>7. sum = B
  <2>1. Only(f, off) \in [off -> Nat] /\ IsFiniteSet(off)
    BY <1>2, Finite, FS_Subset DEF Only
  <2> QED
    BY <2>1, SumDecNat
<1> HIDE DEF A, B, K, M, sum
<1> DEFINE v == ToDec(vault[c])
           s == ToDec(settled[c])
           w == writtenOff[c]
           W == Backed(c)
           Y == Backed(c)'
<1>8. Pending(c) = 0 /\ Pending(c)' = 0
  BY <1>1 DEF Pending
<1>9. v \in Nat /\ s \in Int /\ w \in Nat /\ W = (((v + s) + (A + B)) + w) - 0
  <2>1. SumOf(loans[c]) = A + B
    BY <1>5 DEF f
  <2> QED
    BY <1>8, <2>1, WorthParts DEF WorthAdds, WorthOf
<1>10. Y = (((v + s) + (K + M)) + (w + B)) - 0
  <2>1. SumOf(loans'[c]) = K + M
    BY <1>5 DEF g
  <2>2. vault' = vault /\ settled' = settled /\ writtenOff'[c] = w + B
    BY <1>1, <1>7 DEF banks
  <2>3. Backed(c)' = (((ToDec(vault'[c]) + ToDec(settled'[c])) + SumOf(loans'[c]))
                      + writtenOff'[c]) - Pending(c)'
    BY WorthAddsNext DEF WorthAdds, WorthOf
  <2> QED
    BY <1>8, <2>1, <2>2, <2>3
<1>11. Y + Scale >= W
  <2>1. Scale \in Nat
    BY ScaleAssumption
  <2> HIDE DEF v, s, w, W, Y
  <2> QED
    BY <1>5, <1>6, <1>9, <1>10, <2>1
<1> QED
  BY <1>11

\* Steps that leave the vault and the loans alone.
LEMMA QuietWorth ==
  ASSUME Inv, NEW c \in Denoms, UNCHANGED <<loans, vault, settled, writtenOff>>,
         Pending(c)' = Pending(c)
  PROVE  Backed(c)' + Scale >= Backed(c)
BY WorthRests

LEMMA TransactionWorth ==
  ASSUME Inv, Inv', Transaction, NEW c \in Denoms
  PROVE  Backed(c)' + Scale >= Backed(c)
<1>1. ASSUME phase = "tx", phase' = "tx", UNCHANGED <<loans, vault, settled, writtenOff>>
      PROVE  Backed(c)' + Scale >= Backed(c)
  BY <1>1, NothingPending, QuietWorth
<1>2. ASSUME NEW u \in Users, NEW d \in Denoms, NEW a \in Amounts,
             AddCollateral(u, d, a) \/ RemoveCollateral(u, d, a)
      PROVE  Backed(c)' + Scale >= Backed(c)
  BY <1>1, <1>2 DEF AddCollateral, RemoveCollateral, InTx, loanStore, handling, history
<1>3. ASSUME NEW u \in Users, NEW d \in Denoms, NEW a \in LoanAmounts,
             PartiallyRepayLoan(u, d, a)
      PROVE  Backed(c)' + Scale >= Backed(c)
  <2>1. a \in Nat
    BY CollateralAssumption
  <2>2. ToDec(CeilInt(a)) \in Nat
    BY <2>1, CeilBounds, ToDecNat
  <2> QED
    BY <1>3, <2>2, RepayWorth DEF PartiallyRepayLoan
<1>4. ASSUME NEW u \in Users, NEW d \in Denoms, RepayLoan(u, d)
      PROVE  Backed(c)' + Scale >= Backed(c)
  <2>1. loans[d][u] \in Nat
    BY InvParts DEF StoresOK
  <2> QED
    BY <1>4, <2>1, RepayWorth DEF RepayLoan
<1>5. CASE Message
  BY <1>2, <1>3, <1>4, <1>5, BorrowWorth DEF Message
<1>6. CASE Governance
  <2>1. phase = "tx" /\ UNCHANGED <<positions, banks, handling, history>>
    BY <1>6 DEF Governance, AddCollateralDenom, UpdateCollateralDenomLTV,
            UpdateCollateralDenomMaxDeposit, InTx
  <2> QED
    BY <1>1, <2>1 DEF positions, loanStore, banks, handling, history
<1>7. CASE Environment
  <2>1. phase = "tx" /\ UNCHANGED <<positions, banks, handling, history>>
    BY <1>7 DEF Environment, PoolsRunDry, MarketMoves, InTx
  <2> QED
    BY <1>1, <2>1 DEF positions, loanStore, banks, handling, history
<1> QED
  BY <1>5, <1>6, <1>7 DEF Transaction

LEMMA LiquidationWorth ==
  ASSUME Inv, Inv', Liquidation, NEW c \in Denoms
  PROVE  Backed(c)' + Scale >= Backed(c)
<1>1. ASSUME phase # "denoms", phase' # "denoms", UNCHANGED <<positions, banks, history>>
      PROVE  Backed(c)' + Scale >= Backed(c)
  BY <1>1, NothingPending, QuietWorth DEF positions, loanStore, banks, history
<1>2. ASSUME NEW u \in Users, PassBorrower(u) \/ BeginBorrower(u)
      PROVE  Backed(c)' + Scale >= Backed(c)
  BY <1>1, <1>2 DEF PassBorrower, BeginBorrower
<1>3. CASE NoMoreLoans
  BY <1>1, <1>3 DEF NoMoreLoans
<1>4. CASE NextBlock
  BY <1>1, <1>4 DEF NextBlock
<1>5. CASE BeginLoan
  <2>1. /\ phase = "loans" /\ UNCHANGED <<positions, banks, history>>
        /\ work' = [work EXCEPT !.repaid = 0, !.denomsLeft = order,
             !.excess = MinDec(ValueInDenom(LoanDenom, RoundInt(work.excessBase)),
                               loans[LoanDenom][work.user])]
    BY <1>5 DEF BeginLoan
  <2>2. work'.repaid = 0
    BY <2>1, InvParts DEF WorkType
  <2>3. ToDec(0) = 0
    BY ScaleAssumption DEF ToDec
  <2>4. Pending(c) = 0 /\ Pending(c)' = 0
    BY <2>1, <2>2, <2>3 DEF Pending
  <2> QED
    BY <2>1, <2>4, QuietWorth DEF positions, loanStore, banks, history
<1>6. ASSUME UNCHANGED <<positions, vault, phase, settled, writtenOff>>, work'.user = work.user,
             work'.loansLeft = work.loansLeft, work'.repaid = work.repaid
      PROVE  Backed(c)' + Scale >= Backed(c)
  <2>1. LoanDenom' = LoanDenom
    BY <1>6 DEF LoanDenom, positions, loanStore
  <2>2. Pending(c)' = Pending(c)
    BY <1>6, <2>1 DEF Pending
  <2> QED
    BY <1>6, <2>2, QuietWorth DEF positions, loanStore
<1>7. CASE SkipDenom
  <2>1. work' = [work EXCEPT !.denomsLeft = Tail(work.denomsLeft)]
        /\ UNCHANGED <<positions, banks, phase, history>>
    BY <1>7 DEF SkipDenom
  <2> QED
    BY <1>6, <2>1, InvParts DEF WorkType, banks, history
<1>8. CASE PanicOnEmptyPools
  <2>1. UNCHANGED <<positions, banks, phase, history, work>>
    BY <1>8 DEF PanicOnEmptyPools
  <2> QED
    BY <1>6, <2>1 DEF banks, history
<1>9. ASSUME NEW a \in GivenAmounts, NEW b \in UsedAmounts(a), SellFailsHalfway(a, b)
      PROVE  Backed(c)' + Scale >= Backed(c)
  <2>1. work' = [work EXCEPT !.denomsLeft = Tail(work.denomsLeft)]
        /\ UNCHANGED <<positions, vault, phase, settled, writtenOff>>
    BY <1>9 DEF SellFailsHalfway
  <2> QED
    BY <1>6, <2>1, InvParts DEF WorkType
<1> QED
  BY <1>2, <1>3, <1>4, <1>5, <1>7, <1>8, <1>9, RepayFromSameDenomWorth, SellCollateralWorth,
     FinishLoanWorth DEF Liquidation

\* Backed counts what stayed in PoolCollateral, Worth does not.
WorthIsBacked ==
  \A d \in Denoms :
    /\ Worth(d) \in Int /\ Backed(d) \in Int /\ ToDec(settled[d]) \in Int
    /\ Backed(d) = Worth(d) + ToDec(settled[d])

LEMMA WorthOfBacked == Inv => WorthIsBacked
<1> SUFFICES ASSUME Inv, NEW d \in Denoms
             PROVE  /\ Worth(d) \in Int /\ Backed(d) \in Int /\ ToDec(settled[d]) \in Int
                    /\ Backed(d) = Worth(d) + ToDec(settled[d])
  BY DEF WorthIsBacked
<1> DEFINE v == ToDec(vault[d])
           s == ToDec(settled[d])
           l == SumOf(loans[d])
           p == Pending(d)
           w == writtenOff[d]
           W == Worth(d)
           B == Backed(d)
<1>1. v \in Nat /\ s \in Int /\ l \in Nat /\ w \in Nat /\ p \in Int
      /\ B = (((v + s) + l) + w) - p
  BY WorthParts DEF WorthAdds, WorthOf
<1>2. LoanSum(d) = l
  BY InvParts, Finite, SumDecNat DEF LoanSum, StoresOK
<1>3. W = v + l + w - p
  BY <1>2 DEF Worth
<1>4. W \in Int /\ B \in Int /\ B = W + s
  <2> HIDE DEF v, s, l, p, w, W, B
  <2> QED
    BY <1>1, <1>3
<1> QED
  BY <1>1, <1>4

\* A step that keeps what backs a denom costs its depositors what stays in
\* PoolCollateral.
LEMMA BackedSuffices ==
  ASSUME Inv, Inv', NEW d \in Denoms, Backed(d)' + Scale >= Backed(d)
  PROVE  Worth(d)' + Scale + ToDec(settled'[d] - settled[d]) >= Worth(d)
<1> DEFINE W == Worth(d)
           B == Backed(d)
           s == ToDec(settled[d])
           X == Worth(d)'
           Y == Backed(d)'
           t == ToDec(settled'[d])
           k == ToDec(settled'[d] - settled[d])
<1>1. W \in Int /\ B \in Int /\ s \in Int /\ B = W + s
  BY WorthOfBacked DEF WorthIsBacked
<1>2. X \in Int /\ Y \in Int /\ t \in Int /\ Y = X + t
  <2>1. Inv' => WorthIsBacked'
    BY WorthOfBacked, PTL
  <2> QED
    BY <2>1 DEF WorthIsBacked
<1>3. k = t - s
  <2>1. settled[d] \in Int /\ settled'[d] \in Int
    BY DEF StoresOK, Inv
  <2> DEFINE x == settled[d]
             y == settled'[d]
  <2>2. x + (y - x) = y /\ y - x \in Int /\ x \in Int
    BY <2>1
  <2> HIDE DEF x, y
  <2>3. ToDec(y) = ToDec(x) + ToDec(y - x) /\ ToDec(x) \in Int /\ ToDec(y - x) \in Int
    BY <2>2, ToDecAdd
  <2> QED
    BY <2>3 DEF x, y
<1>4. X + Scale + k >= W
  <2>1. Y + Scale >= B /\ Scale \in Int
    BY ScaleAssumption
  <2> HIDE DEF W, B, s, X, Y, t, k
  <2> QED
    BY <1>1, <1>2, <1>3, <2>1
<1> QED
  BY <1>4

\* No step of a borrower, of governance or of a liquidation takes more than the
\* rounding of one coin from what the depositors of a denom own, and the collateral
\* that repaid a loan of its own denom: every other loan falls only by coins that
\* have come in, and every payout rounds by less than one.
THEOREM DepositorsKeepTheirWorth == Spec => WorthKept
<1>1. ASSUME Inv, Inv', [Next]_vars, NEW d \in Denoms
      PROVE  Backed(d)' + Scale >= Backed(d)
  <2>1. CASE Transaction
    BY <1>1, <2>1, TransactionWorth
  <2>2. CASE EndBlock
    <3>1. CASE Liquidation
      BY <1>1, <3>1, LiquidationWorth
    <3>2. ASSUME NEW rate \in Rates, NEW o, BeginEndBlock(rate, o)
          PROVE  Backed(d)' + Scale >= Backed(d)
      BY <1>1, <3>2, BeginEndBlockWorth
    <3> QED
      BY <2>2, <3>1, <3>2 DEF EndBlock
  <2>3. CASE UNCHANGED vars
    <3>1. UNCHANGED <<loans, index, vault, settled, writtenOff, phase, work>>
      BY <2>3 DEF vars, positions, loanStore, banks, history, handling
    <3>2. Pending(d)' = Pending(d)
      BY <3>1 DEF Pending, LoanDenom
    <3> QED
      BY <1>1, <3>1, <3>2, QuietWorth
  <2> QED
    BY <1>1, <2>1, <2>2, <2>3 DEF Next
<1>2. Inv /\ Inv' /\ [Next]_vars =>
        [\A d \in Denoms :
           Worth(d)' + Scale + ToDec(settled'[d] - settled[d]) >= Worth(d)]_vars
  BY <1>1, BackedSuffices
<1> QED
  BY <1>2, Invariance, PTL DEF Spec, WorthKept
-----------------------------------------------------------------------------
(* What may be borrowed.                                                   *)

LEMMA CancelFactor ==
  ASSUME NEW x \in Int, NEW y \in Int, NEW f \in Nat, f > 0, x * f <= y * f
  PROVE  x <= y
<1> SUFFICES ASSUME y + 1 <= x PROVE FALSE
  OBVIOUS
<1> DEFINE k == x - (y + 1)
<1>1. k \in Nat /\ x = (y + 1) + k
  OBVIOUS
<1> HIDE DEF k
<1>2. x * f = (y * f + f) + k * f /\ y * f \in Int /\ k * f \in Nat
  BY <1>1
<1> QED
  BY <1>2

\* The loan's side of a price: n coins of the base currency buy at most a, worth
\* little more than n coins.
LEMMA BoughtWorth ==
  ASSUME NEW F \in Nat, F > 0, NEW T \in Nat, T = Quo(Scale, F), NEW n \in Nat,
         NEW a \in Nat, a <= Quo(ToDec(n), F)
  PROVE  2 * (a * Scale) <= 2 * (n * (Scale * T)) + (n * (Scale + 2) + Scale)
<1> DEFINE S == Scale
           P == S * T
           Q == Quo(ToDec(n), F)
<1>1. S \in Nat /\ S > 0
  BY ScaleAssumption
<1>2. ToDec(n) = n * S /\ n * S \in Nat
  BY <1>1 DEF ToDec
<1>3. Q \in Nat /\ 2 * (Q * F) <= 2 * ((n * S) * S) + F
  BY <1>2, QuoNear, QuoType
<1>4. 2 * (S * (S * S)) + 2 <= 2 * (S * (T * F)) + S * F + 2 * F
  BY <1>1, QuoNearBelow
<1>5. a <= Q
  OBVIOUS
<1> HIDE DEF S, Q
<1>6. 2 * (a * F) <= 2 * ((n * S) * S) + F
  <2> DEFINE g == Q - a
  <2>1. g \in Nat /\ Q = a + g
    BY <1>3, <1>5
  <2> HIDE DEF g
  <2>2. Q * F = a * F + g * F /\ g * F \in Nat /\ a * F \in Nat
    BY <2>1
  <2>3. (n * S) * S \in Nat
    BY <1>1
  <2> QED
    BY <1>3, <2>2, <2>3
<1> DEFINE c == S * (S * S)
           p == P * F
           t == S * F
<1>7. c \in Nat /\ p \in Nat /\ t \in Nat /\ P \in Nat
  BY <1>1
<1>8. 2 * c <= 2 * p + t + 2 * F
  <2>1. S * (T * F) = p
    BY <1>1
  <2>2. 2 * c + 2 <= 2 * p + t + 2 * F
    BY <1>4, <2>1
  <2> HIDE DEF c, p, t
  <2> QED
    BY <1>7, <2>2
<1>9. 2 * ((a * S) * F) <= 2 * (n * c) + t
  <2> DEFINE y == (n * S) * S
  <2>1. y \in Nat /\ a * F \in Nat
    BY <1>1
  <2>2. /\ (a * S) * F = S * (a * F)
        /\ n * c = S * y
    BY <1>1
  <2> DEFINE x == a * F
  <2>3. 2 * x <= 2 * y + F /\ x \in Nat
    BY <1>6, <2>1
  <2> HIDE DEF x, y
  <2>4. S * (2 * x) <= S * (2 * y + F)
    BY <1>1, <2>1, <2>3
  <2>5. S * (2 * x) = 2 * (S * x) /\ S * (2 * y + F) = 2 * (S * y) + S * F
    BY <1>1, <2>1, <2>3
  <2> QED
    BY <2>2, <2>4, <2>5 DEF x
<1> HIDE DEF P
<1>10. n * (2 * c) <= n * (2 * p + t + 2 * F)
  <2> HIDE DEF c, p, t
  <2> QED
    BY <1>7, <1>8
<1>11. 2 * ((a * S) * F) <= 2 * (n * p) + n * t + 2 * (n * F) + t
  <2> HIDE DEF c, p, t
  <2>1. n * (2 * c) = 2 * (n * c) /\ n * (2 * p + t + 2 * F) = 2 * (n * p) + n * t + 2 * (n * F)
    BY <1>7
  <2>2. n * c \in Nat /\ n * p \in Nat /\ n * t \in Nat /\ n * F \in Nat
        /\ (a * S) * F \in Nat
    BY <1>1, <1>7
  <2> QED
    BY <1>7, <1>9, <1>10, <2>1, <2>2
<1> DEFINE x == 2 * (a * S)
           y == 2 * (n * P) + (n * (S + 2) + S)
<1>12. x \in Int /\ y \in Int
  BY <1>1, <1>7
<1>13. x * F <= y * F
  <2>1. x * F = 2 * ((a * S) * F)
    BY <1>1
  <2>2. y * F = 2 * (n * p) + n * t + 2 * (n * F) + t
    BY <1>1, <1>7
  <2> QED
    BY <1>11, <2>1, <2>2
<1>14. x <= y
  <2> HIDE DEF x, y
  <2> QED
    BY <1>12, <1>13, CancelFactor
<1> QED
  BY <1>14 DEF S, P

\* What a new loan adds to the worth of the loans, at the other price: n coins, a
\* digit for each division, and the digits of the prices.
LEMMA LoanDigits ==
  ASSUME NEW F \in Nat, F > 0, NEW T \in Nat, T > 0, T = Quo(Scale, F), NEW n \in Nat,
         NEW old \in Nat, NEW a \in Nat, a <= Quo(ToDec(n), F)
  PROVE  Quo(old + a, T)
           <= Quo(old, T) + ToDec(n) + (2 + (n * (Scale + 2) + Scale) \div (2 * T))
<1> DEFINE S == Scale
           P == S * T
           q == Quo(old, T)
           r == Quo(old + a, T)
           w == n * (S + 2) + S
           k == w \div (2 * T)
           m == n * S
<1>1. S \in Nat /\ S >= 2
  BY ScaleAssumption
<1>2. q \in Nat /\ r \in Nat /\ 2 * (r * T) <= 2 * ((old + a) * S) + T
  <2>1. old + a \in Nat
    OBVIOUS
  <2>2. q \in Nat
    BY QuoType
  <2>3. r \in Nat /\ 2 * (r * T) <= 2 * ((old + a) * S) + T
    BY <2>1, QuoType, QuoNear
  <2> QED
    BY <2>2, <2>3
<1>3. 2 * (r * T) <= 2 * ((old + a) * S) + T
  BY <1>2
<1>4. 2 * (S * (old * S)) + 2 <= 2 * (S * (q * T)) + S * T + 2 * T
  BY QuoNearBelow
<1>5. 2 * (a * S) <= 2 * (n * P) + w
  BY BoughtWorth
<1>6. k \in Nat /\ w <= (2 * T) * (k + 1)
  <2> DEFINE b == 2 * T
             e == w % b
  <2>1. w \in Nat /\ b \in Nat /\ b > 0
    BY <1>1
  <2> HIDE DEF w
  <2>2. k \in Nat /\ e \in Nat /\ e < b /\ w = b * k + e
    BY <2>1, DivMod
  <2> HIDE DEF e, k
  <2>3. b * (k + 1) = b * k + b /\ b * k \in Nat
    BY <2>1, <2>2
  <2> HIDE DEF b
  <2>4. w <= b * (k + 1)
    BY <2>1, <2>2, <2>3
  <2> QED
    BY <2>2, <2>4 DEF b
<1>7. ToDec(n) = m /\ m \in Nat /\ w \in Nat /\ P \in Nat
  BY <1>1 DEF ToDec
<1> HIDE DEF S, q, r, w, k
<1> DEFINE x == r * P
           y == q * P
           z == S * (old * S)
           v == S * (a * S)
           u == m * P
           l == P * (k + 1)
<1>8. x \in Nat /\ y \in Nat /\ z \in Nat /\ v \in Nat /\ u \in Nat /\ l \in Nat
  BY <1>1, <1>2, <1>6, <1>7
<1>9. 2 * x <= 2 * z + 2 * v + P
  <2>1. S * (2 * (r * T)) <= S * (2 * ((old + a) * S) + T)
    BY <1>1, <1>2, <1>3
  <2>2. S * (2 * (r * T)) = 2 * x
    BY <1>1, <1>2
  <2>3. S * (2 * ((old + a) * S) + T) = 2 * z + 2 * v + P
    BY <1>1
  <2> QED
    BY <2>1, <2>2, <2>3
<1>10. 2 * z + 2 <= 2 * y + P + 2 * T
  <2>1. S * (q * T) = y
    BY <1>1, <1>2
  <2> QED
    BY <1>4, <2>1
<1>11. 2 * v <= 2 * u + 2 * l
  <2>1. S * (2 * (a * S)) <= S * (2 * (n * P) + w)
    BY <1>1, <1>5, <1>7
  <2>2. S * (2 * (a * S)) = 2 * v
    BY <1>1
  <2>3. S * (2 * (n * P) + w) = 2 * u + S * w
    BY <1>1, <1>7
  <2>4. S * w <= S * ((2 * T) * (k + 1))
    BY <1>1, <1>6, <1>7
  <2>5. S * ((2 * T) * (k + 1)) = 2 * l
    BY <1>1, <1>6
  <2> DEFINE f == S * w
             e == S * ((2 * T) * (k + 1))
  <2>6. f \in Nat /\ e \in Nat /\ f <= e /\ e = 2 * l /\ 2 * v <= 2 * u + f
    BY <1>1, <1>6, <1>7, <2>1, <2>2, <2>3, <2>4, <2>5
  <2> HIDE DEF u, v, l, e, f
  <2> QED
    BY <1>8, <2>6
<1>12. 2 * T <= P
  BY <1>1
<1>13. 2 * x + 2 <= 2 * y + 3 * P + 2 * u + 2 * l
  <2> HIDE DEF x, y, z, u, v, l, P
  <2> QED
    BY <1>7, <1>8, <1>9, <1>10, <1>11, <1>12
<1>14. ASSUME r >= q + m + k + 3 PROVE FALSE
  <2> DEFINE g == r - (q + m + k + 3)
  <2>1. g \in Nat /\ r = (q + m + k + 3) + g
    BY <1>2, <1>6, <1>7, <1>14
  <2> HIDE DEF g, P, m
  <2>2. x = y + u + l + 2 * P + g * P /\ g * P \in Nat
    BY <1>2, <1>6, <1>7, <2>1
  <2> HIDE DEF x, y, u, l
  <2> QED
    BY <1>7, <1>8, <1>13, <2>2
<1>15. r <= q + m + (2 + k)
  <2> HIDE DEF m
  <2> QED
    BY <1>2, <1>6, <1>7, <1>14
<1> QED
  BY <1>7, <1>15 DEF r, q, k, w, S

LEMMA QuoOfZero ==
  ASSUME NEW b \in Nat, b > 0
  PROVE  Quo(0, b) = 0
<1>1. Quo(0, b) \in Nat /\ ToDec(0) = 0
  BY QuoType, ScaleAssumption DEF ToDec
<1>2. 0 * Scale * Scale = 0
  BY ScaleAssumption
<1>3. 0 \div b = 0
  OBVIOUS
<1>4. HalfEven(0) = 0
  <2>1. HalfEven(0 * Scale) = 0
    BY HalfEvenExact
  <2>2. 0 * Scale = 0
    BY ScaleAssumption
  <2> QED
    BY <2>1, <2>2
<1> QED
  BY <1>2, <1>3, <1>4 DEF Quo, ChopRound

\* One loan of a borrower becomes a, whether there was one before or not.
LEMMA LoanBaseValueSet ==
  ASSUME Inv, NEW u \in Users, NEW d \in Denoms, NEW a \in Nat, a > 0, ratio[d] > 0,
         ratio' = ratio, loans'[d][u] = a,
         \A c \in Denoms : c # d => loans'[c][u] = loans[c][u]
  PROVE  LoanBaseValue(u)' = (LoanBaseValue(u) - Quo(loans[d][u], ToBase(d))) + Quo(a, ToBase(d))
<1> DEFINE S == {c \in Denoms : loans[c][u] > 0}
           f == [c \in S |-> Quo(loans[c][u], ToBase(c))]
           T == {c \in Denoms : loans'[c][u] > 0}
           g == [c \in T |-> Quo(loans'[c][u], ToBase(c)')]
           v == Quo(a, ToBase(d))
           q == Quo(loans[d][u], ToBase(d))
           R == SumOf(Without(f, {d}))
<1>1. StoresOK /\ PricesOK
  BY DEF Inv
<1>2. \A c \in Denoms : ToBase(c)' = ToBase(c)
  BY DEF ToBase
<1>3. ASSUME NEW c \in S PROVE Quo(loans[c][u], ToBase(c)) \in Nat
  <2>1. c \in Denoms /\ ratio[c] > 0 /\ loans[c][u] \in Nat
    BY <1>1 DEF StoresOK, PricesOK
  <2>2. ToBase(c) \in Nat /\ ToBase(c) > 0
    BY <1>1, <2>1, PriceTypes
  <2> QED
    BY <2>1, <2>2, QuoType
<1>4. loans[d][u] \in Nat /\ ToBase(d) \in Nat /\ ToBase(d) > 0
  BY <1>1, PriceTypes DEF StoresOK
<1>5. v \in Nat
  BY <1>4, QuoType
<1>6. T = S \cup {d}
  OBVIOUS
<1>7. f \in [S -> Nat] /\ IsFiniteSet(S)
  <2>1. f \in [S -> Nat]
    <3> HIDE DEF S
    <3> QED
      BY <1>3
  <2> QED
    BY <2>1, Finite, FS_Subset
<1>8. g = With(f, d, v)
  <2>1. DOMAIN f = S
    OBVIOUS
  <2>2. \A c \in T : g[c] = IF c = d THEN v ELSE f[c]
    BY <1>2
  <2> HIDE DEF T
  <2> QED
    BY <1>6, <2>1, <2>2 DEF With
<1>9. LoanBaseValue(u) = SumDec(f) /\ LoanBaseValue(u)' = SumDec(g)
  BY DEF LoanBaseValue
<1>10. d \in S => f[d] = q
  OBVIOUS
<1>11. d \notin S => q = 0
  <2>1. d \notin S => loans[d][u] = 0
    BY <1>4
  <2> QED
    BY <1>4, <2>1, QuoOfZero
<1> HIDE DEF S, f, T, g, v, q
<1>12. SumDec(f) = SumOf(f)
  BY <1>7, SumDecNat
<1>13. SumDec(g) = SumOf(g)
  <2>1. IsFiniteSet(T)
    BY <1>6, <1>7, FS_AddElement
  <2>2. g \in [T -> Nat]
    BY <1>5, <1>6, <1>7, <1>8 DEF With
  <2> QED
    BY <2>1, <2>2, SumDecNat
<1>14. R \in Nat /\ SumOf(g) = R + v
  BY <1>5, <1>7, <1>8, SumWith
<1>15. SumOf(f) = R + q
  <2>1. CASE d \in S
    BY <1>7, <1>10, <2>1, SumWithout
  <2>2. CASE d \notin S
    <3>1. Without(f, {d}) = f
      BY <1>7, <2>2 DEF Without
    <3> QED
      BY <1>11, <1>14, <2>2, <3>1
  <2> QED
    BY <2>1, <2>2
<1>16. q \in Nat
  BY <1>4, QuoType DEF q
<1>17. SumOf(g) = (SumOf(f) - q) + v
  <2> HIDE DEF R
  <2> QED
    BY <1>5, <1>14, <1>15, <1>16
<1> QED
  BY <1>9, <1>12, <1>13, <1>17 DEF q, v

LEMMA BorrowIsCovered ==
  ASSUME Inv, NEW u \in Users, NEW d \in Denoms, NEW a \in LoanAmounts, Borrow(u, d, a)
  PROVE  LoanBaseValue(u)' <= CollateralBaseValue(u)' + 2 + PriceDigits(u, d)
<1> DEFINE C == CollateralBaseValue(u)
           L == LoanBaseValue(u)
           free == C - L
           n == TruncateInt(free)
           F == FromBase(d)
           T == ToBase(d)
           old == loans[d][u]
           k == (n * (Scale + 2) + Scale) \div (2 * T)
<1>1. /\ Priced(u) /\ ratio[d] > 0 /\ BorrowableAmount(u, d) >= a
      /\ SetLoan(u, d, old + a) /\ UNCHANGED <<collateral, ratio, ltv>>
  BY DEF Borrow, market, params
<1>2. StoresOK /\ PricesOK /\ IndexOK
  BY DEF Inv
<1>3. a \in Nat /\ a > 0 /\ old \in Nat
  BY <1>2, CollateralAssumption DEF StoresOK
<1>4. C \in Nat /\ L \in Nat
  <2>1. \A c \in DOMAIN ltv : collateral[c][u] > 0 => ratio[c] > 0
    BY <1>1, <1>2 DEF Priced, StoresOK
  <2> QED
    BY <1>2, <2>1, CollateralBaseValueType, LoanBaseValueType
<1>5. CollateralBaseValue(u)' = C
  <2>1. \A c \in DOMAIN ltv : ToBase(c)' = ToBase(c)
    BY <1>1 DEF ToBase
  <2> QED
    BY <1>1, <2>1 DEF CollateralBaseValue
<1>6. F \in Nat /\ F > 0 /\ T \in Nat /\ T > 0
  BY <1>1, <1>2, PriceTypes
<1>7. T = Quo(Scale, F)
  BY DEF ToBase, FromBase
<1>8. PriceDigits(u, d) = k
  BY DEF PriceDigits
<1> HIDE DEF C, L, F, T, old
<1>9. BorrowableAmount(u, d) = ValueInDenom(d, IF free < 0 THEN 0 ELSE n)
  BY DEF BorrowableAmount, C, L
<1>10. free \in Nat
  <2>1. CASE free < 0
    <3>1. ValueInDenom(d, 0) = 0
      BY DEF ValueInDenom
    <3> QED
      BY <1>1, <1>3, <1>9, <2>1, <3>1
  <2>2. CASE ~(free < 0)
    BY <1>4, <2>2
  <2> QED
    BY <2>1, <2>2
<1>11. n \in Nat /\ ToDec(n) <= free
  <2> HIDE DEF free
  <2> QED
    BY <1>10, RoundTruncate DEF ToDec
<1>12. a <= Quo(ToDec(n), F)
  <2>1. ~(free < 0)
    BY <1>10
  <2>2. BorrowableAmount(u, d) = ValueInDenom(d, n)
    BY <1>9, <2>1
  <2> HIDE DEF n
  <2>3. n # 0
    <3>1. SUFFICES ASSUME n = 0 PROVE FALSE
      OBVIOUS
    <3>2. ValueInDenom(d, n) = 0
      BY <3>1 DEF ValueInDenom
    <3> QED
      BY <1>1, <1>3, <2>2, <3>2
  <2>4. ValueInDenom(d, n) = Quo(ToDec(n), F) /\ Quo(ToDec(n), F) \in Nat
    BY <1>6, <1>11, <2>3, ToDecNat, QuoType DEF ValueInDenom, F
  <2> QED
    BY <1>1, <1>3, <2>2, <2>4
<1> DEFINE q == Quo(old, T)
           r == Quo(old + a, T)
<1>13. r <= q + ToDec(n) + (2 + k)
  <2> HIDE DEF n
  <2> QED
    BY <1>3, <1>6, <1>7, <1>11, <1>12, LoanDigits
<1>14. old + a \in Nat /\ old + a > 0 /\ Kept(old + a) = old + a
  BY <1>3 DEF Kept
<1>15. LoanBaseValue(u)' = (L - q) + r
  <2>1. loans'[d][u] = old + a
        /\ \A c \in Denoms, w \in Users : <<c, w>> # <<d, u>> => loans'[c][w] = loans[c][w]
    <3>1. old + a \in Int
      BY <1>14
    <3> QED
      BY <1>1, <1>2, <1>14, <3>1, SetLoanSets
  <2>2. \A c \in Denoms : c # d => loans'[c][u] = loans[c][u]
    BY <2>1
  <2> DEFINE b == old + a
  <2>3. b \in Nat /\ b > 0 /\ loans'[d][u] = b
    BY <1>14, <2>1
  <2> HIDE DEF b
  <2>4. LoanBaseValue(u)' = (LoanBaseValue(u) - Quo(loans[d][u], ToBase(d))) + Quo(b, ToBase(d))
    BY <1>1, <2>2, <2>3, LoanBaseValueSet
  <2> QED
    BY <2>4 DEF b, old, T, L
<1>16. q \in Nat /\ r \in Nat /\ ToDec(n) \in Nat
  <2> HIDE DEF n
  <2> QED
    BY <1>3, <1>6, <1>11, <1>14, QuoType, ToDecNat
<1>17. k \in Nat
  <2> DEFINE w == n * (Scale + 2) + Scale
             b == 2 * T
  <2> HIDE DEF n
  <2>1. w \in Nat /\ b \in Nat /\ b > 0
    BY <1>6, <1>11, ScaleAssumption
  <2> HIDE DEF w, b
  <2>2. w \div b \in Nat
    BY <2>1, DivMod
  <2> QED
    BY <2>2 DEF w, b
<1> DEFINE m == ToDec(n)
<1>18. m <= C - L /\ m \in Nat /\ r <= q + m + (2 + k)
  BY <1>11, <1>13, <1>16
<1>19. (L - q) + r <= C + 2 + k
  <2> HIDE DEF m, q, r, k
  <2> QED
    BY <1>4, <1>16, <1>17, <1>18
<1> QED
  BY <1>5, <1>8, <1>15, <1>19

LEMMA RepayLowers ==
  ASSUME Inv, NEW u \in Users, NEW d \in Denoms, NEW amount \in Nat, Repay(u, d, amount),
         NEW w \in Users, NEW c \in Denoms
  PROVE  loans'[c][w] <= loans[c][w]
<1> DEFINE paid == MinDec(amount, loans[d][u])
           rest == loans[d][u] - paid
<1>1. StoresOK /\ IndexOK /\ SetLoan(u, d, rest)
  BY DEF Inv, Repay
<1>2. loans[d][u] \in Nat /\ loans[c][w] \in Nat
  BY <1>1 DEF StoresOK
<1>3. paid \in Nat
  BY <1>2 DEF MinDec
<1>4. rest \in Int /\ rest <= loans[d][u] /\ Kept(rest) <= loans[d][u]
  BY <1>2, <1>3 DEF Kept
<1> HIDE DEF rest
<1>5. /\ loans'[d][u] = Kept(rest)
      /\ \A e \in Denoms, v \in Users : <<e, v>> # <<d, u>> => loans'[e][v] = loans[e][v]
  BY <1>1, <1>4, SetLoanSets
<1>6. CASE <<c, w>> = <<d, u>>
  BY <1>4, <1>5, <1>6
<1>7. CASE <<c, w>> # <<d, u>>
  BY <1>2, <1>5, <1>7
<1> QED
  BY <1>6, <1>7

\* Within the transactions of a block nothing but Borrow raises a loan.
LEMMA OnlyBorrowRaises ==
  ASSUME Inv, Next, phase = "tx", phase' = "tx", NEW u \in Users, NEW d \in Denoms,
         loans'[d][u] > loans[d][u]
  PROVE  \E a \in LoanAmounts : Borrow(u, d, a)
<1>1. StoresOK /\ IndexOK /\ loans[d][u] \in Nat
  BY DEF Inv, StoresOK
<1>2. loans' # loans
  BY <1>1
<1>3. ASSUME NEW w \in Users, NEW c \in Denoms, NEW a \in LoanAmounts, Borrow(w, c, a)
      PROVE  \E b \in LoanAmounts : Borrow(u, d, b)
  <2>1. a \in Nat /\ loans[c][w] \in Nat
    BY <1>1, CollateralAssumption DEF StoresOK
  <2>2. loans[c][w] + a \in Int /\ SetLoan(w, c, loans[c][w] + a)
    BY <1>3, <2>1 DEF Borrow
  <2>3. <<d, u>> # <<c, w>> => loans'[d][u] = loans[d][u]
    BY <1>1, <2>2, SetLoanSets
  <2>4. d = c /\ u = w
    BY <1>1, <2>3
  <2> QED
    BY <1>3, <2>4
<1>4. ASSUME NEW w \in Users, NEW c \in Denoms, NEW a \in LoanAmounts,
             PartiallyRepayLoan(w, c, a)
      PROVE  FALSE
  <2>1. a \in Nat
    BY CollateralAssumption
  <2>2. ToDec(CeilInt(a)) \in Nat
    BY <2>1, CeilBounds, ToDecNat
  <2>3. Repay(w, c, ToDec(CeilInt(a)))
    BY <1>4 DEF PartiallyRepayLoan
  <2>4. loans'[d][u] <= loans[d][u]
    BY <2>2, <2>3, RepayLowers
  <2>5. loans'[d][u] \in Nat
    BY EveryStep DEF Inv, StoresOK
  <2> QED
    BY <1>1, <2>4, <2>5
<1>5. ASSUME NEW w \in Users, NEW c \in Denoms, RepayLoan(w, c)
      PROVE  FALSE
  <2>1. loans[c][w] \in Nat /\ Repay(w, c, loans[c][w])
    BY <1>1, <1>5 DEF StoresOK, RepayLoan
  <2>2. loans'[d][u] <= loans[d][u]
    BY <2>1, RepayLowers
  <2>3. loans'[d][u] \in Nat
    BY EveryStep DEF Inv, StoresOK
  <2> QED
    BY <1>1, <2>2, <2>3
<1>6. CASE Transaction
  <2>1. ~Governance /\ ~Environment
    BY <1>2 DEF Governance, AddCollateralDenom, UpdateCollateralDenomLTV,
            UpdateCollateralDenomMaxDeposit, Environment, PoolsRunDry, MarketMoves,
            positions, loanStore
  <2>2. ASSUME NEW w \in Users, NEW c \in Denoms, NEW a \in Amounts
        PROVE  ~AddCollateral(w, c, a) /\ ~RemoveCollateral(w, c, a)
    BY <1>2 DEF AddCollateral, RemoveCollateral, loanStore
  <2>3. Message
    BY <1>6, <2>1 DEF Transaction
  <2> QED
    BY <1>3, <1>4, <1>5, <2>2, <2>3 DEF Message
<1>7. CASE EndBlock
  <2>1. ~Liquidation
    BY DEF Liquidation, PassBorrower, BeginBorrower, BeginLoan, RepayFromSameDenom,
           PanicOnEmptyPools, ToSell, InLoop, SkipDenom, FinishLoan, NoMoreLoans, NextBlock
  <2>2. ASSUME NEW rate \in Rates, NEW o PROVE ~BeginEndBlock(rate, o)
    BY DEF BeginEndBlock
  <2> QED
    BY <1>7, <2>1, <2>2 DEF EndBlock
<1> QED
  BY <1>6, <1>7 DEF Next

\* Borrow pays out a loan only if the collateral covers the loans of the borrower,
\* the new one included: up to the digits of the prices, nobody is due for
\* liquidation at the prices of the loan.
THEOREM LoansAreCovered == Spec => BorrowWithinLimit
<1>1. ASSUME Inv, [Next]_vars, NEW u \in Users, NEW d \in Denoms,
             phase = "tx", loans'[d][u] > loans[d][u], phase' = "tx"
      PROVE  LoanBaseValue(u)' <= CollateralBaseValue(u)' + 2 + PriceDigits(u, d)
  <2>1. loans[d][u] \in Nat
    BY <1>1 DEF Inv, StoresOK
  <2>2. CASE Next
    <3>1. PICK a \in LoanAmounts : Borrow(u, d, a)
      BY <1>1, <2>2, OnlyBorrowRaises
    <3> QED
      BY <1>1, <3>1, BorrowIsCovered
  <2>3. CASE UNCHANGED vars
    BY <1>1, <2>1, <2>3 DEF vars, positions, loanStore
  <2> QED
    BY <1>1, <2>2, <2>3
<1>2. Inv /\ [Next]_vars =>
        [\A u \in Users, d \in Denoms :
           (phase = "tx" /\ loans'[d][u] > loans[d][u] /\ phase' = "tx")
             => LoanBaseValue(u)' <= CollateralBaseValue(u)' + 2 + PriceDigits(u, d)]_vars
  BY <1>1
<1> QED
  BY <1>2, Invariance, PTL DEF Spec, BorrowWithinLimit

-----------------------------------------------------------------------------
(* Collateral that grows in a liquidation.                                 *)

\* What is left of the excess of a loan and what was collected for it make up the
\* excess it began with, which is negative only after an earlier overpayment.
ExcessOK ==
  phase = "denoms" /\ work.excessBase >= 0 => work.excess + ToDec(work.repaid) >= 0

LEMMA RoundKeepsExcess ==
  ASSUME Inv, ExcessOK, NEW x \in Int, phase' = phase,
         work' = [work EXCEPT !.denomsLeft = Tail(work.denomsLeft),
                              !.excess = work.excess - ToDec(x), !.repaid = work.repaid + x]
  PROVE  ExcessOK'
<1>1. work \in [user: Users, excessBase: Int, excess: Int, repaid: Int,
                loansLeft: SUBSET Denoms, denomsLeft: Seq(Denoms)]
  BY InvParts DEF WorkType
<1>2. /\ work'.excessBase = work.excessBase /\ work'.excess = work.excess - ToDec(x)
      /\ work'.repaid = work.repaid + x
  BY <1>1
<1>3. ToDec(work.repaid + x) = ToDec(work.repaid) + ToDec(x)
      /\ ToDec(work.repaid) \in Int /\ ToDec(x) \in Int
  BY <1>1, ToDecAdd
<1>4. work'.excess + ToDec(work'.repaid) = work.excess + ToDec(work.repaid)
  BY <1>1, <1>2, <1>3
<1> QED
  BY <1>2, <1>4 DEF ExcessOK

LEMMA RestKeepsExcess ==
  ASSUME ExcessOK, phase' = phase, work'.excessBase = work.excessBase,
         work'.excess = work.excess, work'.repaid = work.repaid
  PROVE  ExcessOK'
BY DEF ExcessOK

LEMMA BeginLoanExcess ==
  ASSUME Inv, BeginLoan
  PROVE  ExcessOK'
<1> DEFINE D == LoanDenom
           x == RoundInt(work.excessBase)
           value == ValueInDenom(D, x)
           loan == loans[D][work.user]
<1>1. /\ phase = "loans" /\ work.loansLeft # {}
      /\ work' = [work EXCEPT !.repaid = 0, !.denomsLeft = order, !.excess = MinDec(value, loan)]
  BY DEF BeginLoan
<1>2. StoresOK /\ PricesOK /\ IndexOK /\ WorkType /\ LoopOK
  BY InvParts
<1>3. D \in work.loansLeft /\ D \in Denoms
  BY <1>1, <1>2, LoanDenomLeft
<1>4. work.excessBase \in Int /\ loan \in Nat /\ ratio[D] > 0
  BY <1>1, <1>2, <1>3 DEF WorkType, StoresOK, LoopOK, PricesOK
<1>5. work'.excessBase = work.excessBase /\ work'.repaid = 0 /\ work'.excess = MinDec(value, loan)
  BY <1>1, <1>2 DEF WorkType
<1>6. ToDec(0) = 0
  BY ScaleAssumption DEF ToDec
<1>7. ASSUME work.excessBase >= 0 PROVE MinDec(value, loan) + 0 >= 0
  <2>1. x \in Nat
    BY <1>4, <1>7, RoundTruncate
  <2> HIDE DEF x
  <2>2. FromBase(D) \in Nat /\ FromBase(D) > 0
    BY <1>2, <1>3, <1>4, PriceTypes
  <2>3. ToDec(x) \in Nat
    BY <2>1, ToDecNat
  <2>4. value \in Nat
    BY <2>2, <2>3, QuoType DEF ValueInDenom
  <2> HIDE DEF value, loan
  <2> QED
    BY <1>4, <2>4 DEF MinDec
<1> QED
  BY <1>5, <1>6, <1>7 DEF ExcessOK

LEMMA ExcessInvariance == Spec => []ExcessOK
<1>1. Init => ExcessOK
  BY DEF Init, ExcessOK
<1>2. ASSUME Inv, ExcessOK, [Next]_vars PROVE ExcessOK'
  <2>1. work \in [user: Users, excessBase: Int, excess: Int, repaid: Int,
                  loansLeft: SUBSET Denoms, denomsLeft: Seq(Denoms)]
    BY <1>2, InvParts DEF WorkType
  <2>2. CASE phase' # "denoms"
    BY <2>2 DEF ExcessOK
  <2>3. CASE RepayFromSameDenom
    <3> DEFINE amount == IF TruncateInt(work.excess) < Found THEN TruncateInt(work.excess)
                                                             ELSE Found
    <3>1. InLoop /\ RoundDone(amount, amount) /\ phase' = phase
      BY <2>3 DEF RepayFromSameDenom
    <3>2. amount \in Int
      BY <1>2, <3>1, InRound, TruncateBounds
    <3> HIDE DEF amount
    <3>3. work' = [work EXCEPT !.denomsLeft = Tail(work.denomsLeft),
                     !.excess = work.excess - ToDec(amount), !.repaid = work.repaid + amount]
      BY <3>1 DEF RoundDone
    <3> QED
      BY <1>2, <3>1, <3>2, <3>3, RoundKeepsExcess
  <2>4. ASSUME NEW given \in GivenAmounts, NEW used \in UsedAmounts(given),
               NEW yield \in Yields, SellCollateral(given, used, yield)
        PROVE  ExcessOK'
    <3> DEFINE received == Received(used, yield)
    <3>1. ToSell /\ RoundDone(used, received) /\ phase' = phase
      BY <2>4 DEF SellCollateral
    <3>2. used \in Nat
      BY <1>2, <3>1, Used
    <3>3. received \in Int
      BY <1>2, <3>1, <3>2, ReceivedType
    <3> HIDE DEF received
    <3>4. work' = [work EXCEPT !.denomsLeft = Tail(work.denomsLeft),
                     !.excess = work.excess - ToDec(received), !.repaid = work.repaid + received]
      BY <3>1 DEF RoundDone
    <3> QED
      BY <1>2, <3>1, <3>3, <3>4, RoundKeepsExcess
  <2>5. ASSUME phase' = phase, work' = [work EXCEPT !.denomsLeft = Tail(work.denomsLeft)]
        PROVE  ExcessOK'
    <3>1. work'.excessBase = work.excessBase /\ work'.excess = work.excess
          /\ work'.repaid = work.repaid
      BY <2>1, <2>5
    <3> QED
      BY <1>2, <2>5, <3>1, RestKeepsExcess
  <2>6. ASSUME NEW given, NEW used, SellFailsHalfway(given, used) PROVE ExcessOK'
    BY <2>5, <2>6 DEF SellFailsHalfway
  <2>7. CASE SkipDenom
    BY <2>5, <2>7 DEF SkipDenom
  <2>8. CASE PanicOnEmptyPools
    BY <1>2, <2>8, RestKeepsExcess DEF PanicOnEmptyPools
  <2>9. CASE FinishLoan \/ NoMoreLoans \/ NextBlock
    BY <2>2, <2>9 DEF FinishLoan, NoMoreLoans, NextBlock
  <2>10. ASSUME NEW u \in Users, PassBorrower(u) \/ BeginBorrower(u) PROVE ExcessOK'
    BY <2>2, <2>10 DEF PassBorrower, BeginBorrower
  <2>11. CASE Liquidation
    BY <1>2, <2>3, <2>4, <2>6, <2>7, <2>8, <2>9, <2>10, <2>11, BeginLoanExcess DEF Liquidation
  <2>12. CASE Transaction
    BY <2>2, <2>12 DEF Transaction, Message, Governance, Environment, AddCollateral,
       RemoveCollateral, Borrow, PartiallyRepayLoan, RepayLoan, Repay, AddCollateralDenom,
       UpdateCollateralDenomLTV, UpdateCollateralDenomMaxDeposit, PoolsRunDry, MarketMoves,
       InTx, handling
  <2>13. CASE EndBlock
    <3>1. ASSUME NEW rate \in Rates, NEW o, BeginEndBlock(rate, o) PROVE ExcessOK'
      BY <2>2, <3>1 DEF BeginEndBlock
    <3> QED
      BY <2>11, <2>13, <3>1 DEF EndBlock
  <2>14. CASE UNCHANGED vars
    BY <1>2, <2>14, RestKeepsExcess DEF vars, handling
  <2> QED
    BY <1>2, <2>12, <2>13, <2>14 DEF Next
<1> QED
  BY <1>1, <1>2, Invariance, PTL DEF Spec

\* A round takes from the collateral, unless a loan is repaid in its own denom
\* with a negative excess: then the entry grows, by no more than what was collected.
LEMMA RoundGrows ==
  ASSUME Inv, ExcessOK, RepayFromSameDenom, NEW u \in Users, NEW d \in Denoms,
         collateral'[d][u] > collateral[d][u], work.excessBase >= 0
  PROVE  collateral'[d][u] - collateral[d][u] <= work.repaid
<1> DEFINE e == work.excess
           t == TruncateInt(e)
           amount == IF t < Found THEN t ELSE Found
           C == CollateralDenom
           v == Kept(Found - amount)
<1>1. InLoop /\ RoundDone(amount, amount)
  BY DEF RepayFromSameDenom
<1>2. /\ phase = "denoms" /\ work.user \in Users /\ C \in Denoms
      /\ e \in Int /\ work.repaid \in Int /\ Found \in Nat
  BY <1>1, InRound
<1>3. t \in Int
  BY <1>2, IntTypes
<1>4. collateral \in [Denoms -> [Users -> Nat]]
  BY InvParts DEF StoresOK
<1>5. collateral' = [collateral EXCEPT ![C][work.user] = v]
  <2> HIDE DEF amount
  <2> QED
    BY <1>1 DEF RoundDone, Found
<1>6. v \in Nat
  <2> HIDE DEF t
  <2> QED
    BY <1>2, <1>3 DEF Kept
<1>7. Found = collateral[C][work.user]
  BY DEF Found
<1> HIDE DEF C, v
<1>8. d = C /\ u = work.user /\ collateral'[d][u] = v /\ collateral[d][u] = Found
  <2>1. <<d, u>> # <<C, work.user>> => collateral'[d][u] = collateral[d][u]
    BY <1>2, <1>4, <1>5, <1>6, EntrySet
  <2>2. collateral[d][u] \in Nat
    BY <1>4
  <2>3. d = C /\ u = work.user
    BY <2>1, <2>2
  <2>4. collateral'[C][work.user] = v
    BY <1>2, <1>4, <1>5, <1>6, EntrySet
  <2> QED
    BY <1>7, <2>3, <2>4
<1>9. t < 0 /\ v = Found - t
  <2>1. v > Found
    BY <1>8
  <2> HIDE DEF t
  <2> QED
    BY <1>2, <1>3, <2>1 DEF v, Kept
<1>10. -t <= work.repaid
  <2>1. e < 0
    <3>1. SUFFICES ASSUME e >= 0 PROVE FALSE
      BY <1>2
    <3>2. e \in Nat
      BY <1>2, <3>1
    <3> HIDE DEF e
    <3>3. t \in Nat
      BY <3>2, RoundTruncate
    <3> HIDE DEF t
    <3> QED
      BY <1>9, <3>3
  <2>2. e + ToDec(work.repaid) >= 0
    BY <1>2 DEF ExcessOK
  <2> DEFINE b == -e
             q == b \div Scale
             x == b % Scale
             r == work.repaid
  <2> HIDE DEF e
  <2>3. b \in Nat /\ t = -q
    BY <1>2, <2>1 DEF TruncateInt
  <2>4. Scale \in Nat /\ Scale > 0
    BY ScaleAssumption
  <2>5. r * Scale >= b /\ r \in Int
    BY <1>2, <2>2, <2>4 DEF ToDec
  <2> HIDE DEF b, r
  <2>6. q \in Nat /\ x \in Nat /\ b = Scale * q + x
    BY <2>3, <2>4, DivMod
  <2> HIDE DEF q, x
  <2>7. q * Scale <= r * Scale
    <3>1. Scale * q = q * Scale /\ q * Scale \in Int /\ r * Scale \in Int
      BY <2>4, <2>5, <2>6
    <3> QED
      BY <2>3, <2>5, <2>6, <3>1
  <2>8. q <= r
    BY <2>4, <2>5, <2>6, <2>7, CancelFactor
  <2> HIDE DEF t
  <2>9. -t = q
    BY <2>3, <2>6
  <2> QED
    BY <2>8, <2>9 DEF r
<1> QED
  <2> HIDE DEF t
  <2> QED
    BY <1>2, <1>3, <1>8, <1>9, <1>10

LEMMA SaleLowers ==
  ASSUME Inv, NEW given \in GivenAmounts, NEW used \in UsedAmounts(given),
         NEW yield \in Yields, SellCollateral(given, used, yield),
         NEW u \in Users, NEW d \in Denoms
  PROVE  collateral'[d][u] <= collateral[d][u]
<1> DEFINE v == Kept(Found - used)
           C == CollateralDenom
           received == Received(used, yield)
<1>1. ToSell /\ InLoop /\ RoundDone(used, received)
  BY DEF SellCollateral, ToSell
<1>2. work.user \in Users /\ C \in Denoms /\ Found \in Nat
  BY <1>1, InRound
<1>3. used \in Nat /\ used <= Found
  BY <1>1, Used
<1>4. v \in Nat /\ v <= Found
  BY <1>2, <1>3 DEF Kept
<1>5. collateral \in [Denoms -> [Users -> Nat]]
  BY InvParts DEF StoresOK
<1>6. collateral' = [collateral EXCEPT ![C][work.user] = v]
  <2> HIDE DEF received
  <2> QED
    BY <1>1 DEF RoundDone, Found
<1>7. Found = collateral[C][work.user]
  BY DEF Found
<1> HIDE DEF C, v
<1>8. /\ collateral'[C][work.user] = v
      /\ <<d, u>> # <<C, work.user>> => collateral'[d][u] = collateral[d][u]
  BY <1>2, <1>4, <1>5, <1>6, EntrySet
<1>9. CASE <<d, u>> = <<C, work.user>>
  BY <1>4, <1>7, <1>8, <1>9
<1>10. CASE <<d, u>> # <<C, work.user>>
  <2>1. collateral[d][u] \in Nat
    BY <1>5
  <2> QED
    BY <1>8, <1>10, <2>1
<1> QED
  BY <1>9, <1>10

\* processLiquidation takes the excess that is left from collateral of the loan's
\* own denom, although it may be negative.  The entry then grows; it never grows by
\* more than the coins that were collected for the loan, unless an earlier loan of
\* the borrower was repaid beyond the excess.
THEOREM CollateralGrowsByOverpayment == Spec => GrowthNeedsOverpayment
<1>1. ASSUME Inv, ExcessOK, [Next]_vars, NEW u \in Users, NEW d \in Denoms,
             phase = "denoms", collateral'[d][u] > collateral[d][u]
      PROVE  \/ work.excessBase < 0
             \/ collateral'[d][u] - collateral[d][u] <= work.repaid
  <2>1. collateral[d][u] \in Nat /\ work.excessBase \in Int
    BY <1>1, InvParts DEF StoresOK, WorkType
  <2>2. ~ UNCHANGED collateral
    BY <1>1, <2>1
  <2>3. CASE RepayFromSameDenom
    BY <1>1, <2>1, <2>3, RoundGrows
  <2>4. ASSUME NEW given \in GivenAmounts, NEW used \in UsedAmounts(given),
               NEW yield \in Yields, SellCollateral(given, used, yield)
        PROVE  FALSE
    <3>1. collateral'[d][u] <= collateral[d][u]
      BY <1>1, <2>4, SaleLowers
    <3>2. collateral'[d][u] \in Nat
      BY <1>1, EveryStep, InvParts DEF Inv, StoresOK
    <3> QED
      BY <1>1, <2>1, <3>1, <3>2
  <2>5. CASE Transaction
    BY <1>1, <2>5 DEF Transaction, Message, Governance, Environment, AddCollateral,
       RemoveCollateral, Borrow, PartiallyRepayLoan, RepayLoan, Repay, AddCollateralDenom,
       UpdateCollateralDenomLTV, UpdateCollateralDenomMaxDeposit, PoolsRunDry, MarketMoves, InTx
  <2>6. CASE Liquidation
    <3>1. ASSUME NEW w \in Users PROVE ~PassBorrower(w) /\ ~BeginBorrower(w)
      BY <1>1 DEF PassBorrower, BeginBorrower
    <3>2. ~BeginLoan /\ ~NoMoreLoans /\ ~NextBlock
      BY <1>1 DEF BeginLoan, NoMoreLoans, NextBlock
    <3>3. ~PanicOnEmptyPools /\ ~SkipDenom /\ ~FinishLoan
      BY <2>2 DEF PanicOnEmptyPools, SkipDenom, FinishLoan, positions
    <3>4. ASSUME NEW given, NEW used PROVE ~SellFailsHalfway(given, used)
      BY <2>2 DEF SellFailsHalfway, positions
    <3> QED
      BY <2>3, <2>4, <2>6, <3>1, <3>2, <3>3, <3>4 DEF Liquidation
  <2>7. CASE EndBlock
    <3>1. ASSUME NEW rate \in Rates, NEW o PROVE ~BeginEndBlock(rate, o)
      BY <1>1 DEF BeginEndBlock, InTx
    <3> QED
      BY <2>6, <2>7, <3>1 DEF EndBlock
  <2>8. CASE UNCHANGED vars
    BY <2>2, <2>8 DEF vars, positions
  <2> QED
    BY <1>1, <2>5, <2>7, <2>8 DEF Next
<1>2. Inv /\ ExcessOK /\ [Next]_vars =>
        [\A u \in Users, d \in Denoms :
           (phase = "denoms" /\ collateral'[d][u] > collateral[d][u])
             => \/ work.excessBase < 0
                \/ collateral'[d][u] - collateral[d][u] <= work.repaid]_vars
  BY <1>1
<1> QED
  BY <1>2, Invariance, ExcessInvariance, PTL DEF Spec, GrowthNeedsOverpayment

=============================================================================
