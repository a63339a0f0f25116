---------------------------- MODULE Swap_proofs ----------------------------
(***************************************************************************)
(* Proofs about Swap, for all kCoins, markets, parameters and numbers of   *)
(* blocks: what Burn and Mint leave balances, the stakers' rewards are     *)
(* bounded, and what is minted stays within its limits.                    *)
(*                                                                         *)
(* The work is in the amounts.  The theorems need every amount that is     *)
(* minted, sold or paid out to be an integer, and what a trade pays out to *)
(* be no debt, and these are computed with four divisions, two rounding    *)
(* rules and a square root: no price may be zero (CalculatePrice), no pool *)
(* may be sold more than empty, and a trade so small that rounding decides *)
(* must not cost the pools more than it brings.                            *)
(***************************************************************************)
EXTENDS Swap, Sums_proofs, Dec_proofs, FiniteSetTheorems, TLAPS

-----------------------------------------------------------------------------
(* What a trade brings.                                                    *)

LEMMA BoughtInt ==
  ASSUME NEW from \in Nat, NEW to \in Nat, NEW offer \in Nat, from > 0
  PROVE  Bought(from, to, offer) \in Int
<1>1. Mul(from, to) \in Nat /\ from + offer \in Nat /\ from + offer > 0
  BY MulType
<1>2. Quo(Mul(from, to), from + offer) \in Nat
  BY <1>1, QuoType
<1> QED
  BY <1>2 DEF Bought

\* Rounding may raise the new pool above the old one, and the trade would be
\* paid by the trader; not if at least half a coin is offered.
LEMMA BoughtNat ==
  ASSUME NEW from \in Nat, NEW to \in Nat, NEW offer \in Nat,
         from > 0, to > 0, 2 * offer >= Scale
  PROVE  Bought(from, to, offer) \in Nat /\ Bought(from, to, offer) <= to
<1> DEFINE m == Mul(from, to)
           b == from + offer
           q == Quo(m, b)
<1>1. m \in Nat /\ b \in Nat /\ b > 0
  <2>1. m \in Nat
    BY MulType
  <2> QED
    BY <2>1
<1>2. 2 * (Scale * m) <= 2 * (from * to) + Scale
  <2>1. from * to \in Nat
    OBVIOUS
  <2>2. m = HalfEven(from * to)
    BY <2>1 DEF Mul, ChopRound
  <2> QED
    BY <2>1, <2>2, HalfEvenNear
<1>3. q \in Nat /\ 2 * (q * b) <= 2 * (m * Scale) + b
  <2> HIDE DEF m, b
  <2> QED
    BY <1>1, QuoType, QuoNear
<1>4. q <= to
  <2>1. SUFFICES ASSUME q >= to + 1 PROVE FALSE
    BY <1>3
  <2>2. (to + 1) * b <= q * b
    <3> HIDE DEF q, b
    <3> QED
      BY <1>1, <1>3, <2>1
  <2>3. (to + 1) * b = from * to + to * offer + from + offer
    OBVIOUS
  <2>4. offer <= to * offer
    OBVIOUS
  <2>5. q * b \in Nat /\ m * Scale = Scale * m /\ Scale * m \in Nat
    <3> HIDE DEF q, b, m
    <3> QED
      BY <1>1, <1>3, ScaleAssumption
  <2>6. from * to \in Nat /\ to * offer \in Nat
    OBVIOUS
  <2> QED
    <3> DEFINE x == q * b
               y == Scale * m
               z == from * to
               w == to * offer
    <3>1. /\ z + w + from + offer <= x /\ 2 * x <= 2 * y + from + offer
          /\ 2 * y <= 2 * z + Scale /\ offer <= w
          /\ x \in Nat /\ y \in Nat /\ z \in Nat /\ w \in Nat
      BY <1>2, <1>3, <2>2, <2>3, <2>4, <2>5, <2>6
    <3> HIDE DEF x, y, z, w
    <3> QED
      BY <3>1, ScaleAssumption
<1>5. Bought(from, to, offer) = to - q
  BY DEF Bought
<1> HIDE DEF q
<1> QED
  BY <1>3, <1>4, <1>5

LEMMA NetOfNat ==
  ASSUME NEW a \in Nat, NEW fee \in Nat, fee <= Scale
  PROVE  NetOf(a, fee) \in Nat
<1>1. Mul(a, fee) \in Nat /\ Mul(a, fee) <= a
  BY MulType, MulBelow
<1> QED
  BY <1>1 DEF NetOf

LEMMA PayoutNat ==
  ASSUME NEW gross \in Nat
  PROVE  Payout(gross) \in Nat /\ Payout(gross) <= gross
<1>1. TradeFee \in Nat /\ TradeFee <= Scale
  BY SwapAssumption, ScaleAssumption
<1>2. ToDec(gross) \in Nat
  BY ToDecNat
<1>3. Mul(ToDec(gross), TradeFee) \in Nat /\ Mul(ToDec(gross), TradeFee) <= ToDec(gross)
  BY <1>1, <1>2, MulType, MulBelow
<1>4. /\ RoundInt(Mul(ToDec(gross), TradeFee)) \in Nat
      /\ RoundInt(Mul(ToDec(gross), TradeFee)) <= gross
  BY <1>3, RoundTruncate, RoundBelow
<1> QED
  BY <1>4 DEF Payout

-----------------------------------------------------------------------------
(* The square root.  It exists because a set of naturals has a least       *)
(* element (Least).                                                        *)

\* The multiple of s whose square is the largest below a number.
LEMMA RootExists ==
  ASSUME NEW x \in Nat, NEW s \in Nat, s > 0, NEW a \in Nat, x < ((a + 1) * s) * ((a + 1) * s)
  PROVE  \E n \in 0..a : (n * s) * (n * s) <= x /\ ((n + 1) * s) * ((n + 1) * s) > x
<1> DEFINE Above(n) == ((n + 1) * s) * ((n + 1) * s) > x
           T == {n \in Nat : Above(n)}
<1>1. a \in T
  OBVIOUS
<1>2. PICK n \in T : \A m \in T : n <= m
  <2>1. T \in SUBSET Nat /\ T # {}
    BY <1>1
  <2> HIDE DEF T
  <2> QED
    BY <2>1, Least
<1>3. n \in Nat /\ Above(n) /\ n <= a
  BY <1>1, <1>2
<1>4. (n * s) * (n * s) <= x
  <2>1. CASE n = 0
    BY <2>1
  <2>2. CASE n > 0
    <3>1. n - 1 \in Nat /\ ~(n <= n - 1)
      BY <1>3, <2>2
    <3>2. n - 1 \notin T
      <4> HIDE DEF T
      <4> QED
        BY <1>2, <3>1
    <3>3. ~Above(n - 1)
      BY <3>1, <3>2
    <3>4. (n - 1) + 1 = n
      BY <1>3
    <3>5. ~((n * s) * (n * s) > x)
      BY <3>3, <3>4
    <3>6. (n * s) * (n * s) \in Nat
      BY <1>3
    <3> QED
      BY <3>5, <3>6
  <2> QED
    BY <1>3, <2>1, <2>2
<1> QED
  BY <1>3, <1>4

LEMMA Squares ==
  ASSUME NEW m \in Nat, NEW n \in Nat, m * m < n * n
  PROVE  m < n
<1>1. SUFFICES ASSUME n <= m PROVE FALSE
  OBVIOUS
<1>2. n * n <= n * m /\ n * m <= m * m
  BY <1>1
<1>3. n * n \in Nat /\ n * m \in Nat /\ m * m \in Nat
  OBVIOUS
<1> QED
  BY <1>2, <1>3

LEMMA SqrtType ==
  ASSUME NEW a \in Nat
  PROVE  ApproxSqrt(a) \in Nat
<1> DEFINE square == a * Scale
           Root(s, t) == s * s <= square /\ t * t > square
           q == CHOOSE n \in 0..a : Root(n * Scale, (n + 1) * Scale)
<1>1. Scale \in Nat /\ Scale > 0 /\ square \in Nat
  BY ScaleAssumption
<1>2. \E n \in 0..a : Root(n * Scale, (n + 1) * Scale)
  <2>1. square < ((a + 1) * Scale) * ((a + 1) * Scale)
    <3> DEFINE b == (a + 1) * Scale
    <3>1. b \in Nat /\ square < b /\ b > 0
      BY <1>1
    <3>2. b <= b * b
      <4> HIDE DEF b
      <4> QED
        BY <3>1
    <3>3. square < b * b
      <4> DEFINE v == b * b
      <4>1. b <= v /\ b \in Nat /\ v \in Nat /\ square < b
        BY <3>1, <3>2
      <4>2. square < v
        <5> HIDE DEF b, v, square
        <5> QED
          BY <1>1, <4>1
      <4> QED
        BY <4>2
    <3> QED
      BY <3>3
  <2> HIDE DEF square
  <2> QED
    BY <1>1, <2>1, RootExists
<1>3. q \in 0..a /\ Root(q * Scale, (q + 1) * Scale)
  <2> HIDE DEF Root
  <2> QED
    BY <1>2
<1> HIDE DEF q
<1>4. \E s \in (q * Scale)..((q + 1) * Scale) : Root(s, s + 1)
  <2> DEFINE b == q * Scale
             c == (q + 1) * Scale
  <2>1. q \in Nat /\ b \in Nat /\ c \in Nat /\ b * b <= square /\ c * c > square
    BY <1>1, <1>3
  <2> HIDE DEF b, c, square
  <2>2. \E s \in 0..c : (s * 1) * (s * 1) <= square /\ ((s + 1) * 1) * ((s + 1) * 1) > square
    <3>1. c * c <= ((c + 1) * 1) * ((c + 1) * 1)
      BY <2>1
    <3>2. square < ((c + 1) * 1) * ((c + 1) * 1)
      <4> DEFINE u == c * c
                 v == ((c + 1) * 1) * ((c + 1) * 1)
      <4>1. u \in Nat /\ v \in Nat /\ u <= v /\ u > square
        BY <2>1, <3>1
      <4>2. square < v
        <5> HIDE DEF u, v
        <5> QED
          BY <1>1, <4>1
      <4> QED
        BY <4>2
    <3>3. 1 \in Nat /\ 1 > 0
      OBVIOUS
    <3> QED
      BY <1>1, <2>1, <3>2, <3>3, RootExists
  <2>3. PICK s \in 0..c : (s * 1) * (s * 1) <= square /\ ((s + 1) * 1) * ((s + 1) * 1) > square
    BY <2>2
  <2>4. s \in Nat /\ s * s <= square /\ (s + 1) * (s + 1) > square
    BY <2>1, <2>3
  <2>5. s <= c
    BY <2>1, <2>3
  <2>6. b < s + 1
    <3>1. b * b < (s + 1) * (s + 1)
      <4> DEFINE u == b * b
                 v == (s + 1) * (s + 1)
      <4>1. u \in Nat /\ v \in Nat /\ u <= square /\ v > square
        BY <2>1, <2>4
      <4>2. u < v
        <5> HIDE DEF u, v
        <5> QED
          BY <1>1, <4>1
      <4> QED
        BY <4>2
    <3>2. s + 1 \in Nat
      BY <2>4
    <3> QED
      BY <2>1, <3>1, <3>2, Squares
  <2>7. s \in b..c
    BY <2>1, <2>4, <2>5, <2>6
  <2> QED
    BY <2>4, <2>7 DEF b, c, square
<1>5. ApproxSqrt(a) \in (q * Scale)..((q + 1) * Scale)
  BY <1>4 DEF ApproxSqrt, q
<1> QED
  BY <1>1, <1>3, <1>5

-----------------------------------------------------------------------------
(* The amounts of Burn and Mint.                                           *)

Accounts == KCoins \cup {Base}

\* TypeOK without the claim that supplies are never negative: that depends on
\* how many coins the traders of the dex hold, which is not modelled.
Types ==
  /\ pools \in [Denoms -> [base: Nat \ {0}, other: Nat \ {0}]]
  /\ ratio \in [Denoms -> Nat]
  /\ refs \in [KCoins -> SUBSET Fiat]
  /\ maxSupply \in [KCoins -> MaxSupplies]
  /\ share \in StakingShares
  /\ supply \in [Accounts -> Int]
  /\ account \in [Accounts -> Nat]
  /\ phase \in {"tx", "burn", "mint"}
  /\ queue \subseteq KCoins
  /\ txs \in 0..MaxTxs
  /\ blocks \in 0..MaxBlocks
  /\ traded \in [Accounts -> Int]
  /\ earned \in Nat
  /\ unspent \in Nat
  /\ rewards \in Nat

LEMMA PoolTypes ==
  ASSUME Types, NEW d \in Denoms
  PROVE  /\ pools[d].base \in Nat /\ pools[d].base > 0
         /\ pools[d].other \in Nat /\ pools[d].other > 0
BY DEF Types

LEMMA ForDenomNat ==
  ASSUME Types, NEW d \in Denoms, NEW offer \in Nat, offer > 0
  PROVE  ForDenom(d, offer) \in Nat
<1> DEFINE b == Bought(pools[d].other, pools[d].base, ToDec(offer))
<1>1. ToDec(offer) \in Nat /\ 2 * ToDec(offer) >= Scale
  BY ToDecNat, ScaleAssumption
<1>2. b \in Nat
  BY <1>1, PoolTypes, BoughtNat
<1>3. TruncateInt(b) \in Nat
  BY <1>2, RoundTruncate
<1> QED
  BY <1>3, PayoutNat DEF ForDenom

LEMMA ForBaseNat ==
  ASSUME Types, NEW d \in Denoms, NEW offer \in Nat, offer > 0
  PROVE  ForBase(d, offer) \in Nat
<1> DEFINE b == Bought(pools[d].base, pools[d].other, ToDec(offer))
<1>1. ToDec(offer) \in Nat /\ 2 * ToDec(offer) >= Scale
  BY ToDecNat, ScaleAssumption
<1>2. b \in Nat
  BY <1>1, PoolTypes, BoughtNat
<1>3. TruncateInt(b) \in Nat
  BY <1>2, RoundTruncate
<1> QED
  BY <1>3, PayoutNat DEF ForBase

LEMMA ReserveFeeType ==
  ASSUME NEW fee \in Nat, fee <= Scale
  PROVE  ReserveFee(fee) \in Nat /\ ReserveFee(fee) <= fee
<1> DEFINE part == Scale - ReserveShare
<1>1. part \in Nat /\ part <= Scale
  BY SwapAssumption, ScaleAssumption
<1> HIDE DEF part
<1>2. Mul(fee, part) \in Nat /\ Mul(fee, part) <= fee
  BY <1>1, MulType, MulBelow
<1> QED
  BY <1>2 DEF ReserveFee, part

LEMMA HalfFee ==
  /\ Quo(TradeFee, ToDec(2)) \in Nat
  /\ 2 * Quo(TradeFee, ToDec(2)) <= Scale
<1> DEFINE h == Quo(TradeFee, ToDec(2))
<1>1. TradeFee \in Nat /\ TradeFee <= Scale /\ ToDec(2) \in Nat /\ ToDec(2) > 0
      /\ ToDec(2) = 2 * Scale
  BY SwapAssumption, ScaleAssumption DEF ToDec
<1>2. h \in Nat /\ 2 * (h * ToDec(2)) <= 2 * (TradeFee * Scale) + ToDec(2)
  BY <1>1, QuoType, QuoNear
<1> HIDE DEF h
<1>3. (2 * h) * Scale <= (TradeFee + 1) * Scale
  <2>1. 2 * (h * ToDec(2)) = 2 * ((2 * h) * Scale)
    BY <1>1, <1>2, ScaleAssumption
  <2>2. 2 * (TradeFee * Scale) + ToDec(2) = 2 * ((TradeFee + 1) * Scale)
    BY <1>1, ScaleAssumption
  <2>3. (2 * h) * Scale \in Nat /\ (TradeFee + 1) * Scale \in Nat
    BY <1>1, <1>2, ScaleAssumption
  <2> QED
    BY <1>2, <2>1, <2>2, <2>3
<1>4. 2 * h <= TradeFee + 1
  <2> SUFFICES ASSUME 2 * h >= (TradeFee + 1) + 1 PROVE FALSE
    BY <1>1, <1>2
  <2> DEFINE n == 2 * h
             m == TradeFee + 1
  <2>1. n \in Nat /\ m \in Nat /\ n >= m + 1 /\ n * Scale <= m * Scale
    BY <1>1, <1>2, <1>3
  <2> HIDE DEF n, m
  <2>2. (m + 1) * Scale <= n * Scale /\ (m + 1) * Scale = m * Scale + Scale
    BY <2>1, ScaleAssumption
  <2>3. m * Scale \in Nat /\ n * Scale \in Nat
    BY <2>1, ScaleAssumption
  <2> QED
    BY <2>1, <2>2, <2>3, ScaleAssumption
<1>5. 2 * h <= Scale
  BY <1>1, <1>2, <1>4, ScaleAssumption
<1> QED
  BY <1>2, <1>5 DEF h

LEMMA NetOfInt ==
  ASSUME NEW a \in Int, NEW fee \in Int
  PROVE  NetOf(a, fee) \in Int
BY MulInt DEF NetOf

LEMMA SimulateToBaseInt ==
  ASSUME Types, NEW d \in Denoms, NEW amount \in Nat
  PROVE  SimulateToBase(d, amount) \in Int
<1> DEFINE fee == ReserveFee(TradeFee)
           offer == NetOf(ToDec(amount), fee)
           b == Bought(pools[d].other, pools[d].base, offer)
<1>1. fee \in Nat /\ fee <= Scale
  <2>1. TradeFee \in Nat /\ TradeFee <= Scale
    BY SwapAssumption, ScaleAssumption
  <2>2. ReserveFee(TradeFee) \in Nat /\ ReserveFee(TradeFee) <= TradeFee
    BY <2>1, ReserveFeeType
  <2> QED
    BY <2>1, <2>2, ScaleAssumption
<1>2. offer \in Nat
  <2> HIDE DEF fee
  <2> QED
    BY <1>1, ToDecNat, NetOfNat
<1>3. b \in Int
  <2> HIDE DEF offer
  <2> QED
    BY <1>2, PoolTypes, BoughtInt
<1>4. NetOf(b, fee) \in Int
  <2> HIDE DEF b, fee
  <2> QED
    BY <1>1, <1>3, NetOfInt
<1>5. ReceivedToBase(d, amount) \in Int
  BY <1>4 DEF ReceivedToBase
<1> QED
  BY <1>5, IntTypes DEF SimulateToBase

\* With at most half of a coin as fee, at least half of one is offered.
LEMMA OfferedHalf ==
  ASSUME NEW amount \in Nat, amount > 0, NEW fee \in Nat, 2 * fee <= Scale
  PROVE  NetOf(ToDec(amount), fee) \in Nat /\ 2 * NetOf(ToDec(amount), fee) >= Scale
<1>1. Mul(ToDec(amount), fee) = amount * fee
  BY MulWhole
<1>2. amount * (2 * fee) <= amount * Scale /\ Scale <= amount * Scale
  BY ScaleAssumption
<1>3. amount * (2 * fee) = 2 * (amount * fee)
  OBVIOUS
<1>4. amount * fee \in Nat /\ amount * Scale \in Nat
  BY ScaleAssumption
<1>5. NetOf(ToDec(amount), fee) = amount * Scale - amount * fee
  BY <1>1 DEF NetOf, ToDec
<1> QED
  BY <1>2, <1>3, <1>4, <1>5, ScaleAssumption

LEMMA SimulateBetweenInt ==
  ASSUME Types, NEW s \in Denoms, NEW e \in Denoms, NEW amount \in Nat, amount > 0
  PROVE  SimulateBetween(s, e, amount) \in Int
<1> DEFINE half == Quo(TradeFee, ToDec(2))
           fee == ReserveFee(half)
           offer == NetOf(ToDec(amount), fee)
           first == Bought(pools[s].other, pools[s].base, offer)
           base == NetOf(first, fee)
           second == Bought(pools[e].base, pools[e].other, base)
<1>1. fee \in Nat /\ 2 * fee <= Scale /\ fee <= Scale
  <2>1. half \in Nat /\ 2 * half <= Scale /\ half <= Scale
    BY HalfFee, ScaleAssumption
  <2> HIDE DEF half
  <2>2. ReserveFee(half) \in Nat /\ ReserveFee(half) <= half
    BY <2>1, ReserveFeeType
  <2> QED
    BY <2>1, <2>2, ScaleAssumption
<1>2. offer \in Nat /\ 2 * offer >= Scale
  <2> HIDE DEF fee
  <2> QED
    BY <1>1, OfferedHalf
<1>3. first \in Nat
  <2> HIDE DEF offer
  <2> QED
    BY <1>2, PoolTypes, BoughtNat
<1>4. base \in Nat
  <2> HIDE DEF first, fee
  <2> QED
    BY <1>1, <1>3, NetOfNat
<1>5. second \in Int
  <2> HIDE DEF base
  <2> QED
    BY <1>4, PoolTypes, BoughtInt
<1>6. NetOf(second, fee) \in Int
  <2> HIDE DEF second, fee
  <2> QED
    BY <1>1, <1>5, NetOfInt
<1>7. ReceivedBetween(s, e, amount) \in Int
  BY <1>6 DEF ReceivedBetween
<1> QED
  BY <1>7, IntTypes DEF SimulateBetween

LEMMA PricedRatio ==
  ASSUME Types, NEW k \in KCoins, Priced(k), NEW r \in refs[k]
  PROVE  r \in Denoms /\ k \in Denoms /\ ratio[r] \in Nat /\ ratio[r] > 0
<1>1. r \in Denoms /\ k \in Denoms /\ ratio[r] \in Nat /\ ratio[k] \in Nat
  BY DEF Types, Denoms
<1>2. ratio[k] > 0 /\ Mul(Quo(Scale, ratio[k]), ratio[r]) > 0
  BY DEF Priced
<1>3. Quo(Scale, ratio[k]) \in Nat
  BY <1>1, <1>2, ScaleAssumption, QuoType
<1>4. ASSUME ratio[r] = 0 PROVE FALSE
  <2>1. Mul(Quo(Scale, ratio[k]), 0) <= 0
    <3>1. Quo(Scale, ratio[k]) * 0 = 0
      BY <1>3
    <3>2. HalfEven(0) \in Nat /\ HalfEven(0) <= 0
      BY HalfEvenBounds, HalfEvenBelow, ScaleAssumption
    <3> QED
      BY <3>1, <3>2 DEF Mul, ChopRound
  <2>2. Mul(Quo(Scale, ratio[k]), 0) \in Nat
    BY <1>3, MulType
  <2> QED
    BY <1>2, <1>4, <2>1, <2>2
<1> QED
  BY <1>1, <1>4

LEMMA BurnAmountsInt ==
  ASSUME Types, NEW k \in KCoins, Priced(k), NEW minted \in BurnAmounts(k)
  PROVE  minted \in Int
<1>1. ASSUME NEW r \in refs[k] PROVE BurnDue(k, r) \in Int
  <2> DEFINE diff == pools[k].other - pools[r].other
  <2>1. r \in Denoms /\ k \in Denoms
    BY <1>1, PricedRatio
  <2>2. diff \in Int
    BY <2>1, PoolTypes
  <2> HIDE DEF diff
  <2>3. ASSUME ~(diff <= 0) PROVE SimulateToBase(r, AmountToBurn(diff)) \in Int
    <3>1. diff \in Nat
      BY <2>2, <2>3
    <3>2. RoundInt(diff) \in Nat /\ MaxBurnAmount \in Nat
      BY <3>1, RoundTruncate, SwapAssumption
    <3>3. AmountToBurn(diff) \in Nat
      BY <3>2 DEF AmountToBurn, MinInt
    <3> QED
      BY <2>1, <3>3, SimulateToBaseInt
  <2>4. BaseMintAmount(k, r) \in Int
    BY <2>3 DEF BaseMintAmount, diff
  <2> QED
    BY <2>4 DEF BurnDue
<1>2. Highest(k) \subseteq refs[k]
  BY DEF Highest
<1> QED
  BY <1>1, <1>2 DEF BurnAmounts

LEMMA MintAmountsInt ==
  ASSUME Types, NEW k \in KCoins, Priced(k), NEW minted \in MintAmounts(k)
  PROVE  minted \in Int
<1>1. ASSUME NEW r \in refs[k] PROVE MintDue(k, r) \in Int
  <2> DEFINE product == Mul(pools[k].base, pools[k].other)
             root == ApproxSqrt(Quo(product, ratio[r]))
             calculated == KCoinMintAmount(k, r)
             limited == MinInt(calculated, MaxMintAmount)
             amount == MintAmount(k, r)
  <2>1. r \in Denoms /\ k \in Denoms /\ ratio[r] \in Nat /\ ratio[r] > 0
    BY <1>1, PricedRatio
  <2>2. product \in Nat
    BY <2>1, PoolTypes, MulType
  <2>3. root \in Nat
    <3> HIDE DEF product
    <3> QED
      BY <2>1, <2>2, QuoType, SqrtType
  <2>4. calculated \in Int
    <3>1. root - pools[k].other \in Int
      <4> HIDE DEF root
      <4> QED
        BY <2>1, <2>3, PoolTypes
    <3>2. calculated = TruncateInt(root - pools[k].other)
      BY DEF KCoinMintAmount
    <3> HIDE DEF root, calculated
    <3> QED
      BY <3>1, <3>2, IntTypes
  <2>5. limited \in Int
    <3> HIDE DEF calculated
    <3> QED
      BY <2>4, SwapAssumption DEF MinInt
  <2>6. amount \in Int
    <3>1. supply[k] \in Int /\ maxSupply[k] \in Int
      <4>1. supply[k] \in Int /\ maxSupply[k] \in MaxSupplies
        BY DEF Types, Accounts
      <4>2. MaxSupplies \subseteq Nat
        BY SwapAssumption
      <4>3. maxSupply[k] \in Nat
        BY <4>1, <4>2
      <4> QED
        BY <4>1, <4>3
    <3>2. amount = AdjustForSupplyCap(k, limited)
      BY DEF MintAmount
    <3> HIDE DEF limited, amount
    <3> QED
      BY <2>5, <3>1, <3>2 DEF AdjustForSupplyCap, MinInt
  <2> HIDE DEF amount
  <2>7. ASSUME ~(amount <= 0) PROVE SimulateBetween(r, k, amount) \in Int
    <3>1. amount \in Nat /\ amount > 0
      BY <2>6, <2>7
    <3> QED
      BY <2>1, <3>1, SimulateBetweenInt
  <2>8. KCoinsToMint(k, r, amount) \in Int
    BY <2>7 DEF KCoinsToMint
  <2> QED
    BY <2>8 DEF MintDue, amount
<1>2. Highest(k) \subseteq refs[k]
  BY DEF Highest
<1> QED
  BY <1>1, <1>2 DEF MintAmounts

-----------------------------------------------------------------------------
(* The inductive invariant.                                                *)

\* A loop is over before the next one begins, and MaxBlocks is not passed.
LoopOK ==
  /\ phase = "tx" => queue = {}
  /\ phase # "tx" => blocks < MaxBlocks

\* Payments to the stakers that Mint may have made so far.
Served ==
  IF phase = "mint" THEN Cardinality(KCoins) - Cardinality(queue) ELSE 0

\* RewardsBounded, made inductive: the base currency that is still in the
\* account has not been paid a share of, and each kCoin is served once a block.
Paid ==
  \A s \in StakingShares : (\A t \in StakingShares : t <= s) =>
    2 * (Scale * rewards)
      <= 2 * (s * (earned + unspent - account[Base]))
           + Scale * (blocks * Cardinality(KCoins) + Served)

Inv == Types /\ LoopOK /\ SwapBooks /\ Paid

LEMMA KCoinsFinite ==
  /\ IsFiniteSet(KCoins)
  /\ \A Q \in SUBSET KCoins : IsFiniteSet(Q) /\ Cardinality(Q) \in Nat
                               /\ Cardinality(Q) <= Cardinality(KCoins)
  /\ Cardinality(KCoins) \in Nat
<1>1. IsFiniteSet(KCoins)
  BY SwapAssumption, FS_Subset DEF Denoms
<1> QED
  BY <1>1, FS_Subset, FS_CardinalityType

LEMMA QueueShrinks ==
  ASSUME NEW Q \in SUBSET KCoins, NEW k \in Q
  PROVE  Cardinality(Q \ {k}) = Cardinality(Q) - 1
BY KCoinsFinite, FS_RemoveElement

LEMMA BaseApart == Base \notin KCoins /\ Base \in Accounts /\ KCoins \subseteq Accounts
BY SwapAssumption DEF Denoms, Accounts

LEMMA ShareTypes ==
  ASSUME NEW s \in StakingShares
  PROVE  s \in Nat /\ s <= Scale
BY SwapAssumption, ScaleAssumption

LEMMA TradeTypes ==
  ASSUME Types, NEW d \in Denoms, NEW base \in Int, NEW other \in Int,
         Trade(d, base, other)
  PROVE  /\ pools' \in [Denoms -> [base: Nat \ {0}, other: Nat \ {0}]]
         /\ ratio' \in [Denoms -> Nat]
<1>1. ASSUME NEW c \in Denoms
      PROVE  pools'[c] \in [base: Nat \ {0}, other: Nat \ {0}]
  <2>1. /\ pools[c].base \in Nat /\ pools[c].other \in Nat /\ pools[c].other > 0
        /\ pools[d].other \in Nat
    BY PoolTypes
  <2>2. pools'[c].base = pools[c].base + base /\ pools[c].base + base > 0
    BY DEF Trade
  <2>3. pools'[c].other = pools[c].other + IF c = d THEN other ELSE 0
    BY DEF Trade
  <2>4. pools[d].other + other > 0
    BY DEF Trade
  <2>5. pools'[c].base \in Nat \ {0} /\ pools'[c].other \in Nat \ {0}
    BY <2>1, <2>2, <2>3, <2>4
  <2>6. pools'[c] = [base |-> pools'[c].base, other |-> pools'[c].other]
    BY DEF Trade
  <2> QED
    BY <2>5, <2>6
<1>2. pools' \in [Denoms -> [base: Nat \ {0}, other: Nat \ {0}]]
  BY <1>1 DEF Trade
<1>3. Quo(pools'[d].other, pools'[d].base) \in Nat
  <2>1. /\ pools'[d].other \in Nat /\ pools'[d].base \in Nat /\ pools'[d].base > 0
    BY <1>1
  <2> QED
    BY <2>1, QuoType
<1>4. ratio' \in [Denoms -> Nat]
  BY <1>3 DEF Types, Trade
<1> QED
  BY <1>2, <1>4

LEMMA InitInv == Init => Inv
<1> SUFFICES ASSUME Init PROVE Inv
  OBVIOUS
<1>1. Types
  <2>1. pools \in [Denoms -> [base: Nat \ {0}, other: Nat \ {0}]]
    BY SwapAssumption DEF Init
  <2>2. \A d \in Denoms : Quo(pools[d].other, pools[d].base) \in Nat
    <3> TAKE d \in Denoms
    <3>1. pools[d].other \in Nat /\ pools[d].base \in Nat /\ pools[d].base > 0
      BY <2>1
    <3> QED
      BY <3>1, QuoType
  <2>3. ratio \in [Denoms -> Nat]
    BY <2>2 DEF Init
  <2>4. /\ refs \in [KCoins -> SUBSET Fiat]
        /\ maxSupply \in [KCoins -> MaxSupplies]
        /\ share \in StakingShares
    BY SwapAssumption DEF Init
  <2>5. /\ supply \in [Accounts -> Int] /\ account \in [Accounts -> Nat]
        /\ traded \in [Accounts -> Int]
    BY SwapAssumption DEF Init, Accounts
  <2>6. /\ phase \in {"tx", "burn", "mint"} /\ queue \subseteq KCoins
        /\ txs \in 0..MaxTxs /\ blocks \in 0..MaxBlocks
        /\ earned \in Nat /\ unspent \in Nat /\ rewards \in Nat
    BY SwapAssumption DEF Init
  <2> QED
    BY <2>1, <2>3, <2>4, <2>5, <2>6 DEF Types
<1>2. LoopOK
  BY DEF Init, LoopOK
<1>3. SwapBooks
  <2>1. InitialSupply \in Nat /\ GenesisBase \in Nat
    BY SwapAssumption
  <2> QED
    BY <2>1 DEF Init, SwapBooks
<1>4. Paid
  <2> SUFFICES ASSUME NEW s \in StakingShares
               PROVE  2 * (Scale * rewards)
                        <= 2 * (s * (earned + unspent - account[Base]))
                             + Scale * (blocks * Cardinality(KCoins) + Served)
    BY DEF Paid
  <2>1. rewards = 0 /\ earned = 0 /\ unspent = 0 /\ account[Base] = 0 /\ blocks = 0
        /\ Served = 0
    BY DEF Init, Served
  <2> QED
    BY <2>1, ShareTypes, KCoinsFinite, ScaleAssumption
<1> QED
  BY <1>1, <1>2, <1>3, <1>4 DEF Inv

-----------------------------------------------------------------------------
(* Every step keeps it.                                                    *)

\* The slots for payments used up to now.
Slots == blocks * Cardinality(KCoins) + Served

SlotsOK == Served \in Nat /\ Served <= Cardinality(KCoins) /\ Slots \in Nat

LEMMA ServedType == Types => SlotsOK
<1> SUFFICES ASSUME Types PROVE SlotsOK
  OBVIOUS
<1>1. Cardinality(queue) \in Nat /\ Cardinality(queue) <= Cardinality(KCoins)
      /\ Cardinality(KCoins) \in Nat
  BY KCoinsFinite DEF Types
<1>2. Served \in Nat /\ Served <= Cardinality(KCoins)
  BY <1>1 DEF Served
<1>3. blocks \in Nat
  BY SwapAssumption DEF Types
<1>4. blocks * Cardinality(KCoins) \in Nat
  BY <1>1, <1>3
<1> QED
  BY <1>2, <1>4 DEF Slots, SlotsOK

\* The arithmetic of Paid: e is what was earned and left and has been paid a
\* share of, n the number of slots.
LEMMA PaidStep ==
  ASSUME NEW s \in Nat, NEW e \in Int, NEW n \in Nat, NEW r \in Nat,
         2 * (Scale * r) <= 2 * (s * e) + Scale * n,
         NEW h \in Nat, NEW t \in Nat, t <= s, NEW p \in Nat,
         2 * (Scale * p) <= 2 * (t * h) + Scale
  PROVE  2 * (Scale * (r + p)) <= 2 * (s * (e + h)) + Scale * (n + 1)
<1>1. /\ Scale * (r + p) = Scale * r + Scale * p
      /\ s * (e + h) = s * e + s * h
      /\ Scale * (n + 1) = Scale * n + Scale
  BY ScaleAssumption
<1>2. t * h <= s * h
  OBVIOUS
<1>3. /\ Scale * r \in Int /\ Scale * p \in Int /\ s * e \in Int /\ s * h \in Int
      /\ Scale * n \in Int /\ t * h \in Int
  BY ScaleAssumption
<1> QED
  BY <1>1, <1>2, <1>3, ScaleAssumption

LEMMA MoreSlots ==
  ASSUME NEW n \in Nat, NEW m \in Nat, n <= m
  PROVE  Scale * n <= Scale * m /\ Scale * n \in Int /\ Scale * m \in Int
BY ScaleAssumption

\* What share of the account is paid for is in earned, unspent and account; a
\* step that leaves their balance and the rewards needs no slot.
LEMMA PaidKept ==
  ASSUME Inv, Types', rewards' = rewards,
         earned' + unspent' - account'[Base] = earned + unspent - account[Base],
         Slots <= Slots'
  PROVE  Paid'
<1> SUFFICES ASSUME NEW s \in StakingShares, \A t \in StakingShares : t <= s
             PROVE  2 * (Scale * rewards')
                      <= 2 * (s * (earned' + unspent' - account'[Base])) + Scale * Slots'
  BY DEF Paid, Slots
<1> DEFINE e == earned + unspent - account[Base]
<1>1. 2 * (Scale * rewards) <= 2 * (s * e) + Scale * Slots
  BY DEF Inv, Paid, Slots
<1>2. e \in Int /\ rewards \in Nat /\ s \in Nat
  BY BaseApart, ShareTypes DEF Inv, Types
<1>3. Slots \in Nat /\ Slots' \in Nat
  <2>1. Slots \in Nat
    BY ServedType DEF Inv, SlotsOK
  <2>2. Types' => SlotsOK'
    BY ServedType, PTL
  <2> QED
    BY <2>1, <2>2 DEF SlotsOK
<1>4. Scale * Slots <= Scale * Slots' /\ Scale * Slots \in Int /\ Scale * Slots' \in Int
  BY <1>3, MoreSlots
<1> HIDE DEF e
<1>5. s * e \in Int /\ Scale * rewards \in Int
  BY <1>2, ScaleAssumption
<1>6. 2 * (Scale * rewards) <= 2 * (s * e) + Scale * Slots'
  BY <1>1, <1>4, <1>5
<1> QED
  BY <1>6 DEF e

LEMMA SlotTaken ==
  ASSUME Types, NEW k \in queue, queue' = queue \ {k}, phase' = phase, blocks' = blocks
  PROVE  /\ Slots' = Slots + (IF phase = "mint" THEN 1 ELSE 0)
         /\ Slots <= Slots' /\ Slots \in Nat
<1>1. queue \in SUBSET KCoins
  BY DEF Types
<1>2. Cardinality(queue') = Cardinality(queue) - 1
  BY <1>1, QueueShrinks
<1>3. Cardinality(queue) \in Nat /\ Cardinality(KCoins) \in Nat
  BY <1>1, KCoinsFinite
<1>4. Slots \in Nat /\ Served \in Nat
  BY ServedType DEF SlotsOK
<1>5. Served' = Served + (IF phase = "mint" THEN 1 ELSE 0)
  BY <1>2, <1>3 DEF Served
<1>6. blocks \in Nat
  BY SwapAssumption DEF Types
<1>7. blocks * Cardinality(KCoins) \in Nat
  BY <1>3, <1>6
<1>8. Slots' = blocks * Cardinality(KCoins) + Served'
  BY DEF Slots
<1>9. Slots = blocks * Cardinality(KCoins) + Served
  BY DEF Slots
<1>10. Slots' = Slots + (IF phase = "mint" THEN 1 ELSE 0)
  BY <1>4, <1>5, <1>7, <1>8, <1>9
<1> QED
  BY <1>4, <1>10

LEMMA TradableType ==
  ASSUME NEW minted \in Nat, NEW given \in Tradable(minted)
  PROVE  given \in Nat /\ given > 0 /\ given <= minted
<1>1. MinTradeAmount \in Nat /\ MinTradeAmount > 0 /\ Depths \subseteq Nat
  BY SwapAssumption
<1> QED
  BY <1>1 DEF Tradable

LEMMA BooksKept ==
  ASSUME SwapBooks, supply' = supply, account' = account, traded' = traded, rewards' = rewards
  PROVE  SwapBooks'
BY DEF SwapBooks

LEMMA BaseBought ==
  ASSUME Inv, NEW k \in KCoins, NEW minted \in Nat, MintTradeBurn(k, minted)
  PROVE  /\ pools' \in [Denoms -> [base: Nat \ {0}, other: Nat \ {0}]]
         /\ ratio' \in [Denoms -> Nat]
         /\ supply' \in [Accounts -> Int] /\ account' \in [Accounts -> Nat]
         /\ traded' \in [Accounts -> Int]
         /\ earned' \in Nat /\ unspent' \in Nat /\ rewards' \in Nat /\ rewards' = rewards
         /\ earned' + unspent' - account'[Base] = earned + unspent - account[Base]
         /\ SwapBooks'
<1> DEFINE received(given) == ForBase(k, given)
<1>1. PICK given \in Tradable(minted) :
        /\ Trade(k, ToDec(given), -ToDec(received(given)))
        /\ supply' = [supply EXCEPT ![Base] = @ + minted,
                                    ![k] = @ - (account[k] + received(given))]
        /\ account' = [account EXCEPT ![Base] = @ + minted - given, ![k] = 0]
        /\ traded' = [traded EXCEPT ![Base] = @ + given, ![k] = @ - received(given)]
        /\ unspent' = unspent + minted - given
        /\ UNCHANGED <<earned, rewards>>
  BY DEF MintTradeBurn
<1> DEFINE got == received(given)
<1>2. given \in Nat /\ given > 0 /\ given <= minted
  BY TradableType
<1>3. k \in Denoms /\ Types
  BY DEF Denoms, Inv
<1>4. got \in Nat
  BY <1>2, <1>3, ForBaseNat
<1>5. /\ pools' \in [Denoms -> [base: Nat \ {0}, other: Nat \ {0}]]
      /\ ratio' \in [Denoms -> Nat]
  <2>1. ToDec(given) \in Int /\ -ToDec(got) \in Int
    <3> HIDE DEF got
    <3> QED
      BY <1>2, <1>4, ToDecNat
  <2> QED
    BY <1>1, <1>3, <2>1, TradeTypes
<1>6. /\ supply \in [Accounts -> Int] /\ account \in [Accounts -> Nat]
      /\ traded \in [Accounts -> Int] /\ earned \in Nat /\ unspent \in Nat /\ rewards \in Nat
  BY <1>3 DEF Types
<1>7. /\ supply' = [supply EXCEPT ![Base] = @ + minted, ![k] = @ - (account[k] + got)]
      /\ account' = [account EXCEPT ![Base] = @ + minted - given, ![k] = 0]
      /\ traded' = [traded EXCEPT ![Base] = @ + given, ![k] = @ - got]
      /\ unspent' = unspent + minted - given
      /\ earned' = earned /\ rewards' = rewards
  BY <1>1
<1> HIDE DEF got
<1>8. k # Base /\ k \in Accounts /\ Base \in Accounts
  BY BaseApart
<1>9. /\ supply'[Base] = supply[Base] + minted
      /\ supply'[k] = supply[k] - (account[k] + got)
      /\ account'[Base] = account[Base] + minted - given
      /\ account'[k] = 0
      /\ traded'[Base] = traded[Base] + given
      /\ traded'[k] = traded[k] - got
      /\ \A d \in Accounts : d # k /\ d # Base =>
           supply'[d] = supply[d] /\ account'[d] = account[d] /\ traded'[d] = traded[d]
  BY <1>6, <1>7, <1>8
<1>10. /\ supply' \in [Accounts -> Int] /\ account' \in [Accounts -> Nat]
       /\ traded' \in [Accounts -> Int]
  <2>1. minted - given \in Nat
    BY <1>2
  <2>2. account[Base] + minted - given \in Nat /\ supply[Base] + minted \in Int
        /\ supply[k] - (account[k] + got) \in Int /\ traded[Base] + given \in Int
        /\ traded[k] - got \in Int
    BY <1>2, <1>4, <1>6, <1>8
  <2> QED
    BY <1>6, <1>7, <2>2
<1>11. SwapBooks'
  <2>1. InitialSupply \in Nat /\ GenesisBase \in Nat
    BY SwapAssumption
  <2>2. \A d \in Accounts : supply[d] - account[d] =
          traded[d] + IF d = Base THEN GenesisBase + rewards ELSE InitialSupply
    BY DEF Inv, SwapBooks, Accounts
  <2>3. supply'[Base] - account'[Base] = traded'[Base] + (GenesisBase + rewards')
    BY <1>2, <1>6, <1>7, <1>8, <1>9, <2>1, <2>2
  <2>4. supply'[k] - account'[k] = traded'[k] + InitialSupply
    BY <1>4, <1>6, <1>8, <1>9, <2>1, <2>2
  <2>5. \A d \in Accounts : d # k /\ d # Base =>
          supply'[d] - account'[d] = traded'[d] + InitialSupply
    BY <1>9, <2>2
  <2> QED
    BY <1>8, <2>3, <2>4, <2>5 DEF SwapBooks, Accounts
<1>12. /\ unspent' \in Nat /\ earned' \in Nat /\ rewards' \in Nat /\ rewards' = rewards
       /\ earned' + unspent' - account'[Base] = earned + unspent - account[Base]
  BY <1>2, <1>6, <1>7, <1>8, <1>9
<1> QED
  BY <1>5, <1>10, <1>11, <1>12

\* Coins that are minted and stay in the account, of the kCoin or the base
\* currency.
LEMMA MintedKept ==
  ASSUME Inv, NEW d \in Accounts, NEW minted \in Nat,
         supply' = Add(supply, d, minted), account' = Add(account, d, minted),
         traded' = traded, rewards' = rewards
  PROVE  /\ supply' \in [Accounts -> Int] /\ account' \in [Accounts -> Nat]
         /\ account'[d] = account[d] + minted
         /\ d # Base => account'[Base] = account[Base]
         /\ SwapBooks'
<1>1. /\ supply \in [Accounts -> Int] /\ account \in [Accounts -> Nat]
      /\ traded \in [Accounts -> Int] /\ rewards \in Nat
  BY DEF Inv, Types
<1>2. /\ supply'[d] = supply[d] + minted /\ account'[d] = account[d] + minted
      /\ \A c \in Accounts : c # d => supply'[c] = supply[c] /\ account'[c] = account[c]
  BY <1>1 DEF Add
<1>3. supply' \in [Accounts -> Int] /\ account' \in [Accounts -> Nat]
  BY <1>1 DEF Add
<1>4. SwapBooks'
  <2>1. InitialSupply \in Nat /\ GenesisBase \in Nat
    BY SwapAssumption
  <2>2. \A c \in Accounts : supply[c] - account[c] =
          traded[c] + IF c = Base THEN GenesisBase + rewards ELSE InitialSupply
    BY DEF Inv, SwapBooks, Accounts
  <2>3. \A c \in Accounts : supply'[c] - account'[c] = supply[c] - account[c]
    BY <1>1, <1>2
  <2> QED
    BY <2>2, <2>3 DEF SwapBooks, Accounts
<1> QED
  BY <1>2, <1>3, <1>4, BaseApart

\* The reward is a share of what is held, and half a coin at the most beyond it.
LEMMA RewardBounds ==
  ASSUME Types, NEW held \in Nat
  PROVE  /\ share \in Nat
         /\ Reward(held) \in Nat
         /\ 2 * (Scale * Reward(held)) <= 2 * (share * held) + Scale
<1>1. share \in Nat
  BY ShareTypes DEF Types
<1>2. Mul(share, ToDec(held)) = held * share
  BY <1>1, MulWhole
<1>3. held * share \in Nat /\ held * share = share * held
  BY <1>1
<1>4. Reward(held) = HalfEven(held * share)
  BY <1>2, <1>3 DEF Reward, RoundInt, ChopRound
<1> QED
  BY <1>1, <1>3, <1>4, HalfEvenBounds, HalfEvenNear

LEMMA KCoinSold ==
  ASSUME Inv, NEW k \in KCoins, NEW minted \in Nat, MintAndSell(k, minted)
  PROVE  /\ pools' \in [Denoms -> [base: Nat \ {0}, other: Nat \ {0}]]
         /\ ratio' \in [Denoms -> Nat]
         /\ supply' \in [Accounts -> Int] /\ account' \in [Accounts -> Nat]
         /\ traded' \in [Accounts -> Int]
         /\ earned' \in Nat /\ unspent' \in Nat /\ rewards' \in Nat
         /\ \E held \in Nat :
              /\ rewards' = rewards + Reward(held)
              /\ earned' + unspent' - account'[Base]
                   = (earned + unspent - account[Base]) + held
         /\ SwapBooks'
<1>1. PICK given \in Tradable(minted), leftover \in Leftovers :
        LET received == ForDenom(k, given) + leftover
            held == account[Base] + received
        IN /\ Trade(k, -ToDec(ForDenom(k, given)), ToDec(given))
           /\ supply' = [supply EXCEPT ![k] = @ + minted, ![Base] = @ - BurnedBase(held)]
           /\ account' = [account EXCEPT ![k] = @ + minted - given, ![Base] = 0]
           /\ traded' = [traded EXCEPT ![k] = @ + given, ![Base] = @ - received]
           /\ earned' = earned + received
           /\ rewards' = rewards + Reward(held)
           /\ UNCHANGED unspent
  BY DEF MintAndSell
<1> DEFINE received == ForDenom(k, given) + leftover
           held == account[Base] + received
           burned == BurnedBase(held)
           paid == Reward(held)
<1>2. given \in Nat /\ given > 0 /\ given <= minted /\ leftover \in Nat
  BY TradableType, SwapAssumption
<1>3. k \in Denoms /\ Types
  BY DEF Denoms, Inv
<1>4. ForDenom(k, given) \in Nat
  BY <1>2, <1>3, ForDenomNat
<1>5. /\ pools' \in [Denoms -> [base: Nat \ {0}, other: Nat \ {0}]]
      /\ ratio' \in [Denoms -> Nat]
  <2>1. ToDec(given) \in Int /\ -ToDec(ForDenom(k, given)) \in Int
    BY <1>2, <1>4, ToDecNat
  <2>2. Trade(k, -ToDec(ForDenom(k, given)), ToDec(given))
    BY <1>1
  <2> QED
    BY <1>3, <2>1, <2>2, TradeTypes
<1>6. /\ supply \in [Accounts -> Int] /\ account \in [Accounts -> Nat]
      /\ traded \in [Accounts -> Int] /\ earned \in Nat /\ unspent \in Nat /\ rewards \in Nat
  BY <1>3 DEF Types
<1>7. /\ supply' = [supply EXCEPT ![k] = @ + minted, ![Base] = @ - burned]
      /\ account' = [account EXCEPT ![k] = @ + minted - given, ![Base] = 0]
      /\ traded' = [traded EXCEPT ![k] = @ + given, ![Base] = @ - received]
      /\ earned' = earned + received
      /\ rewards' = rewards + paid
      /\ unspent' = unspent
  BY <1>1
<1>8. k # Base /\ k \in Accounts /\ Base \in Accounts
  BY BaseApart
<1>9. received \in Nat
  BY <1>2, <1>4
<1>10. held \in Nat /\ held = account[Base] + received /\ account[Base] \in Nat
  BY <1>6, <1>8, <1>9
<1>11. paid \in Nat
  <2> HIDE DEF held
  <2> QED
    BY <1>3, <1>10, RewardBounds
<1>12. burned \in Int /\ burned = held - paid
  <2>1. burned = held - paid
    BY DEF BurnedBase
  <2> HIDE DEF held, paid, burned
  <2> QED
    BY <1>10, <1>11, <2>1
<1> HIDE DEF received, held, burned, paid
<1>13. /\ supply'[Base] = supply[Base] - burned
       /\ supply'[k] = supply[k] + minted
       /\ account'[Base] = 0
       /\ account'[k] = account[k] + minted - given
       /\ traded'[Base] = traded[Base] - received
       /\ traded'[k] = traded[k] + given
       /\ \A d \in Accounts : d # k /\ d # Base =>
            supply'[d] = supply[d] /\ account'[d] = account[d] /\ traded'[d] = traded[d]
  BY <1>6, <1>7, <1>8
<1>14. /\ supply' \in [Accounts -> Int] /\ account' \in [Accounts -> Nat]
       /\ traded' \in [Accounts -> Int]
  <2>1. minted - given \in Nat
    BY <1>2
  <2>2. account[k] + minted - given \in Nat /\ supply[k] + minted \in Int
        /\ supply[Base] - burned \in Int /\ traded[Base] - received \in Int
        /\ traded[k] + given \in Int
    BY <1>2, <1>6, <1>8, <1>9, <1>12
  <2> QED
    BY <1>6, <1>7, <2>2
<1>15. SwapBooks'
  <2>1. InitialSupply \in Nat /\ GenesisBase \in Nat
    BY SwapAssumption
  <2>2. \A d \in Accounts : supply[d] - account[d] =
          traded[d] + IF d = Base THEN GenesisBase + rewards ELSE InitialSupply
    BY DEF Inv, SwapBooks, Accounts
  <2>3. supply'[Base] - account'[Base] = traded'[Base] + (GenesisBase + rewards')
    BY <1>6, <1>7, <1>8, <1>9, <1>10, <1>11, <1>12, <1>13, <2>1, <2>2
  <2>4. supply'[k] - account'[k] = traded'[k] + InitialSupply
    BY <1>2, <1>6, <1>8, <1>13, <2>1, <2>2
  <2>5. \A d \in Accounts : d # k /\ d # Base =>
          supply'[d] - account'[d] = traded'[d] + InitialSupply
    BY <1>13, <2>2
  <2> QED
    BY <1>8, <2>3, <2>4, <2>5 DEF SwapBooks, Accounts
<1>16. /\ unspent' \in Nat /\ earned' \in Nat /\ rewards' \in Nat
       /\ rewards' = rewards + Reward(held)
       /\ earned' + unspent' - account'[Base] = (earned + unspent - account[Base]) + held
  <2>1. /\ unspent' \in Nat /\ earned' \in Nat /\ rewards' \in Nat
        /\ earned' + unspent' - account'[Base] = (earned + unspent - account[Base]) + held
    BY <1>6, <1>7, <1>9, <1>10, <1>11, <1>13
  <2> QED
    BY <1>7, <2>1 DEF paid
<1> QED
  BY <1>5, <1>10, <1>14, <1>15, <1>16

LEMMA BurnKeeps ==
  ASSUME Inv, NEW k \in KCoins, CheckBurn(k)
  PROVE  Inv'
<1>1. PICK minted \in BurnAmounts(k) :
        \/ minted = 0 /\ UNCHANGED <<market, bank, history>>
        \/ minted > 0 /\ MintTradeBurn(k, minted)
        \/ minted > 0 /\ MintWithoutTrade(minted)
  BY DEF CheckBurn
<1>2. /\ phase = "burn" /\ phase' = phase /\ k \in queue /\ queue' = queue \ {k}
      /\ blocks' = blocks /\ txs' = txs /\ UNCHANGED params /\ Priced(k)
  BY DEF CheckBurn
<1>3. minted \in Int /\ Types
  BY <1>2, BurnAmountsInt DEF Inv
<1>4. LoopOK'
  BY <1>2 DEF Inv, LoopOK
<1>5. Slots <= Slots'
  BY <1>2, <1>3, SlotTaken
<1>6. /\ refs' \in [KCoins -> SUBSET Fiat] /\ maxSupply' \in [KCoins -> MaxSupplies]
      /\ share' \in StakingShares /\ phase' \in {"tx", "burn", "mint"}
      /\ queue' \subseteq KCoins /\ txs' \in 0..MaxTxs /\ blocks' \in 0..MaxBlocks
  BY <1>2, <1>3 DEF Types, params
<1>7. /\ pools' \in [Denoms -> [base: Nat \ {0}, other: Nat \ {0}]]
      /\ ratio' \in [Denoms -> Nat]
      /\ supply' \in [Accounts -> Int] /\ account' \in [Accounts -> Nat]
      /\ traded' \in [Accounts -> Int]
      /\ earned' \in Nat /\ unspent' \in Nat /\ rewards' \in Nat /\ rewards' = rewards
      /\ earned' + unspent' - account'[Base] = earned + unspent - account[Base]
      /\ SwapBooks'
  <2>1. CASE minted = 0 /\ UNCHANGED <<market, bank, history>>
    BY <1>3, <2>1, BooksKept DEF Inv, Types, market, bank, history
  <2>2. CASE minted > 0 /\ MintTradeBurn(k, minted)
    <3>1. minted \in Nat
      BY <1>3, <2>2
    <3> QED
      BY <2>2, <3>1, BaseBought
  <2>3. CASE minted > 0 /\ MintWithoutTrade(minted)
    <3>1. minted \in Nat
      BY <1>3, <2>3
    <3>2. /\ supply' = Add(supply, Base, minted) /\ account' = Add(account, Base, minted)
          /\ unspent' = unspent + minted /\ traded' = traded /\ earned' = earned
          /\ rewards' = rewards /\ pools' = pools /\ ratio' = ratio
      BY <2>3 DEF MintWithoutTrade, market
    <3>3. /\ supply' \in [Accounts -> Int] /\ account' \in [Accounts -> Nat]
          /\ account'[Base] = account[Base] + minted
          /\ SwapBooks'
      BY <3>1, <3>2, MintedKept, BaseApart
    <3>4. /\ pools \in [Denoms -> [base: Nat \ {0}, other: Nat \ {0}]]
          /\ ratio \in [Denoms -> Nat] /\ traded \in [Accounts -> Int]
          /\ earned \in Nat /\ unspent \in Nat /\ rewards \in Nat /\ account[Base] \in Nat
      BY <1>3, BaseApart DEF Types
    <3> QED
      BY <3>1, <3>2, <3>3, <3>4
  <2> QED
    BY <1>1, <2>1, <2>2, <2>3
<1>8. Types'
  BY <1>6, <1>7 DEF Types
<1>9. Paid'
  BY <1>5, <1>7, <1>8, PaidKept
<1> QED
  BY <1>4, <1>7, <1>8, <1>9 DEF Inv

LEMMA MintKeeps ==
  ASSUME Inv, NEW k \in KCoins, CheckMint(k)
  PROVE  Inv'
<1>1. PICK minted \in MintAmounts(k) :
        \/ minted < 1 /\ UNCHANGED <<market, bank, history>>
        \/ minted >= 1 /\ MintAndSell(k, minted)
        \/ minted >= 1 /\ MintUnsold(k, minted)
  BY DEF CheckMint
<1>2. /\ phase = "mint" /\ phase' = phase /\ k \in queue /\ queue' = queue \ {k}
      /\ blocks' = blocks /\ txs' = txs /\ UNCHANGED params /\ Priced(k)
  BY DEF CheckMint
<1>3. minted \in Int /\ Types
  BY <1>2, MintAmountsInt DEF Inv
<1>4. LoopOK'
  BY <1>2 DEF Inv, LoopOK
<1>5. Slots <= Slots' /\ Slots' = Slots + 1 /\ Slots \in Nat
  BY <1>2, <1>3, SlotTaken
<1>6. /\ refs' \in [KCoins -> SUBSET Fiat] /\ maxSupply' \in [KCoins -> MaxSupplies]
      /\ share' \in StakingShares /\ phase' \in {"tx", "burn", "mint"}
      /\ queue' \subseteq KCoins /\ txs' \in 0..MaxTxs /\ blocks' \in 0..MaxBlocks
  BY <1>2, <1>3 DEF Types, params
<1>7. CASE minted < 1 /\ UNCHANGED <<market, bank, history>>
  <2>1. Types'
    BY <1>3, <1>6, <1>7 DEF Types, market, bank, history
  <2>2. SwapBooks'
    BY <1>7, BooksKept DEF Inv, bank, history
  <2>3. Paid'
    BY <1>5, <1>7, <2>1, PaidKept DEF bank, history
  <2> QED
    BY <1>4, <2>1, <2>2, <2>3 DEF Inv
<1>8. CASE minted >= 1 /\ MintUnsold(k, minted)
  <2>1. minted \in Nat /\ k \in Accounts /\ k # Base
    BY <1>3, <1>8, BaseApart
  <2>2. /\ supply' = Add(supply, k, minted) /\ account' = Add(account, k, minted)
        /\ unspent' = unspent /\ traded' = traded /\ earned' = earned
        /\ rewards' = rewards /\ pools' = pools /\ ratio' = ratio
    BY <1>8 DEF MintUnsold, market, history
  <2>3. /\ supply' \in [Accounts -> Int] /\ account' \in [Accounts -> Nat]
        /\ account'[Base] = account[Base]
        /\ SwapBooks'
    BY <2>1, <2>2, MintedKept
  <2>4. Types'
    BY <1>3, <1>6, <2>2, <2>3 DEF Types
  <2>5. Paid'
    BY <1>5, <2>2, <2>3, <2>4, PaidKept
  <2> QED
    BY <1>4, <2>3, <2>4, <2>5 DEF Inv
<1>9. CASE minted >= 1 /\ MintAndSell(k, minted)
  <2>1. minted \in Nat
    BY <1>3, <1>9
  <2>2. /\ pools' \in [Denoms -> [base: Nat \ {0}, other: Nat \ {0}]]
        /\ ratio' \in [Denoms -> Nat]
        /\ supply' \in [Accounts -> Int] /\ account' \in [Accounts -> Nat]
        /\ traded' \in [Accounts -> Int]
        /\ earned' \in Nat /\ unspent' \in Nat /\ rewards' \in Nat
        /\ SwapBooks'
    BY <1>9, <2>1, KCoinSold
  <2>3. PICK held \in Nat :
          /\ rewards' = rewards + Reward(held)
          /\ earned' + unspent' - account'[Base] = (earned + unspent - account[Base]) + held
    BY <1>9, <2>1, KCoinSold
  <2>4. Types'
    BY <1>6, <2>2 DEF Types
  <2>5. Paid'
    <3> SUFFICES ASSUME NEW s \in StakingShares, \A t \in StakingShares : t <= s
                 PROVE  2 * (Scale * rewards')
                          <= 2 * (s * (earned' + unspent' - account'[Base])) + Scale * Slots'
      BY DEF Paid, Slots
    <3> DEFINE e == earned + unspent - account[Base]
               p == Reward(held)
    <3>1. 2 * (Scale * rewards) <= 2 * (s * e) + Scale * Slots
      BY DEF Inv, Paid, Slots
    <3>2. e \in Int /\ rewards \in Nat /\ s \in Nat
      BY <1>3, BaseApart, ShareTypes DEF Types
    <3>3. share \in Nat /\ p \in Nat /\ 2 * (Scale * p) <= 2 * (share * held) + Scale
      BY <1>3, RewardBounds
    <3>4. share <= s
      BY <1>3 DEF Types
    <3> HIDE DEF e, p
    <3>5. 2 * (Scale * (rewards + p)) <= 2 * (s * (e + held)) + Scale * (Slots + 1)
      BY <1>5, <3>1, <3>2, <3>3, <3>4, PaidStep
    <3> QED
      BY <1>5, <2>3, <3>5 DEF e, p
  <2> QED
    BY <1>4, <2>2, <2>4, <2>5 DEF Inv
<1> QED
  BY <1>1, <1>7, <1>8, <1>9

LEMMA OthersTradeTypes ==
  ASSUME Types, OthersTrade
  PROVE  /\ pools' \in [Denoms -> [base: Nat \ {0}, other: Nat \ {0}]]
         /\ ratio' \in [Denoms -> Nat]
<1>1. ASSUME NEW d \in Denoms, NEW a \in Amounts, SellDenom(d, a) \/ SellBase(d, a)
      PROVE  /\ pools' \in [Denoms -> [base: Nat \ {0}, other: Nat \ {0}]]
             /\ ratio' \in [Denoms -> Nat]
  <2>1. a \in Nat /\ a > 0
    BY SwapAssumption
  <2>2. ForDenom(d, a) \in Nat /\ ForBase(d, a) \in Nat
    BY <2>1, ForDenomNat, ForBaseNat
  <2>3. /\ ToDec(a) \in Int /\ -ToDec(a) \in Int
        /\ -ToDec(ForDenom(d, a)) \in Int /\ -ToDec(ForBase(d, a)) \in Int
    BY <2>1, <2>2, ToDecNat
  <2>4. CASE SellDenom(d, a)
    BY <2>3, <2>4, TradeTypes DEF SellDenom
  <2>5. CASE SellBase(d, a)
    BY <2>3, <2>5, TradeTypes DEF SellBase
  <2> QED
    BY <1>1, <2>4, <2>5
<1>2. ASSUME NEW b \in Shifts, TradeElsewhere(ToDec(b))
      PROVE  /\ pools' \in [Denoms -> [base: Nat \ {0}, other: Nat \ {0}]]
             /\ ratio' \in [Denoms -> Nat]
  <2> DEFINE base == ToDec(b)
  <2>1. base \in Int
    BY SwapAssumption, IntTypes
  <2> HIDE DEF base
  <2>2. /\ \A c \in Denoms : pools[c].base + base > 0
        /\ pools' = [c \in Denoms |-> [pools[c] EXCEPT !.base = @ + base]]
        /\ ratio' = ratio
    BY <1>2 DEF TradeElsewhere, base
  <2>3. ASSUME NEW c \in Denoms
        PROVE  [pools[c] EXCEPT !.base = @ + base] \in [base: Nat \ {0}, other: Nat \ {0}]
    <3>1. pools[c] \in [base: Nat \ {0}, other: Nat \ {0}]
      BY DEF Types
    <3>2. pools[c].base + base \in Nat \ {0}
      BY <2>1, <2>2, <3>1
    <3> QED
      BY <3>1, <3>2
  <2> QED
    BY <2>2, <2>3 DEF Types
<1> QED
  BY <1>1, <1>2 DEF OthersTrade

LEMMA TransactionKeeps ==
  ASSUME Inv, Transaction
  PROVE  Inv'
<1>1. /\ UNCHANGED <<bank, loop, history>> /\ txs < MaxTxs /\ txs' = txs + 1
  BY DEF Transaction
<1>2. Types
  BY DEF Inv
<1>3. /\ pools' \in [Denoms -> [base: Nat \ {0}, other: Nat \ {0}]]
      /\ ratio' \in [Denoms -> Nat]
      /\ refs' \in [KCoins -> SUBSET Fiat]
      /\ maxSupply' \in [KCoins -> MaxSupplies]
      /\ share' \in StakingShares
  <2>1. CASE OthersTrade
    BY <1>2, <2>1, OthersTradeTypes DEF OthersTrade, params, Types
  <2>2. ASSUME NEW k \in KCoins, NEW m \in MaxSupplies, UpdateKCoinSupply(k, m)
        PROVE  /\ maxSupply' \in [KCoins -> MaxSupplies] /\ UNCHANGED <<market, refs, share>>
    BY <1>2, <2>2 DEF UpdateKCoinSupply, Types
  <2>3. ASSUME NEW k \in KCoins, NEW r \in Fiat, RemoveReference(k, r) \/ AddReference(k, r)
        PROVE  /\ refs' \in [KCoins -> SUBSET Fiat] /\ UNCHANGED <<market, maxSupply, share>>
    BY <1>2, <2>3 DEF RemoveReference, AddReference, Types
  <2>4. ASSUME NEW s \in StakingShares, UpdateStakingShare(s)
        PROVE  share' \in StakingShares /\ UNCHANGED <<market, refs, maxSupply>>
    BY <2>4 DEF UpdateStakingShare
  <2> QED
    BY <1>2, <2>1, <2>2, <2>3, <2>4 DEF Transaction, Types, market
<1>4. txs' \in 0..MaxTxs
  BY <1>1, <1>2, SwapAssumption DEF Types
<1>5. Types'
  BY <1>1, <1>2, <1>3, <1>4 DEF Types, bank, loop, history
<1>6. LoopOK'
  BY <1>1 DEF Inv, LoopOK, loop
<1>7. SwapBooks'
  BY <1>1, BooksKept DEF Inv, bank, history
<1>8. Slots <= Slots'
  <2>1. Slots' = Slots
    BY <1>1 DEF Slots, Served, loop
  <2>2. Slots \in Nat
    BY <1>2, ServedType DEF SlotsOK
  <2> QED
    BY <2>1, <2>2
<1>9. Paid'
  BY <1>1, <1>5, <1>8, PaidKept DEF bank, history
<1> QED
  BY <1>5, <1>6, <1>7, <1>9 DEF Inv

LEMMA LoopKeeps ==
  ASSUME Inv, BeginBurn \/ BeginMint \/ NextBlock
  PROVE  Inv'
<1>1. /\ UNCHANGED <<market, params, bank, txs, history>>
  BY DEF BeginBurn, BeginMint, NextBlock
<1>2. Types /\ Cardinality(KCoins) \in Nat /\ blocks \in Nat /\ Cardinality({}) = 0
  BY KCoinsFinite, SwapAssumption, FS_EmptySet DEF Inv, Types
<1>3. LoopOK' /\ queue' \subseteq KCoins /\ blocks' \in 0..MaxBlocks
      /\ phase' \in {"tx", "burn", "mint"}
  <2>1. CASE BeginBurn
    BY <1>2, <2>1 DEF BeginBurn, InTx, LoopOK, Types
  <2>2. CASE BeginMint
    BY <1>2, <2>2 DEF BeginMint, LoopOK, Types, Inv
  <2>3. CASE NextBlock
    BY <1>2, <2>3, SwapAssumption DEF NextBlock, LoopOK, Types, Inv
  <2> QED
    BY <2>1, <2>2, <2>3
<1>4. Types'
  BY <1>1, <1>2, <1>3 DEF Types, market, params, bank, history
<1>5. Slots <= Slots'
  <2> DEFINE n == Cardinality(KCoins)
  <2>1. Slots = blocks * n + Served /\ Slots' = blocks' * n + Served'
    BY DEF Slots
  <2>2. Slots' = Slots
    <3>1. CASE BeginBurn
      BY <1>2, <3>1 DEF BeginBurn, InTx, Slots, Served
    <3>2. CASE BeginMint
      BY <1>2, <3>2 DEF BeginMint, Slots, Served
    <3>3. CASE NextBlock
      <4>1. Served = n /\ Served' = 0 /\ blocks' = blocks + 1
        BY <1>2, <3>3 DEF NextBlock, Served
      <4>2. (blocks + 1) * n = blocks * n + n /\ blocks * n \in Nat
        BY <1>2
      <4> HIDE DEF n
      <4> QED
        BY <2>1, <4>1, <4>2
    <3> QED
      BY <3>1, <3>2, <3>3
  <2>3. Slots \in Nat
    BY <1>2, ServedType DEF SlotsOK
  <2> QED
    BY <2>2, <2>3
<1>6. SwapBooks'
  BY <1>1, BooksKept DEF Inv, bank, history
<1>7. Paid'
  BY <1>1, <1>4, <1>5, PaidKept DEF bank, history
<1> QED
  BY <1>3, <1>4, <1>6, <1>7 DEF Inv

-----------------------------------------------------------------------------
(* The theorems.                                                           *)

\* The inductive invariant: the types of all amounts, the order of the loops of
\* the EndBlocker, the books and the bound on the rewards.
THEOREM Invariance == Spec => []Inv
<1>1. Inv /\ [Next]_vars => Inv'
  <2> SUFFICES ASSUME Inv, [Next]_vars PROVE Inv'
    OBVIOUS
  <2>1. CASE UNCHANGED vars
    <3>1. UNCHANGED <<pools, ratio, refs, maxSupply, share, supply, account, phase, queue,
                      txs, blocks, traded, earned, unspent, rewards>>
      BY <2>1 DEF vars, market, params, bank, loop, history
    <3> QED
      BY <3>1 DEF Inv, Types, LoopOK, SwapBooks, Paid, Served
  <2> QED
    BY <2>1, TransactionKeeps, LoopKeeps, BurnKeeps, MintKeeps DEF Next
<1> QED
  BY <1>1, InitInv, PTL DEF Spec

\* Everything but the sign of the supplies: what mintTradeBurn and CheckMint
\* compute is an integer, what the module account holds is never negative, and
\* the pools never run empty in a trade.
THEOREM TypesCorrect == Spec => []Types
<1>1. Inv => Types
  BY DEF Inv
<1> QED
  BY <1>1, Invariance, PTL

\* What burnFunds and the refused trades leave balances over all blocks.
THEOREM BooksBalance == Spec => []SwapBooks
<1>1. Inv => SwapBooks
  BY DEF Inv
<1> QED
  BY <1>1, Invariance, PTL

\* burnFunds pays a share of a coin only once.
THEOREM RewardsStayBounded == Spec => []RewardsBounded
<1>1. Inv => RewardsBounded
  <2> SUFFICES ASSUME Inv, NEW s \in StakingShares, \A t \in StakingShares : t <= s
               PROVE  2 * Scale * rewards
                        <= 2 * s * (earned + unspent)
                             + Scale * (blocks + 1) * Cardinality(KCoins)
    BY DEF RewardsBounded
  <2> DEFINE n == Cardinality(KCoins)
             e == earned + unspent
             a == account[Base]
  <2>1. /\ s \in Nat /\ e \in Nat /\ a \in Nat /\ rewards \in Nat /\ blocks \in Nat
        /\ n \in Nat /\ Slots \in Nat /\ Served <= n /\ Served \in Nat
    BY BaseApart, ShareTypes, KCoinsFinite, SwapAssumption, ServedType DEF Inv, Types, SlotsOK
  <2>2. 2 * (Scale * rewards) <= 2 * (s * (e - a)) + Scale * Slots
    <3>1. earned + unspent - account[Base] = e - a
      BY BaseApart DEF Inv, Types
    <3>2. 2 * (Scale * rewards)
            <= 2 * (s * (earned + unspent - account[Base])) + Scale * Slots
      BY DEF Inv, Paid, Slots
    <3> QED
      BY <3>1, <3>2
  <2>3. Slots = blocks * n + Served
    BY DEF Slots
  <2> HIDE DEF n, e, a
  <2>4. Slots <= (blocks + 1) * n /\ (blocks + 1) * n \in Nat
    <3>1. (blocks + 1) * n = blocks * n + n /\ blocks * n \in Nat
      BY <2>1
    <3> QED
      BY <2>1, <2>3, <3>1
  <2>5. Scale * Slots <= Scale * ((blocks + 1) * n)
        /\ Scale * Slots \in Int /\ Scale * ((blocks + 1) * n) \in Int
    <3> DEFINE m == (blocks + 1) * n
    <3>1. m \in Nat /\ Slots <= m
      BY <2>4
    <3> HIDE DEF m
    <3>2. Scale * Slots <= Scale * m /\ Scale * Slots \in Int /\ Scale * m \in Int
      BY <2>1, <3>1, MoreSlots
    <3> QED
      BY <3>2 DEF m
  <2>6. s * (e - a) <= s * e /\ s * (e - a) \in Int /\ s * e \in Int
    BY <2>1
  <2>7. 2 * (Scale * rewards) <= 2 * (s * e) + Scale * ((blocks + 1) * n)
    <3>1. Scale * rewards \in Int
      BY <2>1, ScaleAssumption
    <3> QED
      BY <2>2, <2>5, <2>6, <3>1
  <2>8. /\ 2 * Scale * rewards = 2 * (Scale * rewards)
        /\ 2 * s * e = 2 * (s * e)
        /\ Scale * (blocks + 1) * n = Scale * ((blocks + 1) * n)
    BY <2>1, ScaleAssumption
  <2> QED
    BY <2>7, <2>8 DEF e, n
<1> QED
  BY <1>1, Invariance, PTL

-----------------------------------------------------------------------------
(* What a trade pays at most.                                              *)

\* The trade of ConstantProductTrade, with its two roundings.
LEMMA BoughtBounded ==
  ASSUME NEW from \in Nat, NEW to \in Nat, NEW offer \in Nat, from > 0
  PROVE  2 * (Scale * ((from + offer) * Bought(from, to, offer)))
           <= 2 * (Scale * (offer * to)) + (Scale + 2) * (from + offer) + Scale * Scale
<1> DEFINE m == Mul(from, to)
           b == from + offer
           q == Quo(m, b)
           x == from * to
           y == offer * to
<1>1. m \in Nat /\ b \in Nat /\ b > 0 /\ x \in Nat /\ y \in Nat /\ b * to = x + y
  BY MulType
<1>2. 2 * x <= 2 * (Scale * m) + Scale
  BY <1>1, HalfEvenNear DEF Mul, ChopRound
<1>3. Bought(from, to, offer) = to - q
  BY DEF Bought
<1> HIDE DEF m, b, x, y
<1>4. /\ q \in Nat
      /\ 2 * (Scale * (m * Scale)) + 2 <= 2 * (Scale * (q * b)) + Scale * b + 2 * b
  BY <1>1, QuoType, QuoNearBelow
<1> HIDE DEF q
<1>5. Scale \in Nat /\ Scale > 0
  BY ScaleAssumption
<1>6. 2 * (Scale * x) <= 2 * (Scale * (m * Scale)) + Scale * Scale
  <2>1. Scale * (2 * x) <= Scale * (2 * (Scale * m) + Scale)
    BY <1>1, <1>2, <1>5
  <2>2. Scale * (2 * (Scale * m) + Scale) = 2 * (Scale * (m * Scale)) + Scale * Scale
    BY <1>1, <1>5
  <2> QED
    BY <1>1, <1>5, <2>1, <2>2
<1>7. 2 * (Scale * (b * (to - q))) = 2 * (Scale * x) + 2 * (Scale * y) - 2 * (Scale * (q * b))
  <2>1. b * (to - q) = x + y - q * b /\ q * b \in Nat
    BY <1>1, <1>4
  <2>2. b * (to - q) \in Int
    BY <1>1, <1>4
  <2> QED
    BY <1>1, <1>5, <2>1, <2>2
<1>8. /\ Scale * x \in Nat /\ Scale * y \in Nat /\ Scale * (q * b) \in Nat
      /\ Scale * (m * Scale) \in Nat /\ Scale * Scale \in Nat /\ Scale * b \in Nat
      /\ (Scale + 2) * b = Scale * b + 2 * b
  BY <1>1, <1>4, <1>5
<1>9. 2 * (Scale * (b * (to - q))) <= 2 * (Scale * y) + (Scale + 2) * b + Scale * Scale
  BY <1>1, <1>4, <1>6, <1>7, <1>8
<1> QED
  BY <1>3, <1>9 DEF b, y

\* A trade pays its offer at the price of the pools, and no more than a few
\* last digits besides.
LEMMA TradePays ==
  ASSUME NEW from \in Nat, NEW to \in Nat, NEW offer \in Nat, from > 0,
         NEW b \in Nat, b <= Bought(from, to, offer)
  PROVE  2 * (Scale * (b * from)) <= 2 * (Scale * (offer * to)) + TradeDigits(from)
<1> DEFINE p == Bought(from, to, offer)
           g == from + offer
           y == offer * to
<1>1. /\ p \in Int /\ b <= p /\ g \in Nat /\ y \in Nat
      /\ Scale \in Nat /\ Scale >= 2
      /\ 2 * (Scale * (g * p)) <= 2 * (Scale * y) + (Scale + 2) * g + Scale * Scale
  BY BoughtInt, BoughtBounded, ScaleAssumption
<1> HIDE DEF p
<1>2. CASE b = 0
  <2>1. TradeDigits(from) \in Nat /\ Scale * y \in Nat
    BY <1>1 DEF TradeDigits
  <2>2. 2 * (Scale * (b * from)) = 0
    BY <1>1, <1>2
  <2> HIDE DEF y
  <2> QED
    BY <2>1, <2>2 DEF y
<1>3. CASE b > 0
  <2>1. Scale * (g * b) <= Scale * (g * p) /\ Scale * (g * b) \in Nat
        /\ Scale * (g * p) \in Int
    <3>1. g * b <= g * p /\ g * b \in Nat /\ g * p \in Int
      <4> HIDE DEF g
      <4> QED
        BY <1>1
    <3> HIDE DEF g
    <3> QED
      BY <1>1, <3>1
  <2>2. Scale * (g * b) = Scale * (b * from) + Scale * (offer * b)
        /\ Scale * (b * from) \in Nat /\ Scale * (offer * b) \in Nat
    BY <1>1
  <2>3. (Scale + 2) * offer <= 2 * (Scale * (offer * b))
    <3>1. offer <= offer * b /\ offer * b \in Nat
      BY <1>3
    <3>2. (Scale + 2) * offer <= (2 * Scale) * offer
      BY <1>1
    <3>3. (2 * Scale) * offer <= (2 * Scale) * (offer * b)
      BY <1>1, <3>1
    <3> QED
      BY <1>1, <3>1, <3>2, <3>3
  <2>4. (Scale + 2) * g = (Scale + 2) * from + (Scale + 2) * offer
        /\ (Scale + 2) * from \in Nat /\ (Scale + 2) * offer \in Nat
        /\ Scale * Scale \in Nat /\ Scale * y \in Nat
    BY <1>1
  <2> HIDE DEF g, y
  <2>5. 2 * (Scale * (b * from)) <= 2 * (Scale * y) + (Scale + 2) * from + Scale * Scale
    BY <1>1, <2>1, <2>2, <2>3, <2>4
  <2> QED
    BY <2>4, <2>5 DEF TradeDigits, y
<1> QED
  BY <1>2, <1>3

\* What is left of a trade after its fee, in whole coins, if that is anything.
LEMMA NetPaid ==
  ASSUME NEW b \in Int, NEW fee \in Nat, fee <= Scale, TruncateInt(NetOf(b, fee)) > 0
  PROVE  /\ b \in Nat /\ TruncateInt(NetOf(b, fee)) \in Nat
         /\ ToDec(TruncateInt(NetOf(b, fee))) <= b
<1> DEFINE n == NetOf(b, fee)
<1>1. CASE b >= 0
  <2>1. b \in Nat
    BY <1>1
  <2>2. Mul(b, fee) \in Nat /\ Mul(b, fee) <= b
    BY <2>1, MulType, MulBelow
  <2>3. n \in Nat /\ n <= b
    BY <2>1, <2>2 DEF NetOf
  <2> HIDE DEF n
  <2>4. TruncateInt(n) \in Nat /\ TruncateInt(n) * Scale <= n /\ TruncateInt(n) * Scale \in Int
    BY <2>3, RoundTruncate, ScaleAssumption
  <2>5. TruncateInt(n) \in Nat /\ ToDec(TruncateInt(n)) <= b
    BY <2>1, <2>3, <2>4 DEF ToDec
  <2> QED
    BY <2>1, <2>5 DEF n
<1>2. CASE b < 0
  <2> DEFINE a == -b
  <2>1. a \in Nat /\ a > 0
    BY <1>2
  <2>2. Mul(a, fee) \in Nat /\ Mul(a, fee) <= a
    BY <2>1, MulType, MulBelow
  <2>3. Mul(b, fee) = -Mul(a, fee)
    <3>1. b * fee = -(a * fee) /\ a * fee \in Nat
      BY <2>1
    <3>2. HalfEven(0) = 0
      <4>1. HalfEven(0 * Scale) = 0 /\ 0 * Scale = 0
        BY HalfEvenExact, ScaleAssumption
      <4> QED
        BY <4>1
    <3> DEFINE x == a * fee
    <3>3. ChopRound(-x) = -ChopRound(x)
      <4>1. x \in Nat
        BY <3>1
      <4> HIDE DEF x
      <4>2. HalfEven(x) \in Nat
        BY <4>1, HalfEvenBounds
      <4>3. CASE x = 0
        BY <3>2, <4>3 DEF ChopRound
      <4>4. CASE x > 0
        BY <4>1, <4>2, <4>4 DEF ChopRound
      <4> QED
        BY <4>1, <4>3, <4>4
    <3> QED
      BY <3>1, <3>3 DEF Mul
  <2>4. n \in Int /\ n <= 0
    BY <2>1, <2>2, <2>3 DEF NetOf
  <2> HIDE DEF n
  <2>5. TruncateInt(n) <= 0
    <3>1. -n \in Nat /\ Scale \in Nat /\ Scale > 0
      BY <2>4, ScaleAssumption
    <3>2. (-n) \div Scale \in Nat
      BY <3>1, DivMod
    <3>3. n = 0 => n \div Scale = 0
      BY <3>1
    <3> QED
      BY <2>4, <3>2, <3>3 DEF TruncateInt
  <2>6. TruncateInt(n) \in Int
    BY <2>4, IntTypes
  <2> QED
    BY <2>5, <2>6 DEF n
<1> QED
  BY <1>1, <1>2

\* NetOf only takes.
LEMMA NetOfBelow ==
  ASSUME NEW a \in Nat, NEW fee \in Nat, fee <= Scale
  PROVE  NetOf(a, fee) \in Nat /\ NetOf(a, fee) <= a
<1>1. Mul(a, fee) \in Nat /\ Mul(a, fee) <= a
  BY MulType, MulBelow
<1> QED
  BY <1>1 DEF NetOf

\* A difference that is known up to a remainder.
LEMMA UpToRemainder ==
  ASSUME NEW d \in Nat, d > 0, NEW n \in Nat, NEW m \in Nat, NEW x \in Nat,
         n * d <= m * d + x
  PROVE  n <= m + x \div d /\ x \div d \in Nat
<1>1. x \div d \in Nat
  BY DivMod
<1>2. CASE n <= m
  BY <1>1, <1>2
<1>3. CASE n > m
  <2>1. n - m \in Nat /\ (n - m) * d <= x
    BY <1>3
  <2>2. n - m <= x \div d
    BY <2>1, DivAbove
  <2> QED
    BY <1>1, <2>2
<1> QED
  BY <1>2, <1>3

\* What Burn mints for an amount of a reference.
LEMMA BurnLimit ==
  ASSUME Types, NEW r \in Denoms, NEW amount \in Nat, amount <= MaxBurnAmount,
         SimulateToBase(r, amount) > 0
  PROVE  /\ SimulateToBase(r, amount) \in Nat
         /\ SimulateToBase(r, amount) * pools[r].other
              <= MaxBurnAmount * pools[r].base
                   + TradeDigits(pools[r].other) \div (2 * Scale * Scale)
<1> DEFINE f == pools[r].other
           t == pools[r].base
           fee == ReserveFee(TradeFee)
           offer == NetOf(ToDec(amount), fee)
           b == Bought(f, t, offer)
           n == SimulateToBase(r, amount)
           A == MaxBurnAmount
           digits == TradeDigits(f)
<1>1. /\ f \in Nat /\ f > 0 /\ t \in Nat /\ t > 0 /\ A \in Nat
      /\ Scale \in Nat /\ Scale > 0
  BY PoolTypes, SwapAssumption, ScaleAssumption
<1>2. fee \in Nat /\ fee <= Scale
  <2>1. TradeFee \in Nat /\ TradeFee <= Scale
    BY SwapAssumption, ScaleAssumption
  <2> QED
    BY <1>1, <2>1, ReserveFeeType
<1>3. n = TruncateInt(NetOf(b, fee))
  BY DEF SimulateToBase, ReceivedToBase
<1> HIDE DEF fee
<1>4. offer \in Nat /\ offer <= ToDec(amount)
  BY <1>2, ToDecNat, NetOfBelow
<1> HIDE DEF offer, f, t
<1>5. b \in Int
  BY <1>1, <1>4, BoughtInt
<1>6. n > 0
  OBVIOUS
<1> HIDE DEF n
<1>7. n \in Nat /\ ToDec(n) <= b /\ ToDec(n) \in Nat
  <2> HIDE DEF b
  <2>1. n \in Nat /\ ToDec(n) <= b
    BY <1>2, <1>3, <1>5, <1>6, NetPaid
  <2> QED
    BY <2>1, ToDecNat
<1>8. 2 * (Scale * (ToDec(n) * f)) <= 2 * (Scale * (offer * t)) + digits
  BY <1>1, <1>4, <1>7, TradePays
<1>9. digits \in Nat
  BY <1>1 DEF TradeDigits
<1> HIDE DEF digits, b
<1>10. (n * f) * (2 * Scale * Scale) <= (A * t) * (2 * Scale * Scale) + digits
  <2>1. offer <= A * Scale /\ A * Scale \in Nat
    <3>1. amount * Scale <= A * Scale
      BY <1>1
    <3> QED
      BY <1>1, <1>4, <3>1 DEF ToDec
  <2>2. offer * t <= (A * Scale) * t /\ offer * t \in Nat /\ (A * Scale) * t \in Nat
    BY <1>1, <1>4, <2>1
  <2>3. /\ Scale * (offer * t) <= Scale * ((A * Scale) * t)
        /\ Scale * (offer * t) \in Nat /\ Scale * ((A * Scale) * t) \in Nat
    BY <1>1, <2>2
  <2>4. /\ (A * t) * (2 * Scale * Scale) = 2 * (Scale * ((A * Scale) * t))
        /\ (n * f) * (2 * Scale * Scale) = 2 * (Scale * ((n * Scale) * f))
        /\ Scale * ((n * Scale) * f) \in Nat
    BY <1>1, <1>7
  <2> QED
    BY <1>8, <1>9, <2>3, <2>4 DEF ToDec
<1>11. n * f <= A * t + digits \div (2 * Scale * Scale)
  <2>1. /\ 2 * Scale * Scale \in Nat /\ 2 * Scale * Scale > 0
        /\ n * f \in Nat /\ A * t \in Nat
    BY <1>1, <1>7
  <2> QED
    BY <1>9, <1>10, <2>1, UpToRemainder
<1> QED
  BY <1>7, <1>11 DEF n, f, t, digits

\* Two trades in a row, in numbers: x is paid for at most a whole coins of the
\* reference, n coins for x.
LEMMA TwoTrades ==
  ASSUME NEW f \in Nat, f > 0, NEW t \in Nat, NEW g \in Nat, g > 0, NEW u \in Nat,
         NEW a \in Nat, NEW o \in Nat, o <= a * Scale, NEW x \in Nat, NEW n \in Nat,
         NEW c \in Nat, NEW e \in Nat,
         2 * (Scale * (x * f)) <= 2 * (Scale * (o * t)) + c,
         2 * (Scale * ((n * Scale) * g)) <= 2 * (Scale * (x * u)) + e,
         u * t <= 2 * f * g
  PROVE  n <= 2 * a + ((u * c + f * e) \div (f * g)) \div (2 * Scale * Scale)
<1> DEFINE D == 2 * Scale * Scale
           P == f * g
           r == u * c + f * e
           m == 2 * a
<1>1. /\ Scale \in Nat /\ Scale > 0 /\ D \in Nat /\ D > 0 /\ P \in Nat /\ P > 0
      /\ r \in Nat /\ m \in Nat
  BY ScaleAssumption
<1>2. (n * D) * P <= (m * D) * P + r
  <2>1. u * (2 * (Scale * (x * f))) <= u * (2 * (Scale * (o * t))) + u * c
    <3> DEFINE v == 2 * (Scale * (x * f))
               w == 2 * (Scale * (o * t))
    <3>1. v \in Nat /\ w \in Nat /\ v <= w + c
      BY <1>1
    <3> HIDE DEF v, w
    <3>2. u * v <= u * (w + c) /\ u * (w + c) = u * w + u * c
      BY <3>1
    <3>3. u * v <= u * w + u * c
      BY <3>2
    <3> QED
      BY <3>3 DEF v, w
  <2>2. f * (2 * (Scale * ((n * Scale) * g))) <= f * (2 * (Scale * (x * u))) + f * e
    <3> DEFINE v == 2 * (Scale * ((n * Scale) * g))
               w == 2 * (Scale * (x * u))
    <3>1. v \in Nat /\ w \in Nat /\ v <= w + e
      BY <1>1
    <3> HIDE DEF v, w
    <3>2. f * v <= f * (w + e) /\ f * (w + e) = f * w + f * e
      BY <3>1
    <3>3. f * v <= f * w + f * e
      BY <3>2
    <3> QED
      BY <3>3 DEF v, w
  <2>3. u * (2 * (Scale * (x * f))) = f * (2 * (Scale * (x * u)))
    BY <1>1
  <2>4. f * (2 * (Scale * ((n * Scale) * g))) = (n * D) * P
    BY <1>1
  <2>5. u * (2 * (Scale * (o * t))) <= (m * D) * P
    <3>1. (u * t) * o <= (2 * P) * (a * Scale)
      <4>1. (u * t) * o <= (u * t) * (a * Scale)
        <5> DEFINE y == u * t
                   z == a * Scale
        <5>1. y \in Nat /\ z \in Nat /\ o <= z
          BY <1>1
        <5> HIDE DEF y, z
        <5>2. y * o <= y * z
          BY <5>1
        <5> QED
          BY <5>2 DEF y, z
      <4>2. (u * t) * (a * Scale) <= (2 * P) * (a * Scale)
        <5> DEFINE y == u * t
                   z == a * Scale
                   q == 2 * P
        <5>1. y \in Nat /\ z \in Nat /\ q \in Nat /\ y <= q
          BY <1>1
        <5> HIDE DEF y, z, q
        <5>2. y * z <= q * z
          BY <5>1
        <5> QED
          BY <5>2 DEF y, z, q
      <4>3. /\ (u * t) * o \in Nat /\ (u * t) * (a * Scale) \in Nat
            /\ (2 * P) * (a * Scale) \in Nat
        BY <1>1
      <4> QED
        BY <4>1, <4>2, <4>3
    <3>2. (2 * Scale) * ((u * t) * o) <= (2 * Scale) * ((2 * P) * (a * Scale))
      <4> DEFINE y == (u * t) * o
                 z == (2 * P) * (a * Scale)
      <4>1. y \in Nat /\ z \in Nat /\ y <= z
        BY <1>1, <3>1
      <4> HIDE DEF y, z
      <4>2. (2 * Scale) * y <= (2 * Scale) * z
        BY <1>1, <4>1
      <4> QED
        BY <4>2 DEF y, z
    <3>3. (2 * Scale) * ((u * t) * o) = u * (2 * (Scale * (o * t)))
      BY <1>1
    <3>4. (2 * Scale) * ((2 * P) * (a * Scale)) = (m * D) * P
      <4> HIDE DEF P
      <4> QED
        BY <1>1
    <3> QED
      BY <3>2, <3>3, <3>4
  <2>6. /\ u * (2 * (Scale * (x * f))) \in Nat /\ u * (2 * (Scale * (o * t))) \in Nat
        /\ (m * D) * P \in Nat /\ (n * D) * P \in Nat /\ u * c \in Nat /\ f * e \in Nat
    BY <1>1
  <2> HIDE DEF D, P, m
  <2> QED
    BY <2>1, <2>2, <2>3, <2>4, <2>5, <2>6 DEF r
<1> HIDE DEF D, P, r, m
<1>3. n * D \in Nat /\ m * D \in Nat
  BY <1>1
<1>4. n * D <= m * D + r \div P /\ r \div P \in Nat
  BY <1>1, <1>2, <1>3, UpToRemainder
<1>5. n <= m + (r \div P) \div D
  BY <1>1, <1>4, UpToRemainder
<1> QED
  BY <1>5 DEF D, P, r, m

\* What Mint mints for an amount of a reference that the pools do not value at
\* more than two kCoins.
LEMMA MintLimit ==
  ASSUME Types, NEW r \in Denoms, NEW k \in Denoms, NEW amount \in Nat, amount > 0,
         pools[k].other * pools[r].base <= 2 * pools[r].other * pools[k].base,
         SimulateBetween(r, k, amount) > 0
  PROVE  /\ SimulateBetween(r, k, amount) \in Nat
         /\ SimulateBetween(r, k, amount) <= 2 * amount + MintRounding(k, r)
<1> DEFINE f == pools[r].other
           t == pools[r].base
           g == pools[k].base
           u == pools[k].other
           half == Quo(TradeFee, ToDec(2))
           fee == ReserveFee(half)
           offer == NetOf(ToDec(amount), fee)
           first == Bought(f, t, offer)
           base == NetOf(first, fee)
           second == Bought(g, u, base)
           n == SimulateBetween(r, k, amount)
<1>1. /\ f \in Nat /\ f > 0 /\ t \in Nat /\ t > 0
      /\ g \in Nat /\ g > 0 /\ u \in Nat /\ u > 0
      /\ Scale \in Nat /\ Scale > 0 /\ u * t <= 2 * f * g
  BY PoolTypes, ScaleAssumption
<1>2. fee \in Nat /\ 2 * fee <= Scale /\ fee <= Scale
  <2>1. half \in Nat /\ 2 * half <= Scale /\ half <= Scale
    BY HalfFee, ScaleAssumption
  <2> HIDE DEF half
  <2>2. ReserveFee(half) \in Nat /\ ReserveFee(half) <= half
    BY <2>1, ReserveFeeType
  <2> QED
    BY <2>1, <2>2, ScaleAssumption
<1>3. n = TruncateInt(NetOf(second, fee))
  BY DEF SimulateBetween, ReceivedBetween
<1>4. n > 0
  OBVIOUS
<1>5. MintRounding(k, r)
        = ((u * TradeDigits(f) + f * TradeDigits(g)) \div (f * g)) \div (2 * Scale * Scale)
  BY DEF MintRounding
<1> HIDE DEF fee, n
<1>6. offer \in Nat /\ offer <= amount * Scale /\ 2 * offer >= Scale
  <2>1. ToDec(amount) \in Nat
    BY ToDecNat
  <2>2. offer \in Nat /\ offer <= ToDec(amount) /\ 2 * offer >= Scale
    BY <1>2, <2>1, NetOfBelow, OfferedHalf
  <2> QED
    BY <2>2 DEF ToDec
<1> HIDE DEF offer, f, t, g, u
<1>7. first \in Nat
  BY <1>1, <1>6, BoughtNat
<1>8. base \in Nat /\ base <= first
  <2> HIDE DEF first
  <2> QED
    BY <1>2, <1>7, NetOfBelow
<1> HIDE DEF base
<1>9. 2 * (Scale * (base * f)) <= 2 * (Scale * (offer * t)) + TradeDigits(f)
  BY <1>1, <1>6, <1>8, TradePays
<1>10. n \in Nat /\ ToDec(n) <= second /\ ToDec(n) \in Nat
  <2>1. second \in Int
    BY <1>1, <1>8, BoughtInt
  <2> HIDE DEF second
  <2>2. n \in Nat /\ ToDec(n) <= second
    BY <1>2, <1>3, <1>4, <2>1, NetPaid
  <2> QED
    BY <2>2, ToDecNat
<1>11. 2 * (Scale * (ToDec(n) * g)) <= 2 * (Scale * (base * u)) + TradeDigits(g)
  BY <1>1, <1>8, <1>10, TradePays
<1>12. TradeDigits(f) \in Nat /\ TradeDigits(g) \in Nat
  BY <1>1 DEF TradeDigits
<1>13. 2 * (Scale * ((n * Scale) * g)) <= 2 * (Scale * (base * u)) + TradeDigits(g)
  BY <1>11 DEF ToDec
<1>14. n <= 2 * amount + ((u * TradeDigits(f) + f * TradeDigits(g)) \div (f * g))
                            \div (2 * Scale * Scale)
  BY <1>1, <1>6, <1>8, <1>9, <1>10, <1>12, <1>13, TwoTrades
<1>15. n <= 2 * amount + MintRounding(k, r)
  BY <1>5, <1>14
<1> QED
  BY <1>10, <1>15 DEF n

\* What a step of Burn mints, if anything.
LEMMA BurnAmountsLimit ==
  ASSUME Types, NEW k \in KCoins, Priced(k), NEW minted \in BurnAmounts(k), minted > 0
  PROVE  \E r \in Highest(k) :
           minted * pools[r].other
             <= MaxBurnAmount * pools[r].base
                  + TradeDigits(pools[r].other) \div (2 * Scale * Scale)
<1>1. PICK r \in Highest(k) : minted = BurnDue(k, r)
  BY DEF BurnAmounts
<1>2. r \in Denoms /\ k \in Denoms
  BY PricedRatio DEF Highest
<1> DEFINE diff == pools[k].other - pools[r].other
           amount == AmountToBurn(diff)
<1>3. minted = BaseMintAmount(k, r)
  BY <1>1 DEF BurnDue
<1>4. ~(diff <= 0) /\ minted = SimulateToBase(r, amount)
  BY <1>3 DEF BaseMintAmount
<1>5. diff \in Nat
  BY <1>2, <1>4, PoolTypes
<1> HIDE DEF diff
<1>6. amount \in Nat /\ amount <= MaxBurnAmount
  <2>1. RoundInt(diff) \in Nat /\ MaxBurnAmount \in Nat
    BY <1>5, RoundTruncate, SwapAssumption
  <2> QED
    BY <2>1 DEF AmountToBurn, MinInt
<1> HIDE DEF amount
<1>7. SimulateToBase(r, amount) > 0
  BY <1>4
<1> QED
  BY <1>2, <1>4, <1>6, <1>7, BurnLimit

\* What a step of Mint mints, against the room below the cap.
LEMMA MintAmountsLimit ==
  ASSUME Types, NEW k \in KCoins, Priced(k), ~HalfWorth(k),
         NEW minted \in MintAmounts(k), minted >= 1
  PROVE  \E r \in Highest(k) : supply[k] + minted <= maxSupply[k] + MintRounding(k, r)
<1>1. PICK r \in Highest(k) : minted = MintDue(k, r)
  BY DEF MintAmounts
<1>2. r \in Denoms /\ k \in Denoms /\ ratio[r] \in Nat /\ ratio[r] > 0 /\ r \in refs[k]
  BY PricedRatio DEF Highest
<1> DEFINE product == Mul(pools[k].base, pools[k].other)
           root == ApproxSqrt(Quo(product, ratio[r]))
           calculated == KCoinMintAmount(k, r)
           limited == MinInt(calculated, MaxMintAmount)
           amount == MintAmount(k, r)
           room == maxSupply[k] - (supply[k] + limited)
<1>3. minted = KCoinsToMint(k, r, amount)
  BY <1>1 DEF MintDue
<1>4. ~(amount <= 0) /\ minted = SimulateBetween(r, k, amount)
  BY <1>3 DEF KCoinsToMint
<1>5. calculated \in Int
  <2>1. product \in Nat
    BY <1>2, PoolTypes, MulType
  <2>2. root \in Nat
    <3> HIDE DEF product
    <3> QED
      BY <1>2, <2>1, QuoType, SqrtType
  <2>3. root - pools[k].other \in Int
    <3> HIDE DEF root
    <3> QED
      BY <1>2, <2>2, PoolTypes
  <2>4. calculated = TruncateInt(root - pools[k].other)
    BY DEF KCoinMintAmount
  <2> HIDE DEF root, calculated
  <2> QED
    BY <2>3, <2>4, IntTypes
<1>6. limited \in Int
  <2> HIDE DEF calculated
  <2> QED
    BY <1>5, SwapAssumption DEF MinInt
<1>7. supply[k] \in Int /\ maxSupply[k] \in Nat
  <2>1. supply[k] \in Int /\ maxSupply[k] \in MaxSupplies
    BY DEF Types, Accounts
  <2>2. MaxSupplies \subseteq Nat
    BY SwapAssumption
  <2> QED
    BY <2>1, <2>2
<1>8. amount = MinInt(room, limited)
  BY DEF MintAmount, AdjustForSupplyCap
<1> HIDE DEF limited, amount
<1>9. /\ amount \in Nat /\ amount > 0
      /\ supply[k] + 2 * amount <= maxSupply[k]
  BY <1>4, <1>6, <1>7, <1>8 DEF MinInt
<1>10. pools[k].other * pools[r].base <= 2 * pools[r].other * pools[k].base
  <2>1. ~(pools[k].other * pools[r].base > 2 * pools[r].other * pools[k].base)
    BY <1>2 DEF HalfWorth
  <2>2. /\ pools[k].other * pools[r].base \in Nat
        /\ 2 * pools[r].other * pools[k].base \in Nat
    BY <1>2, PoolTypes
  <2> QED
    BY <2>1, <2>2
<1> DEFINE n == SimulateBetween(r, k, amount)
<1>11. n > 0
  <2>1. minted \in Int
    BY MintAmountsInt
  <2> QED
    BY <1>4, <2>1
<1>12. n \in Nat /\ n <= 2 * amount + MintRounding(k, r)
  BY <1>2, <1>9, <1>10, <1>11, MintLimit
<1>13. MintRounding(k, r) \in Int
  <2> DEFINE f == pools[r].other
             g == pools[k].base
             x == pools[k].other * TradeDigits(f) + f * TradeDigits(g)
  <2>1. f \in Nat /\ f > 0 /\ g \in Nat /\ g > 0 /\ pools[k].other \in Nat
        /\ Scale \in Nat /\ Scale > 0
    BY <1>2, PoolTypes, ScaleAssumption
  <2>2. x \in Nat
    <3> HIDE DEF f, g
    <3>1. TradeDigits(f) \in Nat /\ TradeDigits(g) \in Nat
      BY <2>1 DEF TradeDigits
    <3> QED
      BY <2>1, <3>1
  <2>3. MintRounding(k, r) = (x \div (f * g)) \div (2 * Scale * Scale)
    BY DEF MintRounding
  <2> HIDE DEF x, f, g
  <2>4. f * g \in Nat /\ f * g > 0 /\ 2 * Scale * Scale \in Nat /\ 2 * Scale * Scale > 0
    BY <2>1
  <2>5. x \div (f * g) \in Nat
    BY <2>2, <2>4, DivMod
  <2>6. (x \div (f * g)) \div (2 * Scale * Scale) \in Nat
    BY <2>4, <2>5, DivMod
  <2> QED
    BY <2>3, <2>6
<1>14. minted = n
  BY <1>4
<1> HIDE DEF n
<1>15. supply[k] + minted <= maxSupply[k] + MintRounding(k, r)
  BY <1>7, <1>9, <1>12, <1>13, <1>14
<1> QED
  BY <1>15

\* The supplies after mintTradeBurn.
LEMMA SupplyBought ==
  ASSUME Inv, NEW k \in KCoins, NEW minted \in Nat, MintTradeBurn(k, minted)
  PROVE  /\ supply'[Base] = supply[Base] + minted
         /\ \A l \in KCoins : supply'[l] <= supply[l]
<1>1. PICK given \in Tradable(minted) :
        supply' = [supply EXCEPT ![Base] = @ + minted,
                                 ![k] = @ - (account[k] + ForBase(k, given))]
  BY DEF MintTradeBurn
<1>2. Types /\ k \in Denoms
  BY DEF Inv, Denoms
<1>3. ForBase(k, given) \in Nat
  BY <1>2, TradableType, ForBaseNat
<1>4. /\ supply \in [Accounts -> Int] /\ account[k] \in Nat
      /\ k # Base /\ Base \in Accounts /\ KCoins \subseteq Accounts /\ Base \notin KCoins
  BY <1>2, BaseApart DEF Types
<1>5. supply'[Base] = supply[Base] + minted
  BY <1>1, <1>4
<1>6. supply'[k] = supply[k] - (account[k] + ForBase(k, given))
  BY <1>1, <1>4
<1>7. supply[k] \in Int
  BY <1>4
<1>8. supply'[k] <= supply[k]
  BY <1>3, <1>4, <1>6, <1>7
<1>9. ASSUME NEW l \in KCoins, l # k PROVE supply'[l] = supply[l] /\ supply[l] \in Int
  BY <1>1, <1>4, <1>9
<1>10. \A l \in KCoins : supply'[l] <= supply[l]
  BY <1>8, <1>9
<1> QED
  BY <1>5, <1>10

\* The supplies after CheckMint has sold what it has minted: the stakers get a
\* part of what is there, the rest is burned.
LEMMA SupplySold ==
  ASSUME Inv, NEW k \in KCoins, NEW minted \in Nat, MintAndSell(k, minted)
  PROVE  /\ supply'[Base] <= supply[Base]
         /\ supply'[k] = supply[k] + minted
         /\ \A l \in KCoins : l # k => supply'[l] = supply[l]
<1>1. PICK given \in Tradable(minted), leftover \in Leftovers :
        supply' = [supply EXCEPT ![k] = @ + minted,
                                 ![Base] = @ - BurnedBase(account[Base]
                                                 + (ForDenom(k, given) + leftover))]
  BY DEF MintAndSell
<1> DEFINE held == account[Base] + (ForDenom(k, given) + leftover)
<1>2. Types /\ k \in Denoms
  BY DEF Inv, Denoms
<1>3. ForDenom(k, given) \in Nat /\ leftover \in Nat
  BY <1>2, TradableType, ForDenomNat, SwapAssumption
<1>4. /\ supply \in [Accounts -> Int] /\ account[Base] \in Nat
      /\ k # Base /\ Base \in Accounts /\ KCoins \subseteq Accounts /\ Base \notin KCoins
  BY <1>2, BaseApart DEF Types
<1>5. held \in Nat
  BY <1>3, <1>4
<1>6. supply' = [supply EXCEPT ![k] = @ + minted, ![Base] = @ - BurnedBase(held)]
  BY <1>1
<1> HIDE DEF held
<1>7. Reward(held) \in Nat /\ Reward(held) <= held
  <2>1. share \in Nat /\ share <= Scale /\ Scale \in Nat
    BY <1>2, ShareTypes, ScaleAssumption DEF Types
  <2>2. Mul(share, ToDec(held)) = held * share
    BY <1>5, <2>1, MulWhole
  <2>3. held * share \in Nat /\ held * share <= ToDec(held)
    BY <1>5, <2>1 DEF ToDec
  <2>4. RoundInt(held * share) <= held /\ RoundInt(held * share) \in Nat
    BY <1>5, <2>3, RoundBelow, RoundTruncate
  <2> QED
    BY <2>2, <2>4 DEF Reward
<1>8. BurnedBase(held) \in Nat
  BY <1>5, <1>7 DEF BurnedBase
<1>9. supply'[Base] = supply[Base] - BurnedBase(held) /\ supply[Base] \in Int
  BY <1>4, <1>6
<1>10. supply'[Base] <= supply[Base]
  BY <1>8, <1>9
<1>11. supply'[k] = supply[k] + minted
  BY <1>4, <1>6
<1>12. ASSUME NEW l \in KCoins, l # k PROVE supply'[l] = supply[l]
  BY <1>4, <1>6, <1>12
<1> QED
  BY <1>10, <1>11, <1>12

\* Nothing but Burn and Mint changes a supply.
LEMMA SupplyKept ==
  ASSUME Transaction \/ BeginBurn \/ BeginMint \/ NextBlock \/ UNCHANGED vars
  PROVE  supply' = supply
BY DEF Transaction, BeginBurn, BeginMint, NextBlock, vars, bank

\* The action of InflationBounded.
InflationStep ==
  supply'[Base] > supply[Base] =>
    \E k \in queue \ queue' : \E r \in Highest(k) :
      (supply'[Base] - supply[Base]) * pools[r].other
        <= MaxBurnAmount * pools[r].base
             + TradeDigits(pools[r].other) \div (2 * Scale * Scale)

LEMMA InflationCause ==
  ASSUME Inv, [Next]_vars
  PROVE  InflationStep
<1> SUFFICES ASSUME supply'[Base] > supply[Base]
             PROVE  \E k \in queue \ queue' : \E r \in Highest(k) :
                      (supply'[Base] - supply[Base]) * pools[r].other
                        <= MaxBurnAmount * pools[r].base
                             + TradeDigits(pools[r].other) \div (2 * Scale * Scale)
  BY DEF InflationStep
<1>1. Types /\ supply[Base] \in Int /\ Base \in Accounts /\ supply \in [Accounts -> Int]
  BY BaseApart DEF Inv, Types
<1>2. ASSUME supply'[Base] <= supply[Base], supply'[Base] \in Int PROVE FALSE
  BY <1>1, <1>2
<1>3. CASE Transaction \/ BeginBurn \/ BeginMint \/ NextBlock \/ UNCHANGED vars
  BY <1>1, <1>2, <1>3, SupplyKept
<1>4. ASSUME NEW k \in KCoins, CheckMint(k) PROVE FALSE
  <2>1. PICK minted \in MintAmounts(k) :
          \/ minted < 1 /\ UNCHANGED <<market, bank, history>>
          \/ minted >= 1 /\ MintAndSell(k, minted)
          \/ minted >= 1 /\ MintUnsold(k, minted)
    BY <1>4 DEF CheckMint
  <2>2. minted \in Int /\ k # Base /\ k \in Accounts
    BY <1>1, <1>4, MintAmountsInt, BaseApart DEF CheckMint
  <2>3. CASE UNCHANGED bank
    BY <1>1, <1>2, <2>3 DEF bank
  <2>4. CASE minted >= 1 /\ MintAndSell(k, minted)
    <3>1. minted \in Nat
      BY <2>2, <2>4
    <3>2. supply'[Base] <= supply[Base]
      BY <2>4, <3>1, SupplySold
    <3>3. supply'[Base] \in Int
      BY <1>1, <2>4, <3>1, KCoinSold
    <3> QED
      BY <1>2, <3>2, <3>3
  <2>5. CASE MintUnsold(k, minted)
    <3>1. supply' = [supply EXCEPT ![k] = @ + minted]
      BY <2>5 DEF MintUnsold, Add
    <3>2. supply'[Base] = supply[Base]
      BY <1>1, <2>2, <3>1
    <3> QED
      BY <1>1, <1>2, <3>2
  <2> QED
    BY <2>1, <2>3, <2>4, <2>5
<1>5. ASSUME NEW k \in KCoins, CheckBurn(k)
      PROVE  \E l \in queue \ queue' : \E r \in Highest(l) :
               (supply'[Base] - supply[Base]) * pools[r].other
                 <= MaxBurnAmount * pools[r].base
                      + TradeDigits(pools[r].other) \div (2 * Scale * Scale)
  <2>1. PICK minted \in BurnAmounts(k) :
          \/ minted = 0 /\ UNCHANGED <<market, bank, history>>
          \/ minted > 0 /\ MintTradeBurn(k, minted)
          \/ minted > 0 /\ MintWithoutTrade(minted)
    BY <1>5 DEF CheckBurn
  <2>2. k \in queue \ queue' /\ Priced(k)
    BY <1>5 DEF CheckBurn
  <2>3. minted \in Int
    BY <1>1, <2>2, BurnAmountsInt
  <2>4. CASE UNCHANGED bank
    BY <1>1, <1>2, <2>4 DEF bank
  <2>5. CASE minted > 0 /\ (MintTradeBurn(k, minted) \/ MintWithoutTrade(minted))
    <3>1. minted \in Nat
      BY <2>3, <2>5
    <3>2. supply'[Base] = supply[Base] + minted
      <4>1. CASE MintTradeBurn(k, minted)
        BY <3>1, <4>1, SupplyBought
      <4>2. CASE MintWithoutTrade(minted)
        <5>1. supply' = [supply EXCEPT ![Base] = @ + minted]
          BY <4>2 DEF MintWithoutTrade, Add
        <5> QED
          BY <1>1, <5>1
      <4> QED
        BY <2>5, <4>1, <4>2
    <3>3. supply'[Base] - supply[Base] = minted
      BY <1>1, <3>1, <3>2
    <3>4. \E r \in Highest(k) :
            minted * pools[r].other
              <= MaxBurnAmount * pools[r].base
                   + TradeDigits(pools[r].other) \div (2 * Scale * Scale)
      BY <1>1, <2>2, <2>5, BurnAmountsLimit
    <3> QED
      BY <2>2, <3>3, <3>4
  <2> QED
    BY <2>1, <2>4, <2>5
<1> QED
  BY <1>3, <1>4, <1>5 DEF Next

\* What a step of Burn mints is worth at most MaxBurnAmount of a reference with
\* the highest price, for every market, fee and scale.
THEOREM InflationStaysBounded == Spec => InflationBounded
<1>1. Inv /\ [Next]_vars => [InflationStep]_vars
  BY InflationCause
<1> QED
  BY <1>1, Invariance, PTL DEF Spec, InflationBounded, InflationStep

\* The action of SupplyCap.
CapStep ==
  \A k \in KCoins :
    supply'[k] > supply[k] /\ ~HalfWorth(k) =>
      \E r \in Highest(k) : supply'[k] <= maxSupply[k] + MintRounding(k, r)

LEMMA CapCause ==
  ASSUME Inv, [Next]_vars
  PROVE  CapStep
<1> SUFFICES ASSUME NEW l \in KCoins, supply'[l] > supply[l], ~HalfWorth(l)
             PROVE  \E r \in Highest(l) : supply'[l] <= maxSupply[l] + MintRounding(l, r)
  BY DEF CapStep
<1>1. Types /\ supply[l] \in Int /\ l \in Accounts /\ l # Base
      /\ supply \in [Accounts -> Int]
  BY BaseApart DEF Inv, Types
<1>2. ASSUME supply'[l] <= supply[l], supply'[l] \in Int PROVE FALSE
  BY <1>1, <1>2
<1>3. CASE Transaction \/ BeginBurn \/ BeginMint \/ NextBlock \/ UNCHANGED vars
  BY <1>1, <1>2, <1>3, SupplyKept
<1>4. ASSUME NEW k \in KCoins, CheckBurn(k) PROVE FALSE
  <2>1. PICK minted \in BurnAmounts(k) :
          \/ minted = 0 /\ UNCHANGED <<market, bank, history>>
          \/ minted > 0 /\ MintTradeBurn(k, minted)
          \/ minted > 0 /\ MintWithoutTrade(minted)
    BY <1>4 DEF CheckBurn
  <2>2. minted \in Int
    BY <1>1, <1>4, BurnAmountsInt DEF CheckBurn
  <2>3. CASE UNCHANGED bank
    BY <1>1, <1>2, <2>3 DEF bank
  <2>4. CASE minted > 0 /\ MintTradeBurn(k, minted)
    <3>1. minted \in Nat
      BY <2>2, <2>4
    <3>2. supply'[l] <= supply[l] /\ supply'[l] \in Int
      BY <1>1, <2>4, <3>1, SupplyBought, BaseBought
    <3> QED
      BY <1>2, <3>2
  <2>5. CASE MintWithoutTrade(minted)
    <3>1. supply' = [supply EXCEPT ![Base] = @ + minted]
      BY <2>5 DEF MintWithoutTrade, Add
    <3>2. supply'[l] = supply[l]
      BY <1>1, <3>1
    <3> QED
      BY <1>1, <1>2, <3>2
  <2> QED
    BY <2>1, <2>3, <2>4, <2>5
<1>5. ASSUME NEW k \in KCoins, CheckMint(k)
      PROVE  \E r \in Highest(l) : supply'[l] <= maxSupply[l] + MintRounding(l, r)
  <2>1. PICK minted \in MintAmounts(k) :
          \/ minted < 1 /\ UNCHANGED <<market, bank, history>>
          \/ minted >= 1 /\ MintAndSell(k, minted)
          \/ minted >= 1 /\ MintUnsold(k, minted)
    BY <1>5 DEF CheckMint
  <2>2. minted \in Int /\ Priced(k) /\ k \in Accounts
    BY <1>1, <1>5, MintAmountsInt, BaseApart DEF CheckMint
  <2>3. CASE UNCHANGED bank
    BY <1>1, <1>2, <2>3 DEF bank
  <2>4. CASE minted >= 1 /\ (MintAndSell(k, minted) \/ MintUnsold(k, minted))
    <3>1. minted \in Nat
      BY <2>2, <2>4
    <3>2. supply'[k] = supply[k] + minted /\ (l # k => supply'[l] = supply[l])
      <4>1. CASE MintAndSell(k, minted)
        BY <3>1, <4>1, SupplySold
      <4>2. CASE MintUnsold(k, minted)
        <5>1. supply' = [supply EXCEPT ![k] = @ + minted]
          BY <4>2 DEF MintUnsold, Add
        <5> QED
          BY <1>1, <2>2, <5>1
      <4> QED
        BY <2>4, <4>1, <4>2
    <3>3. l = k
      BY <1>1, <1>2, <3>2
    <3>4. \E r \in Highest(k) : supply[k] + minted <= maxSupply[k] + MintRounding(k, r)
      BY <1>1, <2>2, <2>4, <3>3, MintAmountsLimit
    <3> QED
      BY <3>2, <3>3, <3>4
  <2> QED
    BY <2>1, <2>3, <2>4
<1> QED
  BY <1>3, <1>4, <1>5 DEF Next

\* Mint takes a kCoin past MaxSupply only if the pools value it at less than
\* half of a reference, for every market, fee and scale.
THEOREM SupplyStaysCapped == Spec => SupplyCap
<1>1. Inv /\ [Next]_vars => [CapStep]_vars
  BY CapCause
<1> QED
  BY <1>1, Invariance, PTL DEF Spec, SupplyCap, CapStep
=============================================================================
