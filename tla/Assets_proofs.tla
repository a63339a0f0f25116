---------------------------- MODULE Assets_proofs ----------------------------
(***************************************************************************)
(* The registry of denoms and the token factory.                           *)
(*                                                                         *)
(* The registry, for any parameters at genesis that are valid and any      *)
(* messages: numbers stay in range, every name that a parameter mentions   *)
(* is a dex denom, no reference serves two kCoins, no cAsset is added.     *)
(*                                                                         *)
(* The accounts of the token factory, for every number of users, names,    *)
(* amounts and fees: no balance is negative, no coin is unaccounted for,   *)
(* the coins of the factory are never Kopi, and nobody but the owner and   *)
(* the admin takes coins out of a wallet.                                  *)
(***************************************************************************)
EXTENDS Denominations, TokenFactory, Sums_proofs, SequenceTheorems

-----------------------------------------------------------------------------
(* Lists.                                                                  *)

\* filterReferences selects references: the loop has a result, by a shortest
\* list for which it has none.
LEMMA FilteredIsList ==
  ASSUME NEW S, NEW s \in Seq(S), NEW removed
  PROVE  Filtered(s, removed) \in Seq(S)
<1> DEFINE N == Len(s)
           Step(g, i) == IF i = 0 THEN <<>>
                         ELSE IF s[i] \in Range(removed) THEN g[i - 1]
                         ELSE Append(g[i - 1], s[i])
           Solves(g) == g = [i \in 0..N |-> Step(g, i)]
           Begins(n) == \E g \in [0..N -> Seq(S)] : \A i \in 0..n : g[i] = Step(g, i)
           kept == CHOOSE g : Solves(g)
<1>1. N \in Nat /\ \A i \in 1..N : s[i] \in S
  BY LenProperties, ElementOfSeq
<1>2. Filtered(s, removed) = kept[N]
  BY DEF Filtered
<1> HIDE DEF N
<1>3. Begins(0)
  <2> DEFINE g == [i \in 0..N |-> <<>>]
  <2>1. g \in [0..N -> Seq(S)] /\ \A i \in 0..0 : g[i] = Step(g, i)
    BY <1>1, EmptySeq
  <2> QED
    BY <2>1
<1>4. ASSUME NEW n \in 0..(N - 1), Begins(n) PROVE Begins(n + 1)
  <2>1. PICK h \in [0..N -> Seq(S)] : \A i \in 0..n : h[i] = Step(h, i)
    BY <1>4
  <2> DEFINE v == IF s[n + 1] \in Range(removed) THEN h[n] ELSE Append(h[n], s[n + 1])
             g == [i \in 0..N |-> IF i = n + 1 THEN v ELSE h[i]]
  <2>2. n \in 0..N /\ n + 1 \in 1..N /\ h[n] \in Seq(S) /\ s[n + 1] \in S
    BY <1>1
  <2>3. v \in Seq(S)
    BY <2>2, AppendProperties
  <2>4. Step(h, n + 1) = v
    BY <2>2
  <2> HIDE DEF v
  <2>5. g \in [0..N -> Seq(S)] /\ g[n + 1] = v /\ \A i \in 0..n : g[i] = h[i]
    BY <1>1, <2>2, <2>3
  <2> HIDE DEF g
  <2>6. ASSUME NEW i \in 0..(n + 1) PROVE g[i] = Step(g, i)
    <3>1. CASE i \in 0..n
      <4>1. i # 0 => i - 1 \in 0..n
        BY <3>1
      <4> QED
        BY <2>1, <2>5, <3>1, <4>1
    <3>2. CASE i = n + 1
      <4>1. i # 0 /\ i - 1 = n /\ n \in 0..n
        BY <2>2, <3>2
      <4> QED
        BY <2>4, <2>5, <3>2, <4>1
    <3> QED
      BY <3>1, <3>2
  <2> QED
    BY <2>5, <2>6
<1>5. Begins(N)
  <2> DEFINE T == {n \in 0..N : Begins(n)}
  <2> HIDE DEF Begins
  <2>1. 0 \in T /\ \A n \in 0..(N - 1) : n \in T => n + 1 \in T
    BY <1>1, <1>3, <1>4
  <2>2. \A n \in 0..N : n \in T
    <3> HIDE DEF T
    <3> QED
      BY <1>1, <2>1, UpTo
  <2> QED
    BY <1>1, <2>2
<1>6. Solves(kept)
  <2>1. PICK g \in [0..N -> Seq(S)] : \A i \in 0..N : g[i] = Step(g, i)
    BY <1>5
  <2>2. g = [i \in 0..N |-> Step(g, i)]
    <3> HIDE DEF Step
    <3>1. [i \in 0..N |-> Step(g, i)] = [i \in 0..N |-> g[i]]
      BY <2>1
    <3> QED
      BY <3>1
  <2>3. Solves(g)
    BY <2>2
  <2> HIDE DEF Solves
  <2> QED
    BY <2>3
<1> HIDE DEF kept
<1>7. \A i \in 0..N : kept[i] \in Seq(S)
  <2> DEFINE T == {i \in 0..N : kept[i] \in Seq(S)}
  <2>1. 0 \in T
    <3>1. 0 \in 0..N
      BY <1>1
    <3>2. kept[0] = <<>>
      BY <1>6, <3>1
    <3>3. kept[0] \in Seq(S)
      BY <3>2, EmptySeq
    <3> QED
      BY <3>1, <3>3
  <2>2. ASSUME NEW n \in 0..(N - 1), n \in T PROVE n + 1 \in T
    <3>1. n + 1 \in 1..N /\ kept[n] \in Seq(S) /\ s[n + 1] \in S
      BY <1>1, <2>2
    <3>2. kept[n + 1] = IF s[n + 1] \in Range(removed) THEN kept[n]
                        ELSE Append(kept[n], s[n + 1])
      <4>1. kept[n + 1] = Step(kept, n + 1)
        <5>1. n + 1 \in 0..N
          BY <1>1, <3>1
        <5> HIDE DEF Step
        <5> QED
          BY <1>6, <5>1
      <4>2. n + 1 # 0 /\ (n + 1) - 1 = n
        BY <3>1
      <4> QED
        BY <4>1, <4>2
    <3>3. kept[n + 1] \in Seq(S)
      BY <3>1, <3>2, AppendProperties
    <3> QED
      BY <3>1, <3>3
  <2>3. \A n \in 0..N : n \in T
    <3> HIDE DEF T
    <3> QED
      BY <1>1, <2>1, <2>2, UpTo
  <2> QED
    BY <2>3
<1> QED
  BY <1>1, <1>2, <1>7

-----------------------------------------------------------------------------
(* The registry.                                                           *)

\* The inductive invariant: the parameters are those of genesis or have passed
\* the validation.
RInv ==
  /\ votes \in 0..MaxVotes
  /\ params \in Params
  /\ Valid(params)
  /\ CAssetsOfGenesis

\* A message is harmless if it carries parameters of the right types and no
\* cAsset that passes the validation.
LEMMA SaveKeeps ==
  ASSUME RInv, NEW p \in Params, Save(p),
         Valid(p) => NamesOf(p.cAssets) = NamesOf(params.cAssets)
  PROVE  RInv'
<1>1. votes' \in 0..MaxVotes
  BY RegistryAssumption DEF RInv, Save
<1>2. CASE Valid(p)
  <2>1. params' = p
    BY <1>2 DEF Save
  <2>2. Valid(params)'
    BY <1>2, <2>1 DEF Valid, ValidDexDenoms, ValidKCoins, ValidCollateralDenoms, ValidCAssets
  <2> QED
    BY <1>1, <1>2, <2>1, <2>2 DEF RInv, CAssetsOfGenesis
<1>3. CASE ~Valid(p)
  <2>1. params' = params
    BY <1>3 DEF Save
  <2>2. Valid(params)'
    BY <2>1 DEF RInv, Valid, ValidDexDenoms, ValidKCoins, ValidCollateralDenoms, ValidCAssets
  <2> QED
    BY <1>1, <2>1, <2>2 DEF RInv, CAssetsOfGenesis
<1> QED
  BY <1>2, <1>3

\* The lists of the parameters.
LEMMA ParamLists ==
  ASSUME NEW p \in Params
  PROVE  /\ p.dexDenoms \in Seq(DexDenom)
         /\ p.kCoins \in Seq(KCoin)
         /\ p.collateralDenoms \in Seq(CollateralDenom)
         /\ p.cAssets \in Seq(CAsset)
BY DEF Params

\* A message appends a dex denom.
LEMMA WithDexDenomType ==
  ASSUME NEW p \in Params, NEW n \in Listed, NEW v \in Values, NEW w \in Values
  PROVE  /\ WithDexDenom(p, n, v, w) \in Params
         /\ WithDexDenom(p, n, v, w).cAssets = p.cAssets
<1> DEFINE d == [name |-> n, factor |-> v, minLiquidity |-> w]
<1>1. d \in DexDenom
  BY DEF DexDenom
<1>2. Append(p.dexDenoms, d) \in Seq(DexDenom)
  BY <1>1, ParamLists, AppendProperties
<1>3. WithDexDenom(p, n, v, w) = [p EXCEPT !.dexDenoms = Append(p.dexDenoms, d)]
  BY DEF WithDexDenom
<1> HIDE DEF d
<1> QED
  BY <1>2, <1>3 DEF Params

LEMMA AddDEXDenomKeeps ==
  ASSUME RInv, NEW n \in Listed, NEW v \in Values, NEW w \in Values, AddDEXDenom(n, v, w)
  PROVE  RInv'
<1>1. params \in Params
  BY DEF RInv
<1> QED
  BY <1>1, WithDexDenomType, SaveKeeps DEF AddDEXDenom

\* A list in which some entries are replaced.
LEMMA ListChanged ==
  ASSUME NEW S, NEW s \in Seq(S), NEW t, t = [i \in DOMAIN s |-> t[i]],
         \A i \in DOMAIN s : t[i] \in S
  PROVE  t \in Seq(S)
<1>1. Len(s) \in Nat /\ DOMAIN s = 1..Len(s)
  BY LenProperties
<1>2. t \in [1..Len(s) -> S]
  BY <1>1
<1> QED
  BY <1>1, <1>2, SeqDef

\* A list whose entries are known to be of another type.
LEMMA ListTyped ==
  ASSUME NEW S, NEW T, NEW s \in Seq(S), \A i \in DOMAIN s : s[i] \in T
  PROVE  s \in Seq(T)
<1>1. Len(s) \in Nat /\ DOMAIN s = 1..Len(s) /\ s \in [1..Len(s) -> S]
  BY LenProperties
<1>2. s \in [1..Len(s) -> T]
  BY <1>1
<1> QED
  BY <1>1, <1>2, SeqDef

LEMMA UpdateDEXDenomKeeps ==
  ASSUME RInv, NEW n \in Listed, NEW v \in Values, UpdateDEXDenom(n, v)
  PROVE  RInv'
<1> DEFINE s == params.dexDenoms
           t == [i \in DOMAIN s |-> IF s[i].name = n THEN [s[i] EXCEPT !.minLiquidity = v]
                                                     ELSE s[i]]
           p == [params EXCEPT !.dexDenoms = t]
<1>1. params \in Params /\ s \in Seq(DexDenom)
  BY ParamLists DEF RInv
<1>2. Save(p)
  BY DEF UpdateDEXDenom, Changed
<1>3. \A i \in DOMAIN s : t[i] \in DexDenom
  <2>1. \A i \in DOMAIN s : s[i] \in DexDenom
    BY <1>1, LenProperties, ElementOfSeq
  <2> QED
    BY <2>1 DEF DexDenom
<1>4. t \in Seq(DexDenom)
  <2>1. t = [i \in DOMAIN s |-> t[i]]
    OBVIOUS
  <2> HIDE DEF t, s
  <2> QED
    BY <1>1, <1>3, <2>1, ListChanged
<1> HIDE DEF t
<1>5. p \in Params /\ p.cAssets = params.cAssets
  BY <1>1, <1>4 DEF Params
<1> HIDE DEF p
<1> QED
  BY <1>2, <1>5, SaveKeeps

\* Messages that change one list only, and not that of the cAssets.
LEMMA KCoinsKeep ==
  ASSUME RInv, NEW t \in Seq(KCoin), Save([params EXCEPT !.kCoins = t])
  PROVE  RInv'
<1> DEFINE p == [params EXCEPT !.kCoins = t]
<1>1. p \in Params /\ p.cAssets = params.cAssets
  BY DEF RInv, Params
<1>2. Save(p)
  OBVIOUS
<1> HIDE DEF p
<1> QED
  BY <1>1, <1>2, SaveKeeps

LEMMA CollateralDenomsKeep ==
  ASSUME RInv, NEW t \in Seq(CollateralDenom), Save([params EXCEPT !.collateralDenoms = t])
  PROVE  RInv'
<1> DEFINE p == [params EXCEPT !.collateralDenoms = t]
<1>1. p \in Params /\ p.cAssets = params.cAssets
  BY DEF RInv, Params
<1>2. Save(p)
  OBVIOUS
<1> HIDE DEF p
<1> QED
  BY <1>1, <1>2, SaveKeeps

LEMMA AddKCoinKeeps ==
  ASSUME RInv, NEW n \in Listed, NEW s \in ReferenceLists, NEW limits \in LimitChoices,
         NEW v \in Values, NEW w \in Values, AddKCoin(n, s, limits, v, w)
  PROVE  RInv'
<1> DEFINE k == [name |-> n, references |-> s, limits |-> limits]
           t == Append(params.kCoins, k)
           p == [params EXCEPT !.kCoins = t]
<1>1. k \in KCoin
  BY RegistryAssumption DEF KCoin
<1>2. params \in Params /\ params.kCoins \in Seq(KCoin)
  BY ParamLists DEF RInv
<1>3. t \in Seq(KCoin)
  <2> HIDE DEF k
  <2> QED
    BY <1>1, <1>2, AppendProperties
<1>4. Save(WithDexDenom(p, n, v, w))
  BY DEF AddKCoin
<1> HIDE DEF t
<1>5. p \in Params /\ p.cAssets = params.cAssets
  BY <1>2, <1>3 DEF Params
<1> HIDE DEF p
<1>6. /\ WithDexDenom(p, n, v, w) \in Params
      /\ WithDexDenom(p, n, v, w).cAssets = params.cAssets
  BY <1>5, WithDexDenomType
<1> QED
  BY <1>4, <1>6, SaveKeeps

LEMMA UpdateKCoinLimitKeeps ==
  ASSUME RInv, NEW n \in Listed, NEW l \in Limits, NEW v \in Values, UpdateKCoinLimit(n, l, v)
  PROVE  RInv'
<1> DEFINE s == params.kCoins
           t == [i \in DOMAIN s |-> IF s[i].name = n THEN [s[i] EXCEPT !.limits[l] = v]
                                                     ELSE s[i]]
<1>1. s \in Seq(KCoin)
  BY ParamLists DEF RInv
<1>2. Save([params EXCEPT !.kCoins = t])
  BY DEF UpdateKCoinLimit, Changed
<1>3. \A i \in DOMAIN s : t[i] \in KCoin
  <2>1. \A i \in DOMAIN s : s[i] \in KCoin
    BY <1>1, LenProperties, ElementOfSeq
  <2> QED
    BY <2>1 DEF KCoin
<1>4. t = [i \in DOMAIN s |-> t[i]]
  OBVIOUS
<1> HIDE DEF t, s
<1>5. t \in Seq(KCoin)
  BY <1>1, <1>3, <1>4, ListChanged
<1> QED
  BY <1>2, <1>5, KCoinsKeep

LEMMA AddKCoinReferencesKeeps ==
  ASSUME RInv, NEW n \in Listed, NEW r \in ReferenceLists, AddKCoinReferences(n, r)
  PROVE  RInv'
<1> DEFINE s == params.kCoins
           t == [i \in DOMAIN s |->
                   IF s[i].name = n THEN [s[i] EXCEPT !.references = s[i].references \o r]
                                    ELSE s[i]]
<1>1. s \in Seq(KCoin) /\ r \in Seq(Listed)
  BY ParamLists, RegistryAssumption DEF RInv
<1>2. Save([params EXCEPT !.kCoins = t])
  BY DEF AddKCoinReferences, Changed
<1>3. ASSUME NEW i \in DOMAIN s PROVE t[i] \in KCoin
  <2> HIDE DEF s, t
  <2>0. s[i] \in KCoin
    BY <1>1, LenProperties, ElementOfSeq
  <2>1. s[i] \in KCoin /\ s[i].references \in Seq(Listed)
    BY <2>0 DEF KCoin
  <2> USE DEF t
  <2>2. s[i].references \o r \in Seq(Listed)
    BY <1>1, <2>1, ConcatProperties
  <2>3. \A q \in Seq(Listed) : [s[i] EXCEPT !.references = q] \in KCoin
    BY <2>1 DEF KCoin
  <2> QED
    BY <2>1, <2>2, <2>3
<1>4. t = [i \in DOMAIN s |-> t[i]]
  OBVIOUS
<1> HIDE DEF t, s
<1>5. t \in Seq(KCoin)
  BY <1>1, <1>3, <1>4, ListChanged
<1> QED
  BY <1>2, <1>5, KCoinsKeep

LEMMA RemoveKCoinReferencesKeeps ==
  ASSUME RInv, NEW n \in Listed, NEW r \in ReferenceLists, RemoveKCoinReferences(n, r)
  PROVE  RInv'
<1> DEFINE s == params.kCoins
           t == [i \in DOMAIN s |->
                   IF s[i].name = n
                     THEN [s[i] EXCEPT !.references = Filtered(s[i].references, r)]
                     ELSE s[i]]
<1>1. s \in Seq(KCoin)
  BY ParamLists DEF RInv
<1>2. Save([params EXCEPT !.kCoins = t])
  BY DEF RemoveKCoinReferences, Changed
<1>3. ASSUME NEW i \in DOMAIN s PROVE t[i] \in KCoin
  <2> HIDE DEF s, t
  <2>0. s[i] \in KCoin
    BY <1>1, LenProperties, ElementOfSeq
  <2>1. s[i] \in KCoin /\ s[i].references \in Seq(Listed)
    BY <2>0 DEF KCoin
  <2> USE DEF t
  <2>2. Filtered(s[i].references, r) \in Seq(Listed)
    BY <2>1, FilteredIsList
  <2>3. \A q \in Seq(Listed) : [s[i] EXCEPT !.references = q] \in KCoin
    BY <2>1 DEF KCoin
  <2> QED
    BY <2>1, <2>2, <2>3
<1>4. t = [i \in DOMAIN s |-> t[i]]
  OBVIOUS
<1> HIDE DEF t, s
<1>5. t \in Seq(KCoin)
  BY <1>1, <1>3, <1>4, ListChanged
<1> QED
  BY <1>2, <1>5, KCoinsKeep

LEMMA AddCollateralDenomKeeps ==
  ASSUME RInv, NEW n \in Listed, NEW v \in Values, NEW w \in Values,
         AddCollateralDenom(n, v, w)
  PROVE  RInv'
<1> DEFINE c == [name |-> n, ltv |-> v, maxDeposit |-> w]
<1>1. c \in CollateralDenom /\ params.collateralDenoms \in Seq(CollateralDenom)
  BY ParamLists DEF RInv, CollateralDenom
<1>2. Save([params EXCEPT !.collateralDenoms = Append(params.collateralDenoms, c)])
  BY DEF AddCollateralDenom
<1> HIDE DEF c
<1>3. Append(params.collateralDenoms, c) \in Seq(CollateralDenom)
  BY <1>1, AppendProperties
<1> QED
  BY <1>2, <1>3, CollateralDenomsKeep

LEMMA UpdateCollateralDenomKeeps ==
  ASSUME RInv, NEW n \in Listed, NEW f \in {"ltv", "maxDeposit"}, NEW v \in Values,
         UpdateCollateralDenom(n, f, v)
  PROVE  RInv'
<1> DEFINE s == params.collateralDenoms
           t == [i \in DOMAIN s |-> IF s[i].name = n THEN [s[i] EXCEPT ![f] = v] ELSE s[i]]
<1>1. s \in Seq(CollateralDenom)
  BY ParamLists DEF RInv
<1>2. Save([params EXCEPT !.collateralDenoms = t])
  BY DEF UpdateCollateralDenom, Changed
<1>3. \A i \in DOMAIN s : t[i] \in CollateralDenom
  <2>1. \A i \in DOMAIN s : s[i] \in CollateralDenom
    BY <1>1, LenProperties, ElementOfSeq
  <2> QED
    BY <2>1 DEF CollateralDenom
<1>4. t = [i \in DOMAIN s |-> t[i]]
  OBVIOUS
<1> HIDE DEF t, s
<1>5. t \in Seq(CollateralDenom)
  BY <1>1, <1>3, <1>4, ListChanged
<1> QED
  BY <1>2, <1>5, CollateralDenomsKeep

\* A cAsset without a minimum loan size fails the validation, and the whole
\* message with it.
LEMMA AddCAssetKeeps ==
  ASSUME RInv, NEW n \in Listed, NEW b \in Listed, NEW v \in Values, AddCAsset(n, b, v)
  PROVE  RInv'
<1> DEFINE c == [name |-> n, baseDenom |-> b, dexFeeShare |-> v, borrowLimit |-> v,
                 minimumLoanSize |-> Nil]
           t == Append(params.cAssets, c)
           p == [params EXCEPT !.cAssets = t]
           q == WithDexDenom(p, n, v, v)
<1>1. c \in CAsset /\ c.minimumLoanSize = Nil
  BY DEF CAsset
<1>2. params \in Params /\ params.cAssets \in Seq(CAsset)
  BY ParamLists DEF RInv
<1>3. Save(q)
  BY DEF AddCAsset
<1> HIDE DEF c
<1>4. t \in Seq(CAsset) /\ Len(t) \in DOMAIN t /\ t[Len(t)] = c
  BY <1>1, <1>2, AppendProperties, LenProperties
<1> HIDE DEF t
<1>5. p \in Params /\ p.cAssets = t
  BY <1>2, <1>4 DEF Params
<1> HIDE DEF p
<1>6. q \in Params /\ q.cAssets = t
  BY <1>5, WithDexDenomType
<1> HIDE DEF q
<1>7. ~Valid(q)
  BY <1>1, <1>4, <1>6 DEF Valid, ValidCAssets, ValidCAsset
<1> QED
  BY <1>3, <1>6, <1>7, SaveKeeps

LEMMA UpdateCAssetKeeps ==
  ASSUME RInv, NEW n \in Listed, NEW v \in Values,
         NEW f \in {"dexFeeShare", "borrowLimit", "minimumLoanSize"}, UpdateCAsset(n, f, v)
  PROVE  RInv'
<1> DEFINE s == params.cAssets
           t == [i \in DOMAIN s |-> IF s[i].name = n THEN [s[i] EXCEPT ![f] = v] ELSE s[i]]
           p == [params EXCEPT !.cAssets = t]
<1>1. params \in Params /\ s \in Seq(CAsset)
  BY ParamLists DEF RInv
<1>2. Save(p)
  BY DEF UpdateCAsset, Changed
<1>3. \A i \in DOMAIN s : t[i] \in CAsset /\ t[i].name = s[i].name
  <2>1. \A i \in DOMAIN s : s[i] \in CAsset
    BY <1>1, LenProperties, ElementOfSeq
  <2> QED
    BY <2>1 DEF CAsset
<1>4. t = [i \in DOMAIN s |-> t[i]]
  OBVIOUS
<1>5. DOMAIN t = DOMAIN s
  OBVIOUS
<1> HIDE DEF t
<1>6. t \in Seq(CAsset)
  <2> HIDE DEF s
  <2> QED
    BY <1>1, <1>3, <1>4, ListChanged
<1>7. p \in Params /\ p.cAssets = t
  BY <1>1, <1>6 DEF Params
<1>8. NamesOf(t) = NamesOf(params.cAssets)
  BY <1>3, <1>5 DEF NamesOf
<1> HIDE DEF p
<1> QED
  BY <1>2, <1>7, <1>8, SaveKeeps

\* Every state has parameters that are valid, with the cAssets of genesis.
LEMMA RegistryInvariant == RegistrySpec => []RInv
<1>1. RegistryInit => RInv
  <2> SUFFICES ASSUME RegistryInit PROVE RInv
    OBVIOUS
  <2>1. params = GenesisParams /\ votes = 0
    BY DEF RegistryInit
  <2> QED
    BY <2>1, RegistryAssumption DEF RInv, CAssetsOfGenesis
<1>2. RInv /\ [RegistryNext]_registry => RInv'
  <2> SUFFICES ASSUME RInv, [RegistryNext]_registry PROVE RInv'
    OBVIOUS
  <2>1. CASE UNCHANGED registry
    <3>1. params' = params /\ votes' = votes
      BY <2>1 DEF registry
    <3>2. Valid(params)'
      BY <3>1 DEF RInv, Valid, ValidDexDenoms, ValidKCoins, ValidCollateralDenoms, ValidCAssets
    <3> QED
      BY <3>1, <3>2 DEF RInv, CAssetsOfGenesis
  <2>2. ASSUME NEW n \in Listed, NEW v \in Values, NEW w \in Values,
               AddDEXDenom(n, v, w) \/ AddCollateralDenom(n, v, w)
        PROVE  RInv'
    BY <2>2, AddDEXDenomKeeps, AddCollateralDenomKeeps
  <2>3. ASSUME NEW n \in Listed, NEW v \in Values, UpdateDEXDenom(n, v)
        PROVE  RInv'
    BY <2>3, UpdateDEXDenomKeeps
  <2>4. ASSUME NEW n \in Listed, NEW v \in Values, NEW l \in Limits, UpdateKCoinLimit(n, l, v)
        PROVE  RInv'
    BY <2>4, UpdateKCoinLimitKeeps
  <2>5. ASSUME NEW n \in Listed, NEW v \in Values, NEW s \in ReferenceLists,
               \/ AddKCoinReferences(n, s)
               \/ RemoveKCoinReferences(n, s)
               \/ \E limits \in LimitChoices, w \in Values : AddKCoin(n, s, limits, v, w)
        PROVE  RInv'
    BY <2>5, AddKCoinKeeps, AddKCoinReferencesKeeps, RemoveKCoinReferencesKeeps
  <2>6. ASSUME NEW n \in Listed, NEW v \in Values, NEW b \in Listed, AddCAsset(n, b, v)
        PROVE  RInv'
    BY <2>6, AddCAssetKeeps
  <2>7. ASSUME NEW n \in Listed, NEW v \in Values,
               NEW f \in {"dexFeeShare", "borrowLimit", "minimumLoanSize"},
               UpdateCAsset(n, f, v)
        PROVE  RInv'
    BY <2>7, UpdateCAssetKeeps
  <2>8. ASSUME NEW n \in Listed, NEW v \in Values, NEW f \in {"ltv", "maxDeposit"},
               UpdateCollateralDenom(n, f, v)
        PROVE  RInv'
    BY <2>8, UpdateCollateralDenomKeeps
  <2> QED
    BY <2>1, <2>2, <2>3, <2>4, <2>5, <2>6, <2>7, <2>8 DEF RegistryNext
<1> QED
  BY <1>1, <1>2, PTL DEF RegistrySpec

\* Entries that pass the validation.
KCoinOK == [name: Listed, references: Seq(Listed), limits: [Limits -> Values \cap Nat]]
CollateralOK == [name: Listed, ltv: 0..1, maxDeposit: Values \cap Nat]
CAssetOK == [name: Listed, baseDenom: Listed, dexFeeShare: 0..1, borrowLimit: Int,
             minimumLoanSize: Nat]

LEMMA KCoinRange ==
  ASSUME NEW e \in KCoin, \A l \in Limits : e.limits[l] >= 0
  PROVE  e \in KCoinOK
<1>1. Values \subseteq Int
  BY RegistryAssumption
<1>2. e.limits \in [Limits -> Values \cap Nat]
  <2>1. e.limits \in [Limits -> Values]
    BY DEF KCoin
  <2>2. \A l \in Limits : e.limits[l] \in Values
    BY <2>1
  <2>3. \A l \in Limits : e.limits[l] \in Int
    BY <1>1, <2>2
  <2>4. \A l \in Limits : e.limits[l] \in Values \cap Nat
    BY <2>2, <2>3
  <2> QED
    BY <2>1, <2>4
<1> QED
  BY <1>2 DEF KCoin, KCoinOK

LEMMA CollateralRange ==
  ASSUME NEW e \in CollateralDenom, e.ltv \in 0..1, e.maxDeposit >= 0
  PROVE  e \in CollateralOK
<1>1. Values \subseteq Int
  BY RegistryAssumption
<1>2. e.maxDeposit \in Values \cap Nat
  <2>1. e.maxDeposit \in Values
    BY DEF CollateralDenom
  <2>2. e.maxDeposit \in Int
    BY <1>1, <2>1
  <2> QED
    BY <2>1, <2>2
<1> QED
  BY <1>2 DEF CollateralDenom, CollateralOK

LEMMA CAssetRange ==
  ASSUME NEW e \in CAsset, e.dexFeeShare \in 0..1,
         e.minimumLoanSize # Nil, e.minimumLoanSize >= 0
  PROVE  e \in CAssetOK
<1>1. Values \subseteq Int
  BY RegistryAssumption
<1>2. e.borrowLimit \in Int /\ e.minimumLoanSize \in Nat
  <2>1. e.borrowLimit \in Values /\ e.minimumLoanSize \in Values
    BY DEF CAsset
  <2>2. e.borrowLimit \in Int /\ e.minimumLoanSize \in Int
    BY <1>1, <2>1
  <2> QED
    BY <2>2
<1> QED
  BY <1>2 DEF CAsset, CAssetOK

\* Every list of valid parameters holds entries of the ranges that the users of
\* the parameters rely on.
LEMMA ValidRanges == RInv => RegistryTypeOK
<1> SUFFICES ASSUME RInv PROVE RegistryTypeOK
  OBVIOUS
<1>1. /\ params.dexDenoms \in Seq(DexDenom)
      /\ params.kCoins \in Seq(KCoin)
      /\ params.collateralDenoms \in Seq(CollateralDenom)
      /\ params.cAssets \in Seq(CAsset)
  BY ParamLists DEF RInv
<1>2. params.kCoins \in Seq(KCoinOK)
  <2> DEFINE s == params.kCoins
  <2>1. \A i \in DOMAIN s : \A l \in Limits : s[i].limits[l] >= 0
    BY DEF RInv, Valid, ValidKCoins, ValidKCoin
  <2> HIDE DEF s
  <2>2. \A i \in DOMAIN s : s[i] \in KCoin
    BY <1>1, LenProperties, ElementOfSeq DEF s
  <2>3. \A i \in DOMAIN s : s[i] \in KCoinOK
    BY <2>1, <2>2, KCoinRange
  <2>4. s \in Seq(KCoinOK)
    BY <1>1, <2>3, ListTyped DEF s
  <2> QED
    BY <2>4 DEF s
<1>3. params.collateralDenoms \in Seq(CollateralOK)
  <2> DEFINE s == params.collateralDenoms
  <2>1. \A i \in DOMAIN s : s[i].ltv \in 0..1 /\ s[i].maxDeposit >= 0
    BY DEF RInv, Valid, ValidCollateralDenoms, ValidCollateral
  <2> HIDE DEF s
  <2>2. \A i \in DOMAIN s : s[i] \in CollateralDenom
    BY <1>1, LenProperties, ElementOfSeq DEF s
  <2>3. \A i \in DOMAIN s : s[i] \in CollateralOK
    BY <2>1, <2>2, CollateralRange
  <2>4. s \in Seq(CollateralOK)
    BY <1>1, <2>3, ListTyped DEF s
  <2> QED
    BY <2>4 DEF s
<1>4. params.cAssets \in Seq(CAssetOK)
  <2> DEFINE s == params.cAssets
  <2>1. \A i \in DOMAIN s : /\ s[i].dexFeeShare \in 0..1
                            /\ s[i].minimumLoanSize # Nil /\ s[i].minimumLoanSize >= 0
    BY DEF RInv, Valid, ValidCAssets, ValidCAsset
  <2> HIDE DEF s
  <2>2. \A i \in DOMAIN s : s[i] \in CAsset
    BY <1>1, LenProperties, ElementOfSeq DEF s
  <2>3. \A i \in DOMAIN s : s[i] \in CAssetOK
    BY <2>1, <2>2, CAssetRange
  <2>4. s \in Seq(CAssetOK)
    BY <1>1, <2>3, ListTyped DEF s
  <2> QED
    BY <2>4 DEF s
<1> QED
  BY <1>1, <1>2, <1>3, <1>4 DEF RInv, RegistryTypeOK, KCoinOK, CollateralOK, CAssetOK

\* Whatever governance decides, the numbers stay in range.
THEOREM RegistryTypeCorrect == RegistrySpec => []RegistryTypeOK
BY RegistryInvariant, ValidRanges, PTL

\* After any messages a lookup by name finds a dex denom: no message removes one,
\* and Validate rejects names that are not there.
THEOREM RegistryLookups == RegistrySpec => []LookupsDefined
<1>1. RInv => LookupsDefined
  <2> SUFFICES ASSUME RInv PROVE LookupsDefined
    OBVIOUS
  <2> DEFINE known == Names(params.dexDenoms)
  <2>1. \A i \in DOMAIN params.kCoins :
          /\ params.kCoins[i].name \in known
          /\ params.kCoins[i].references # <<>>
          /\ Range(params.kCoins[i].references) \subseteq known
    BY DEF RInv, Valid, ValidKCoins, ValidKCoin
  <2>2. \A i \in DOMAIN params.collateralDenoms : params.collateralDenoms[i].name \in known
    BY DEF RInv, Valid, ValidCollateralDenoms, ValidCollateral
  <2>3. \A i \in DOMAIN params.cAssets :
          params.cAssets[i].name \in known /\ params.cAssets[i].baseDenom \in known
    BY DEF RInv, Valid, ValidCAssets, ValidCAsset
  <2> HIDE DEF known
  <2>4. /\ Names(params.kCoins) \subseteq known
        /\ Names(params.collateralDenoms) \subseteq known
        /\ Names(params.cAssets) \subseteq known
    BY <2>1, <2>2, <2>3 DEF Names
  <2> QED
    BY <2>1, <2>3, <2>4 DEF LookupsDefined, known
<1> QED
  BY <1>1, RegistryInvariant, PTL

\* The names of kCoins and references are all in seen, each at a place of its own,
\* so no kCoin is held to a kCoin, and no reference serves two.
THEOREM RegistryReferences == RegistrySpec => []ReferencesApart
<1>1. RInv => ReferencesApart
  <2> SUFFICES ASSUME RInv PROVE ReferencesApart
    OBVIOUS
  <2> DEFINE s == params.kCoins
             seen == SeenOfKCoins(s)
  <2>1. AllDistinct(seen)
    BY DEF RInv, Valid, ValidKCoins
  <2>2. ASSUME NEW i \in DOMAIN s
        PROVE  <<i, 0>> \in DOMAIN seen /\ seen[<<i, 0>>] = s[i].name
    <3>1. s[i].references \in Seq(Listed)
      <4>1. s \in Seq(KCoin)
        BY ParamLists DEF RInv
      <4> HIDE DEF s
      <4>2. s[i] \in KCoin
        BY <4>1, LenProperties, ElementOfSeq
      <4> QED
        BY <4>2 DEF KCoin
    <3>2. 0 \in 0..Len(s[i].references)
      BY <3>1, LenProperties
    <3> QED
      BY <3>2 DEF SeenOfKCoins
  <2>3. ASSUME NEW i \in DOMAIN s, NEW x \in Range(s[i].references)
        PROVE  \E n : n # 0 /\ <<i, n>> \in DOMAIN seen /\ seen[<<i, n>>] = x
    <3>1. s[i].references \in Seq(Listed)
      <4>1. s \in Seq(KCoin)
        BY ParamLists DEF RInv
      <4> HIDE DEF s
      <4>2. s[i] \in KCoin
        BY <4>1, LenProperties, ElementOfSeq
      <4> QED
        BY <4>2 DEF KCoin
    <3>2. PICK n \in 1..Len(s[i].references) : s[i].references[n] = x
      BY <3>1, LenProperties DEF Range
    <3>3. n \in 0..Len(s[i].references) /\ n # 0
      BY <3>1, <3>2, LenProperties
    <3>4. <<i, n>> \in DOMAIN seen /\ seen[<<i, n>>] = x
      BY <3>2, <3>3 DEF SeenOfKCoins
    <3> QED
      BY <3>3, <3>4
  <2> HIDE DEF seen
  <2>4. ASSUME NEW i \in DOMAIN s, NEW j \in DOMAIN s,
               s[i].name \in Range(s[j].references)
        PROVE  FALSE
    <3>1. PICK n : n # 0 /\ <<j, n>> \in DOMAIN seen /\ seen[<<j, n>>] = s[i].name
      BY <2>3, <2>4
    <3>2. <<i, 0>> = <<j, n>>
      BY <2>1, <2>2, <3>1 DEF AllDistinct
    <3> QED
      BY <3>1, <3>2
  <2>5. ASSUME NEW i \in DOMAIN s, NEW j \in DOMAIN s, i # j,
               NEW x \in Range(s[i].references), x \in Range(s[j].references)
        PROVE  FALSE
    <3>1. PICK m : <<i, m>> \in DOMAIN seen /\ seen[<<i, m>>] = x
      BY <2>3
    <3>2. PICK n : <<j, n>> \in DOMAIN seen /\ seen[<<j, n>>] = x
      BY <2>3, <2>5
    <3>3. <<i, m>> = <<j, n>>
      BY <2>1, <3>1, <3>2 DEF AllDistinct
    <3> QED
      BY <2>5, <3>3
  <2> QED
    BY <2>4, <2>5 DEF ReferencesApart
<1> QED
  BY <1>1, RegistryInvariant, PTL

\* AddCAsset never takes effect.
THEOREM RegistryCAssets == RegistrySpec => []CAssetsOfGenesis
<1>1. RInv => CAssetsOfGenesis
  BY DEF RInv
<1> QED
  BY <1>1, RegistryInvariant, PTL

-----------------------------------------------------------------------------
(* The token factory.                                                      *)

\* The inductive invariant.
FInv == FactoryTypeOK /\ SupplyHeld /\ NativeSupply

\* toFullName gives a denom of the factory, which is not Kopi.
LEMMA NameApart ==
  ASSUME NEW n \in Nicknames
  PROVE  FullName(n) \in FactoryDenoms /\ FullName(n) \in Coins /\ FullName(n) # Kopi
BY FactoryAssumption DEF FullName, FactoryDenoms, Coins

\* One balance of a coin is set.
LEMMA BalanceSet ==
  ASSUME NEW w \in [Coins -> [Users -> Nat]], NEW x \in [Coins -> [Users -> Nat]],
         NEW c \in Coins, NEW u \in Users,
         \A t \in Users : t # u => x[c][t] = w[c][t]
  PROVE  SumOf(x[c]) = SumOf(w[c]) - w[c][u] + x[c][u]
<1> DEFINE v == w[c]
           y == x[c]
<1>1. v \in [Users -> Nat] /\ y \in [Users -> Nat] /\ IsFiniteSet(Users)
  BY FactoryAssumption
<1>2. \A t \in Users : t # u => y[t] = v[t]
  OBVIOUS
<1> HIDE DEF v, y
<1>3. SumOf(y) = SumOf(v) - v[u] + y[u]
  BY <1>1, <1>2, SumChanged
<1> QED
  BY <1>3 DEF v, y

\* What a balance gains or loses, the supply gains or loses: the account of the
\* module is empty again.
LEMMA BookedTwice ==
  ASSUME FactoryTypeOK, SupplyHeld,
         NEW c \in Coins, NEW u \in Users, NEW a \in Int, wallet[c][u] + a >= 0,
         wallet' = [wallet EXCEPT ![c][u] = wallet[c][u] + a],
         supply' = [supply EXCEPT ![c] = supply[c] + a]
  PROVE  /\ wallet' \in [Coins -> [Users -> Nat]]
         /\ supply' \in [Coins -> Nat]
         /\ SupplyHeld'
<1>1. /\ wallet \in [Coins -> [Users -> Nat]] /\ wallet[c] \in [Users -> Nat]
      /\ wallet[c][u] \in Nat /\ wallet[c][u] + a \in Nat
      /\ supply \in [Coins -> Nat] /\ supply[c] \in Nat
      /\ supply[c] = SumOf(wallet[c])
  BY DEF FactoryTypeOK, SupplyHeld
<1>2. /\ wallet' \in [Coins -> [Users -> Nat]]
      /\ \A d \in Coins : d # c => wallet'[d] = wallet[d]
      /\ SumOf(wallet'[c]) = SumOf(wallet[c]) - wallet[c][u] + (wallet[c][u] + a)
  <2>1. /\ wallet' \in [Coins -> [Users -> Nat]]
        /\ \A d \in Coins : d # c => wallet'[d] = wallet[d]
        /\ \A t \in Users : t # u => wallet'[c][t] = wallet[c][t]
        /\ wallet'[c][u] = wallet[c][u] + a
    BY <1>1
  <2>2. SumOf(wallet'[c]) = SumOf(wallet[c]) - wallet[c][u] + wallet'[c][u]
    <3> DEFINE x == wallet'
    <3>1. x \in [Coins -> [Users -> Nat]] /\ \A t \in Users : t # u => x[c][t] = wallet[c][t]
      BY <2>1
    <3> HIDE DEF x
    <3>2. SumOf(x[c]) = SumOf(wallet[c]) - wallet[c][u] + x[c][u]
      BY <1>1, <3>1, BalanceSet
    <3> QED
      BY <3>2 DEF x
  <2> QED
    BY <2>1, <2>2
<1>3. wallet[c][u] <= SumOf(wallet[c])
  BY <1>1, SumBounds, FactoryAssumption
<1>4. supply[c] + a \in Nat /\ SumOf(wallet'[c]) = supply[c] + a
  BY <1>1, <1>2, <1>3
<1>5. /\ supply' \in [Coins -> Nat]
      /\ supply'[c] = supply[c] + a
      /\ \A d \in Coins : d # c => supply'[d] = supply[d]
  BY <1>1, <1>4
<1>6. SupplyHeld'
  BY <1>2, <1>4, <1>5 DEF SupplyHeld
<1> QED
  BY <1>2, <1>5, <1>6

\* A message counts, and its sender is a user.
LEMMA SignedType ==
  ASSUME FactoryTypeOK, NEW u \in Users, Signed(u)
  PROVE  messages' \in 0..MaxMessages /\ signer' \in Users
BY FactoryAssumption DEF FactoryTypeOK, Signed

-----------------------------------------------------------------------------
(* The messages.                                                           *)

LEMMA CreateKeeps ==
  ASSUME FInv, NEW u \in Users, NEW n \in Nicknames, CreateDenom(u, n)
  PROVE  FInv'
<1>1. fee \in Nat /\ Kopi \in Coins /\ burned \in Nat
  <2>1. fee \in Fees \cup {0} /\ burned \in Nat
    BY DEF FInv, FactoryTypeOK
  <2>2. fee >= 0
    BY DEF CreateDenom
  <2>3. fee \in Int
    BY <2>1, FactoryAssumption
  <2>4. Kopi \in Coins
    BY DEF Coins
  <2> QED
    BY <2>1, <2>2, <2>3, <2>4
<1>2. /\ wallet[Kopi][u] \in Nat /\ supply[Kopi] \in Nat
      /\ wallet[Kopi][u] >= fee
      /\ wallet' = [wallet EXCEPT ![Kopi][u] = wallet[Kopi][u] + (0 - fee)]
      /\ supply' = [supply EXCEPT ![Kopi] = supply[Kopi] + (0 - fee)]
      /\ burned' = burned + fee
      /\ fee' = fee
  <2>1. wallet[Kopi][u] \in Nat /\ supply[Kopi] \in Nat
    BY <1>1 DEF FInv, FactoryTypeOK
  <2>2. /\ wallet[Kopi][u] - fee = wallet[Kopi][u] + (0 - fee)
        /\ supply[Kopi] - fee = supply[Kopi] + (0 - fee)
    BY <1>1, <2>1
  <2>3. /\ wallet[Kopi][u] >= fee
        /\ wallet' = [wallet EXCEPT ![Kopi][u] = wallet[Kopi][u] - fee]
        /\ supply' = [supply EXCEPT ![Kopi] = supply[Kopi] - fee]
        /\ burned' = burned + fee
        /\ fee' = fee
    BY DEF CreateDenom, ProcessCreationFee
  <2> QED
    BY <2>1, <2>2, <2>3
<1>3. /\ wallet' \in [Coins -> [Users -> Nat]]
      /\ supply' \in [Coins -> Nat]
      /\ SupplyHeld'
  <2>1. wallet[Kopi][u] + (0 - fee) >= 0 /\ 0 - fee \in Int
    BY <1>1, <1>2
  <2> QED
    BY <1>1, <1>2, <2>1, BookedTwice DEF FInv
<1>4. DOMAIN admin' \subseteq FactoryDenoms /\ \A d \in DOMAIN admin' : admin'[d] \in Users
  BY NameApart DEF CreateDenom, With, FInv, FactoryTypeOK
<1>5. FactoryTypeOK'
  BY <1>1, <1>2, <1>3, <1>4, SignedType DEF FInv, FactoryTypeOK, CreateDenom
<1>6. NativeSupply'
  <2>1. supply'[Kopi] = supply[Kopi] + (0 - fee)
    BY <1>1, <1>2 DEF FInv, FactoryTypeOK
  <2> QED
    BY <1>1, <1>2, <2>1 DEF FInv, NativeSupply
<1> QED
  BY <1>3, <1>5, <1>6 DEF FInv

\* MintDenom and BurnDenom: the supply of Kopi is that of another coin.
LEMMA FactoryCoinKeeps ==
  ASSUME FInv, NEW u \in Users, Signed(u), NEW n \in Nicknames, NEW t \in Users,
         NEW a \in Int, wallet[FullName(n)][t] + a >= 0,
         wallet' = [wallet EXCEPT ![FullName(n)][t] = wallet[FullName(n)][t] + a],
         supply' = [supply EXCEPT ![FullName(n)] = supply[FullName(n)] + a],
         UNCHANGED <<admin, fee, burned>>
  PROVE  FInv'
<1>1. FullName(n) \in Coins /\ FullName(n) # Kopi /\ Kopi \in Coins
  BY NameApart DEF Coins
<1>2. /\ wallet' \in [Coins -> [Users -> Nat]]
      /\ supply' \in [Coins -> Nat]
      /\ SupplyHeld'
  BY <1>1, BookedTwice DEF FInv
<1>3. supply'[Kopi] = supply[Kopi]
  BY <1>1 DEF FInv, FactoryTypeOK
<1>4. FactoryTypeOK'
  BY <1>2, SignedType DEF FInv, FactoryTypeOK
<1> QED
  BY <1>2, <1>3, <1>4 DEF FInv, NativeSupply

LEMMA BurnKeeps ==
  ASSUME FInv, NEW u \in Users, NEW n \in Nicknames, NEW t \in Users,
         NEW a \in CoinAmounts, BurnDenom(u, n, t, a)
  PROVE  FInv'
<1> DEFINE c == FullName(n)
<1>1. c \in Coins /\ a \in Int
  BY NameApart, FactoryAssumption
<1>2. wallet[c][t] \in Nat /\ supply[c] \in Nat
  BY <1>1 DEF FInv, FactoryTypeOK
<1>3. /\ wallet[c][t] >= a
      /\ wallet' = [wallet EXCEPT ![c][t] = wallet[c][t] - a]
      /\ supply' = [supply EXCEPT ![c] = supply[c] - a]
      /\ UNCHANGED <<admin, fee, burned>>
      /\ Signed(u)
  BY DEF BurnDenom, Covered
<1>4. /\ wallet[c][t] - a = wallet[c][t] + (0 - a) /\ supply[c] - a = supply[c] + (0 - a)
      /\ 0 - a \in Int /\ wallet[c][t] + (0 - a) >= 0
  BY <1>1, <1>2, <1>3
<1>5. /\ wallet' = [wallet EXCEPT ![c][t] = wallet[c][t] + (0 - a)]
      /\ supply' = [supply EXCEPT ![c] = supply[c] + (0 - a)]
  BY <1>3, <1>4
<1> QED
  BY <1>3, <1>4, <1>5, FactoryCoinKeeps

LEMMA MintKeeps ==
  ASSUME FInv, NEW u \in Users, NEW n \in Nicknames, NEW t \in Users,
         NEW a \in CoinAmounts, MintDenom(u, n, t, a)
  PROVE  FInv'
<1>1. /\ FullName(n) \in Coins /\ a \in Int /\ a > 0
      /\ wallet' = [wallet EXCEPT ![FullName(n)][t] = wallet[FullName(n)][t] + a]
      /\ supply' = [supply EXCEPT ![FullName(n)] = supply[FullName(n)] + a]
      /\ UNCHANGED <<admin, fee, burned>>
      /\ Signed(u)
  BY NameApart, FactoryAssumption DEF MintDenom
<1>2. wallet[FullName(n)][t] \in Nat
  BY <1>1 DEF FInv, FactoryTypeOK
<1>3. wallet[FullName(n)][t] + a >= 0
  BY <1>1, <1>2
<1> QED
  BY <1>1, <1>3, FactoryCoinKeeps

\* What a transfer makes of the balances.
LEMMA SendBalances ==
  ASSUME FactoryTypeOK, NEW u \in Users, NEW t \in Users, NEW c \in Coins,
         NEW a \in CoinAmounts, Send(u, t, c, a)
  PROVE  /\ wallet' \in [Coins -> [Users -> Nat]]
         /\ \A d \in Coins : d # c => wallet'[d] = wallet[d]
         /\ \A v \in Users : wallet'[c][v] < wallet[c][v] => v = u
         /\ SumOf(wallet'[c]) = SumOf(wallet[c])
<1> DEFINE half == [wallet EXCEPT ![c][u] = wallet[c][u] - a]
<1>1. /\ wallet \in [Coins -> [Users -> Nat]]
      /\ a \in Nat /\ a > 0 /\ u # t
      /\ wallet[c][u] \in Nat /\ wallet[c][u] - a \in Nat
  BY FactoryAssumption DEF FactoryTypeOK, Send, Covered
<1>2. /\ half \in [Coins -> [Users -> Nat]]
      /\ \A d \in Coins : d # c => half[d] = wallet[d]
      /\ \A v \in Users : half[c][v] = IF v = u THEN wallet[c][u] - a ELSE wallet[c][v]
      /\ SumOf(half[c]) = SumOf(wallet[c]) - wallet[c][u] + (wallet[c][u] - a)
  <2>1. /\ half \in [Coins -> [Users -> Nat]]
        /\ \A d \in Coins : d # c => half[d] = wallet[d]
        /\ \A v \in Users : half[c][v] = IF v = u THEN wallet[c][u] - a ELSE wallet[c][v]
    BY <1>1
  <2> HIDE DEF half
  <2>2. SumOf(half[c]) = SumOf(wallet[c]) - wallet[c][u] + half[c][u]
    BY <1>1, <2>1, BalanceSet
  <2> QED
    BY <2>1, <2>2
<1>3. wallet' = [half EXCEPT ![c][t] = half[c][t] + a]
  BY DEF Send
<1> HIDE DEF half
<1>4. half[c][t] \in Nat /\ half[c][t] + a \in Nat
  BY <1>1, <1>2
<1>5. /\ wallet' \in [Coins -> [Users -> Nat]]
      /\ \A d \in Coins : d # c => wallet'[d] = half[d]
      /\ \A v \in Users : wallet'[c][v] = IF v = t THEN half[c][t] + a ELSE half[c][v]
      /\ SumOf(wallet'[c]) = SumOf(half[c]) - half[c][t] + (half[c][t] + a)
  <2>1. /\ wallet' \in [Coins -> [Users -> Nat]]
        /\ \A d \in Coins : d # c => wallet'[d] = half[d]
        /\ \A v \in Users : wallet'[c][v] = IF v = t THEN half[c][t] + a ELSE half[c][v]
    BY <1>2, <1>3, <1>4
  <2>2. SumOf(wallet'[c]) = SumOf(half[c]) - half[c][t] + wallet'[c][t]
    BY <1>2, <2>1, BalanceSet
  <2> QED
    BY <2>1, <2>2
<1>6. SumOf(wallet[c]) \in Nat
  BY <1>1, SumType, FactoryAssumption
<1>7. SumOf(wallet'[c]) = SumOf(wallet[c])
  BY <1>1, <1>2, <1>4, <1>5, <1>6
<1>8. ASSUME NEW v \in Users, wallet'[c][v] < wallet[c][v]
      PROVE  v = u
  <2>1. wallet[c][v] \in Nat
    BY <1>1
  <2> QED
    BY <1>1, <1>2, <1>5, <1>8, <2>1
<1> QED
  BY <1>2, <1>5, <1>7, <1>8

LEMMA SendKeeps ==
  ASSUME FInv, NEW u \in Users, NEW t \in Users, NEW c \in Coins,
         NEW a \in CoinAmounts, Send(u, t, c, a)
  PROVE  FInv'
<1>1. /\ wallet' \in [Coins -> [Users -> Nat]]
      /\ \A d \in Coins : d # c => wallet'[d] = wallet[d]
      /\ SumOf(wallet'[c]) = SumOf(wallet[c])
  BY SendBalances DEF FInv
<1>2. Signed(u) /\ UNCHANGED <<admin, supply, fee, burned>>
  BY DEF Send
<1>3. FactoryTypeOK'
  BY <1>1, <1>2, SignedType DEF FInv, FactoryTypeOK
<1>4. \A d \in Coins : SumOf(wallet'[d]) = SumOf(wallet[d])
  BY <1>1
<1>5. SupplyHeld'
  BY <1>2, <1>4 DEF FInv, SupplyHeld
<1> QED
  BY <1>2, <1>3, <1>5 DEF FInv, NativeSupply

\* FInv is an inductive invariant.
LEMMA FactoryInvariant == FactorySpec => []FInv
<1>1. FactoryInit => FInv
  <2> SUFFICES ASSUME FactoryInit PROVE FInv
    OBVIOUS
  <2>1. Cardinality(Users) \in Nat /\ Kopi \in Coins
    BY FactoryAssumption, FS_CardinalityType DEF Coins
  <2>2. Funds * Cardinality(Users) \in Nat
    BY <2>1, FactoryAssumption
  <2>3. FactoryTypeOK
    BY <2>2, FactoryAssumption DEF FactoryInit, FactoryTypeOK
  <2>4. ASSUME NEW c \in Coins
        PROVE  supply[c] = SumOf(wallet[c])
    <3>1. CASE c = Kopi
      <4>1. wallet[c] = [u \in Users |-> Funds]
        BY <3>1 DEF FactoryInit
      <4>2. SumOf([u \in Users |-> Funds]) = Funds * Cardinality(Users)
        BY SumConstant, FactoryAssumption
      <4> QED
        BY <3>1, <4>1, <4>2 DEF FactoryInit
    <3>2. CASE c # Kopi
      <4>1. wallet[c] = [u \in Users |-> 0] /\ supply[c] = 0
        BY <3>2 DEF FactoryInit
      <4>2. SumOf([u \in Users |-> 0]) = 0
        BY SumZero
      <4> QED
        BY <4>1, <4>2
    <3> QED
      BY <3>1, <3>2
  <2>5. NativeSupply
    BY <2>1, <2>2 DEF FactoryInit, NativeSupply
  <2> QED
    BY <2>3, <2>4, <2>5 DEF FInv, SupplyHeld
<1>2. FInv /\ [FactoryNext]_factory => FInv'
  <2> SUFFICES ASSUME FInv, [FactoryNext]_factory PROVE FInv'
    OBVIOUS
  <2>1. CASE UNCHANGED factory
    BY <2>1 DEF factory, FInv, FactoryTypeOK, SupplyHeld, NativeSupply
  <2>2. CASE \E f \in Fees : UpdateFeeAmount(f)
    BY <2>2, FactoryAssumption
       DEF UpdateFeeAmount, FInv, FactoryTypeOK, SupplyHeld, NativeSupply
  <2>3. CASE \E u, t \in Users, c \in Coins, a \in CoinAmounts : Send(u, t, c, a)
    BY <2>3, SendKeeps
  <2>4. ASSUME NEW u \in Users, NEW n \in Nicknames, CreateDenom(u, n)
        PROVE  FInv'
    BY <2>4, CreateKeeps
  <2>5. ASSUME NEW u \in Users, NEW n \in Nicknames, NEW t \in Users,
               ChangeAdmin(u, n, t)
        PROVE  FInv'
    BY <2>5, SignedType DEF ChangeAdmin, FInv, FactoryTypeOK, SupplyHeld, NativeSupply
  <2>6. ASSUME NEW u \in Users, NEW n \in Nicknames, NEW t \in Users,
               NEW a \in CoinAmounts,
               MintDenom(u, n, t, a) \/ BurnDenom(u, n, t, a)
        PROVE  FInv'
    BY <2>6, MintKeeps, BurnKeeps
  <2>7. ASSUME NEW u \in Users, NEW n \in Nicknames, NEW t \in Users,
               NEW a \in CoinAmounts, NEW from \in Users,
               ForceTransfer(u, n, from, t, a)
        PROVE  FInv'
    BY <2>7, SignedType DEF ForceTransfer, FInv, FactoryTypeOK, SupplyHeld, NativeSupply
  <2> QED
    BY <2>1, <2>2, <2>3, <2>4, <2>5, <2>6, <2>7 DEF FactoryNext
<1> QED
  BY <1>1, <1>2, PTL DEF FactorySpec

-----------------------------------------------------------------------------
(* The theorems.                                                           *)

\* No message of the factory, in any order, makes a balance or a supply
\* negative, and the admin of a denom is a user.
THEOREM FactoryTypeCorrect == FactorySpec => []FactoryTypeOK
<1>1. FInv => FactoryTypeOK
  BY DEF FInv
<1> QED
  BY <1>1, FactoryInvariant, PTL

\* Every coin that was minted and not burned is in the wallet of a user.
THEOREM FactorySupply == FactorySpec => []SupplyHeld
<1>1. FInv => SupplyHeld
  BY DEF FInv
<1> QED
  BY <1>1, FactoryInvariant, PTL

\* Whatever names users give their denoms, the supply of Kopi changes by the
\* creation fees alone.
THEOREM FactoryNative == FactorySpec => []NativeSupply
<1>1. FInv => NativeSupply
  BY DEF FInv
<1> QED
  BY <1>1, FactoryInvariant, PTL

\* The action of OnlyOwnerOrAdmin.
TakenStep ==
  \A c \in FactoryDenoms, u \in Users :
    wallet'[c][u] < wallet[c][u] =>
      signer' = u \/ (c \in DOMAIN admin /\ signer' = admin[c])

\* BurnDenom is the only message that takes coins of somebody else.
LEMMA TakenCause == FInv /\ [FactoryNext]_factory => TakenStep
<1> SUFFICES ASSUME FInv, [FactoryNext]_factory,
                    NEW c \in FactoryDenoms, NEW v \in Users,
                    wallet'[c][v] < wallet[c][v]
             PROVE  signer' = v \/ (c \in DOMAIN admin /\ signer' = admin[c])
  BY DEF TakenStep
<1>1. /\ c \in Coins /\ c # Kopi /\ wallet \in [Coins -> [Users -> Nat]]
      /\ wallet[c][v] \in Nat /\ wallet' # wallet
  <2>1. PICK n \in Nicknames : c = FullName(n)
    BY DEF FactoryDenoms
  <2>2. c \in Coins /\ c # Kopi
    BY <2>1, NameApart
  <2>3. wallet \in [Coins -> [Users -> Nat]]
    BY DEF FInv, FactoryTypeOK
  <2>4. wallet[c][v] \in Nat
    BY <2>2, <2>3
  <2> QED
    BY <2>2, <2>3, <2>4
<1>2. CASE \E u, t \in Users, d \in Coins, a \in CoinAmounts : Send(u, t, d, a)
  <2>1. PICK u \in Users, t \in Users, d \in Coins, a \in CoinAmounts : Send(u, t, d, a)
    BY <1>2
  <2>2. /\ \A e \in Coins : e # d => wallet'[e] = wallet[e]
        /\ \A w \in Users : wallet'[d][w] < wallet[d][w] => w = u
    BY <2>1, SendBalances DEF FInv
  <2>3. d = c /\ v = u
    BY <1>1, <2>2
  <2> QED
    BY <2>1, <2>3 DEF Send, Signed
<1>3. ASSUME NEW u \in Users, NEW n \in Nicknames, CreateDenom(u, n)
      PROVE  FALSE
  <2>1. wallet' = [wallet EXCEPT ![Kopi][u] = wallet[Kopi][u] - fee]
    BY <1>3 DEF CreateDenom, ProcessCreationFee
  <2>2. wallet'[c] = wallet[c]
    BY <1>1, <2>1
  <2> QED
    BY <1>1, <2>2
<1>4. ASSUME NEW u \in Users, NEW n \in Nicknames, NEW t \in Users,
             NEW a \in CoinAmounts, MintDenom(u, n, t, a)
      PROVE  FALSE
  <2>1. /\ FullName(n) \in Coins /\ a \in Int /\ a > 0
        /\ wallet' = [wallet EXCEPT ![FullName(n)][t] = wallet[FullName(n)][t] + a]
    BY <1>4, NameApart, FactoryAssumption DEF MintDenom
  <2>2. wallet'[c][v] = wallet[c][v] \/ wallet'[c][v] = wallet[c][v] + a
    BY <1>1, <2>1
  <2> QED
    BY <1>1, <2>1, <2>2
<1>5. ASSUME NEW u \in Users, NEW n \in Nicknames, NEW t \in Users,
             NEW a \in CoinAmounts, BurnDenom(u, n, t, a)
      PROVE  c \in DOMAIN admin /\ signer' = admin[c]
  <2>1. wallet' = [wallet EXCEPT ![FullName(n)][t] = wallet[FullName(n)][t] - a]
    BY <1>5 DEF BurnDenom
  <2>2. c = FullName(n)
    BY <1>1, <2>1, NameApart
  <2> QED
    BY <1>5, <2>2 DEF BurnDenom, OfAdmin, Signed
<1> QED
  BY <1>1, <1>2, <1>3, <1>4, <1>5
     DEF FactoryNext, factory, UpdateFeeAmount, ChangeAdmin, ForceTransfer

\* Coins leave a wallet only by a message of its owner or of whoever is the
\* admin then, however often the office changed hands.
THEOREM FactoryOnlyOwnerOrAdmin == FactorySpec => OnlyOwnerOrAdmin
<1>1. FInv /\ [FactoryNext]_factory => [TakenStep]_factory
  BY TakenCause
<1> QED
  BY <1>1, FactoryInvariant, PTL DEF FactorySpec, OnlyOwnerOrAdmin, TakenStep
=============================================================================
