--------------------------- MODULE Denominations ---------------------------
(***************************************************************************)
(* The registry of denoms (x/denominations), which governance edits: the   *)
(* denoms of the dex, the kCoins with their references, the cAssets of the *)
(* money market and the collateral denoms.  Each message reads the         *)
(* parameters, appends to a list or changes the entries it names, and      *)
(* stores the result if it passes Params.Validate.                         *)
(*                                                                         *)
(* The lists are sequences, since the messages append without looking and  *)
(* duplicates are left to the validation.  Decimals are whole: 1 stands    *)
(* for 100%.                                                               *)
(***************************************************************************)
EXTENDS Integers, Sequences, FiniteSets, Functions

CONSTANTS
  Base,            \* the base currency
  Listed,          \* names that messages may mention
  GenesisParams,   \* parameters at genesis
  ReferenceLists,  \* lists of references that messages may carry
  Values,          \* numbers that genesis and messages may carry
  LimitChoices,    \* limits that the message for a new kCoin may carry
  Nil,             \* the zero value of math.Int
  MaxVotes         \* bound: messages of governance

VARIABLES
  params,          \* dexDenoms, kCoins, collateralDenoms, cAssets
  votes            \* messages so far

registry == <<params, votes>>

Limits == {"maxSupply", "maxMintAmount", "maxBurnAmount"}

Names(list) == {list[i].name : i \in DOMAIN list}

\* seen: no name comes twice.
AllDistinct(names) == \A i, j \in DOMAIN names : names[i] = names[j] => i = j

NamesOf(list) == [i \in DOMAIN list |-> list[i].name]

-----------------------------------------------------------------------------
(* Params.Validate.                                                        *)

ValidDexDenom(d) == d.name = Base \/ (d.factor > 0 /\ d.minLiquidity > 0)

ValidDexDenoms(p) ==
  /\ \A i \in DOMAIN p.dexDenoms : ValidDexDenom(p.dexDenoms[i])
  /\ AllDistinct(NamesOf(p.dexDenoms))

ValidKCoin(p, k) ==
  /\ {k.name} \cup Range(k.references) \subseteq Names(p.dexDenoms)
  /\ k.references # <<>>
  /\ \A l \in Limits : k.limits[l] >= 0

\* Faulty: the references are not entered in seen.
NamesOfKCoinsOnly(kCoins) == NamesOf(kCoins)

\* All names that validateKCoins enters in seen, by their places: <<i, 0>> is
\* the i-th kCoin, <<i, n>> its n-th reference.
SeenOfKCoins(kCoins) ==
  LET Places(i) == {i} \X (0..Len(kCoins[i].references))
  IN [p \in UNION {Places(i) : i \in DOMAIN kCoins} |->
        IF p[2] = 0 THEN kCoins[p[1]].name ELSE kCoins[p[1]].references[p[2]]]

ValidKCoins(p) ==
  /\ \A i \in DOMAIN p.kCoins : ValidKCoin(p, p.kCoins[i])
  /\ AllDistinct(SeenOfKCoins(p.kCoins))

\* Faulty: the upper limit of the loan-to-value is not checked.
ValidCollateralBelowOnly(p, c) ==
  c.ltv >= 0 /\ c.maxDeposit >= 0 /\ c.name \in Names(p.dexDenoms)

ValidCollateral(p, c) ==
  c.ltv \in 0..1 /\ c.maxDeposit >= 0 /\ c.name \in Names(p.dexDenoms)

ValidCollateralDenoms(p) ==
  /\ \A i \in DOMAIN p.collateralDenoms : ValidCollateral(p, p.collateralDenoms[i])
  /\ AllDistinct(NamesOf(p.collateralDenoms))

\* A borrow limit may be negative.  The comparison of a minimum that is nil
\* panics, which rejects the message.
ValidCAsset(p, c) ==
  /\ {c.baseDenom, c.name} \subseteq Names(p.dexDenoms)
  /\ c.dexFeeShare \in 0..1
  /\ c.borrowLimit <= 1
  /\ c.minimumLoanSize # Nil
  /\ c.minimumLoanSize >= 0

\* Both lookups precede both entries, so a cAsset may be its own base.
ValidCAssets(p) ==
  LET Seen(i) == {p.cAssets[i].name, p.cAssets[i].baseDenom}
  IN /\ \A i \in DOMAIN p.cAssets : ValidCAsset(p, p.cAssets[i])
     /\ \A i, j \in DOMAIN p.cAssets : i # j => Seen(i) \cap Seen(j) = {}

Valid(p) == ValidDexDenoms(p) /\ ValidKCoins(p) /\ ValidCollateralDenoms(p) /\ ValidCAssets(p)

\* Parameters, valid or not.
DexDenom == [name: Listed, factor: Values, minLiquidity: Values]
KCoin == [name: Listed, references: Seq(Listed), limits: [Limits -> Values]]
CollateralDenom == [name: Listed, ltv: Values, maxDeposit: Values]
CAsset == [name: Listed, baseDenom: Listed, dexFeeShare: Values, borrowLimit: Values,
           minimumLoanSize: Values \cup {Nil}]
Params == [dexDenoms: Seq(DexDenom), kCoins: Seq(KCoin),
           collateralDenoms: Seq(CollateralDenom), cAssets: Seq(CAsset)]

ASSUME RegistryAssumption ==
  /\ GenesisParams \in Params
  /\ Valid(GenesisParams)
  /\ Values \subseteq Int
  /\ LimitChoices \subseteq [Limits -> Values]
  /\ Nil \notin Int
  /\ \A s \in ReferenceLists : s \in Seq(Listed)
  /\ MaxVotes \in Nat

RegistryInit ==
  /\ params = GenesisParams
  /\ votes = 0

-----------------------------------------------------------------------------
(* The messages.                                                           *)

\* A message that does not pass the validation changes nothing.
Save(p) ==
  /\ votes < MaxVotes
  /\ params' = IF Valid(p) THEN p ELSE params
  /\ votes' = votes + 1

\* The new dex denom of AddDEXDenom, AddKCoin and AddCAsset.
WithDexDenom(p, n, factor, liquidity) ==
  [p EXCEPT !.dexDenoms =
     Append(@, [name |-> n, factor |-> factor, minLiquidity |-> liquidity])]

AddDEXDenom(n, factor, liquidity) == Save(WithDexDenom(params, n, factor, liquidity))

\* The update of one field of all entries with a name.
Changed(list, n, Change(_)) ==
  [i \in DOMAIN list |-> IF list[i].name = n THEN Change(list[i]) ELSE list[i]]

UpdateDEXDenom(n, v) ==
  LET Change(d) == [d EXCEPT !.minLiquidity = v]
  IN /\ n \in Names(params.dexDenoms)
     /\ Save([params EXCEPT !.dexDenoms = Changed(@, n, Change)])

AddKCoin(n, references, limits, factor, liquidity) ==
  LET kCoin == [name |-> n, references |-> references, limits |-> limits]
  IN Save(WithDexDenom([params EXCEPT !.kCoins = Append(@, kCoin)], n, factor, liquidity))

\* UpdateKCoinSupply, UpdateKCoinMintAmount, UpdateKCoinBurnAmount.
UpdateKCoinLimit(n, l, v) ==
  LET Change(k) == [k EXCEPT !.limits[l] = v]
  IN /\ n \in Names(params.kCoins)
     /\ Save([params EXCEPT !.kCoins = Changed(@, n, Change)])

AddKCoinReferences(n, references) ==
  LET Change(k) == [k EXCEPT !.references = @ \o references]
  IN /\ n \in Names(params.kCoins)
     /\ Save([params EXCEPT !.kCoins = Changed(@, n, Change)])

\* filterReferences.
Filtered(references, removed) ==
  LET kept[i \in 0..Len(references)] ==
        IF i = 0 THEN <<>>
        ELSE IF references[i] \in Range(removed) THEN kept[i - 1]
        ELSE Append(kept[i - 1], references[i])
  IN kept[Len(references)]

\* Faulty: what is left is stored without a validation.
RemoveReferencesUnchecked(n, references) ==
  LET Change(k) == [k EXCEPT !.references = Filtered(@, references)]
  IN /\ n \in Names(params.kCoins)
     /\ votes < MaxVotes
     /\ params' = [params EXCEPT !.kCoins = Changed(@, n, Change)]
     /\ votes' = votes + 1

RemoveKCoinReferences(n, references) ==
  LET Change(k) == [k EXCEPT !.references = Filtered(@, references)]
  IN /\ n \in Names(params.kCoins)
     /\ Save([params EXCEPT !.kCoins = Changed(@, n, Change)])

\* Faulty: the minimum has a value.
AddCAssetWithMinimum(n, base, v) ==
  LET cAsset == [name |-> n, baseDenom |-> base, dexFeeShare |-> v, borrowLimit |-> v,
                 minimumLoanSize |-> 0]
  IN Save(WithDexDenom([params EXCEPT !.cAssets = Append(@, cAsset)], n, v, v))

\* The message has no MinimumLoanSize, which is nil in the new cAsset.
AddCAsset(n, base, v) ==
  LET cAsset == [name |-> n, baseDenom |-> base, dexFeeShare |-> v, borrowLimit |-> v,
                 minimumLoanSize |-> Nil]
  IN Save(WithDexDenom([params EXCEPT !.cAssets = Append(@, cAsset)], n, v, v))

\* UpdateCAssetDexFeeShare, UpdateCAssetBorrowLimit, UpdateCAssetMinimumLoanSize.
UpdateCAsset(n, field, v) ==
  LET Change(c) == [c EXCEPT ![field] = v]
  IN /\ n \in Names(params.cAssets)
     /\ Save([params EXCEPT !.cAssets = Changed(@, n, Change)])

AddCollateralDenom(n, ltv, deposit) ==
  Save([params EXCEPT !.collateralDenoms =
          Append(@, [name |-> n, ltv |-> ltv, maxDeposit |-> deposit])])

\* UpdateCollateralDenomLTV, UpdateCollateralDenomMaxDeposit.
UpdateCollateralDenom(n, field, v) ==
  LET Change(c) == [c EXCEPT ![field] = v]
  IN /\ n \in Names(params.collateralDenoms)
     /\ Save([params EXCEPT !.collateralDenoms = Changed(@, n, Change)])

RegistryNext ==
  \E n \in Listed, v \in Values :
    \/ \E w \in Values : AddDEXDenom(n, v, w) \/ AddCollateralDenom(n, v, w)
    \/ UpdateDEXDenom(n, v)
    \/ \E l \in Limits : UpdateKCoinLimit(n, l, v)
    \/ \E s \in ReferenceLists :
         \/ AddKCoinReferences(n, s)
         \/ RemoveKCoinReferences(n, s)
         \/ \E limits \in LimitChoices, w \in Values : AddKCoin(n, s, limits, v, w)
    \/ \E b \in Listed : AddCAsset(n, b, v)
    \/ \E f \in {"dexFeeShare", "borrowLimit", "minimumLoanSize"} : UpdateCAsset(n, f, v)
    \/ \E f \in {"ltv", "maxDeposit"} : UpdateCollateralDenom(n, f, v)

RegistrySpec == RegistryInit /\ [][RegistryNext]_registry

-----------------------------------------------------------------------------
(* Correctness.                                                            *)

\* The numbers of the registry stay in the ranges the users of the parameters
\* rely on: shares and loan-to-values between 0 and 1, no negative limits.
RegistryTypeOK ==
  /\ votes \in 0..MaxVotes
  /\ params.dexDenoms \in Seq(DexDenom)
  /\ params.kCoins \in
       Seq([name: Listed, references: Seq(Listed), limits: [Limits -> Values \cap Nat]])
  /\ params.collateralDenoms \in
       Seq([name: Listed, ltv: 0..1, maxDeposit: Values \cap Nat])
  /\ params.cAssets \in
       Seq([name: Listed, baseDenom: Listed, dexFeeShare: 0..1, borrowLimit: Int,
            minimumLoanSize: Nat])

\* Every lookup by name succeeds after any votes: InitialVirtualLiquidityFactor,
\* MinLiquidity and CalculateParity are asked for kCoins, references, cAssets and
\* collateral, and panic or return no reference for a name that is missing.
LookupsDefined ==
  /\ Names(params.kCoins) \cup Names(params.cAssets) \cup Names(params.collateralDenoms)
       \subseteq Names(params.dexDenoms)
  /\ \A i \in DOMAIN params.kCoins :
       /\ params.kCoins[i].references # <<>>
       /\ Range(params.kCoins[i].references) \subseteq Names(params.dexDenoms)
  /\ \A i \in DOMAIN params.cAssets : params.cAssets[i].baseDenom \in Names(params.dexDenoms)

\* A kCoin is never held to its own price or to the price of another kCoin, and
\* no reference serves two kCoins, whatever order kCoins and references are
\* added in (validateKCoins): Burn and Mint of one kCoin leave the reference of
\* every other alone.
ReferencesApart ==
  \A i, j \in DOMAIN params.kCoins :
    /\ params.kCoins[i].name \notin Range(params.kCoins[j].references)
    /\ i # j => Range(params.kCoins[i].references) \cap Range(params.kCoins[j].references) = {}

\* AddCAsset has no effect: the set of cAssets is that of genesis, since the new
\* cAsset has no minimum loan size and validateCAsset panics.
CAssetsOfGenesis == NamesOf(params.cAssets) = NamesOf(GenesisParams.cAssets)
=============================================================================
