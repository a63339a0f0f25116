-------------------------------- MODULE Swap --------------------------------
(***************************************************************************)
(* The swap module (x/swap/keeper: burn.go, mint.go), which holds kCoins   *)
(* near the worth of their reference denoms, with the prices of the dex it *)
(* decides by (x/dex/keeper: parity.go, price.go, the trade simulation).   *)
(*                                                                         *)
(* At the end of a block Burn runs for every kCoin, then Mint.  A kCoin    *)
(* that is not above parity is bought with new base currency and burned; a *)
(* kCoin that is not below parity is minted and sold, the base currency it *)
(* earns goes in part to the stakers and is burned.  What a trade does not *)
(* take stays in the account of the module.                                *)
(*                                                                         *)
(* Parity is read from the ratio store, amounts are computed from the      *)
(* pools.  The base side is shared: a trade in one pair shifts it in all,  *)
(* and updates the ratio of its own pair only.                             *)
(*                                                                         *)
(* Abstracted: a pool is its full liquidity, actual and virtual, and keeps *)
(* the fees; where virtual liquidity limits a trade is one of Depths.  The *)
(* look-up of the reserve's kCoin liquidity by the name of the account     *)
(* finds none, so that RemoveAllLiquidityForModule is never called.  No    *)
(* pool is empty; if the one of a reference is, a simulation returns an    *)
(* error, which ends Mint, or an amount that is nil, at which Burn panics. *)
(***************************************************************************)
EXTENDS Integers, FiniteSets, Sums, Dec

CONSTANTS
  Base,           \* the base currency
  KCoins,         \* the kCoins
  Fiat,           \* other denoms of the dex that may be references
  InitialRefs,    \* the references of each kCoin at genesis
  InitialPools,   \* full liquidity at genesis: [base, other] by denom
  InitialSupply,  \* supply of every kCoin at genesis
  InitialMaxSupply, \* MaxSupply of every kCoin at genesis
  InitialShare,   \* StakingShare at genesis (decimal)
  GenesisBase,    \* supply of the base currency at genesis
  TradeFee,       \* fee of a trade with the base currency (decimal)
  ReserveShare,   \* dex parameter: the reserve's part of a fee (decimal)
  StakingShares,  \* values governance may give to StakingShare (decimals)
  MaxSupplies,    \* values governance may give to MaxSupply
  MaxMintAmount,  \* kCoin parameter
  MaxBurnAmount,  \* kCoin parameter
  MinTradeAmount, \* smaller trades are refused (1000 in the code)
  Depths,         \* amounts beyond which the pools may not trade
  Leftovers,      \* base currency of others that PoolTrade may hold
  Amounts,        \* amounts of trades of others
  Shifts,         \* base currency that trades in other pairs bring or take
  MaxTxs,         \* bound: trades and votes
  MaxBlocks       \* bound: number of blocks

Denoms == KCoins \cup Fiat

ASSUME SwapAssumption ==
  /\ IsFiniteSet(Denoms)
  /\ KCoins \cap Fiat = {}
  /\ Base \notin Denoms
  /\ InitialRefs \in [KCoins -> SUBSET Fiat]
  /\ \A k, l \in KCoins : InitialRefs[k] # {} /\ (k # l => InitialRefs[k] \cap InitialRefs[l] = {})
  /\ InitialPools \subseteq [Denoms -> [base: Nat \ {0}, other: Nat \ {0}]]
  /\ InitialSupply \in Nat
  /\ InitialMaxSupply \in MaxSupplies
  /\ InitialShare \in StakingShares
  /\ GenesisBase \in Nat
  /\ TradeFee \in 0..Scale
  /\ ReserveShare \in 0..Scale
  /\ StakingShares \subseteq 0..Scale
  /\ MaxSupplies \subseteq Nat
  /\ MaxMintAmount \in Nat
  /\ MaxBurnAmount \in Nat
  /\ MinTradeAmount \in Nat \ {0}
  /\ Depths \subseteq Nat
  /\ Leftovers \subseteq Nat
  /\ Amounts \subseteq Nat \ {0}
  /\ Shifts \subseteq Int
  /\ MaxTxs \in Nat
  /\ MaxBlocks \in Nat

VARIABLES
  pools,       \* full liquidity of each pair: base and other side (decimals)
  ratio,       \* the ratio store (decimals)
  refs,        \* reference denoms of each kCoin
  maxSupply,   \* MaxSupply of each kCoin
  share,       \* swap parameter StakingShare
  supply,      \* bank supply of the kCoins and of the base currency
  account,     \* balance of the swap module account
  phase,       \* "tx", "burn", "mint"
  queue,       \* kCoins the loop has not reached
  txs,         \* trades and votes so far
  blocks,      \* blocks so far
  traded,      \* history: kCoins sold minus kCoins bought, and base currency
               \* spent minus base currency earned
  earned,      \* history: base currency earned by selling kCoins
  unspent,     \* history: base currency minted by Burn that bought nothing
  rewards      \* history: base currency paid to the stakers

market == <<pools, ratio>>
params == <<refs, maxSupply, share>>
bank == <<supply, account>>
loop == <<phase, queue, blocks>>
history == <<traded, earned, unspent, rewards>>
vars == <<market, params, bank, loop, txs, history>>

Init ==
  /\ pools \in InitialPools
  /\ ratio = [d \in Denoms |-> Quo(pools[d].other, pools[d].base)]
  /\ refs = InitialRefs
  /\ maxSupply = [k \in KCoins |-> InitialMaxSupply]
  /\ share = InitialShare
  /\ supply = [d \in KCoins \cup {Base} |-> IF d = Base THEN GenesisBase ELSE InitialSupply]
  /\ account = [d \in KCoins \cup {Base} |-> 0]
  /\ phase = "tx"
  /\ queue = {}
  /\ txs = 0
  /\ blocks = 0
  /\ traded = [d \in KCoins \cup {Base} |-> 0]
  /\ earned = 0
  /\ unspent = 0
  /\ rewards = 0

InTx == phase = "tx" /\ blocks < MaxBlocks

Add(f, d, a) == [f EXCEPT ![d] = @ + a]

MinInt(a, b) == IF a < b THEN a ELSE b

-----------------------------------------------------------------------------
(* Trades on the pools.                                                    *)

\* ConstantProductTrade.
Bought(from, to, offer) == to - Quo(Mul(from, to), from + offer)

\* A trade adds base (a difference) to the base side of every pair and other to
\* the pair of d, whose ratio is updated.
Trade(d, base, other) ==
  /\ \A c \in Denoms : pools[c].base + base > 0
  /\ pools[d].other + other > 0
  /\ pools' = [c \in Denoms |-> [base |-> pools[c].base + base,
                                 other |-> pools[c].other + IF c = d THEN other ELSE 0]]
  /\ ratio' = [ratio EXCEPT ![d] = Quo(pools'[d].other, pools'[d].base)]

Payout(gross) == gross - RoundInt(Mul(ToDec(gross), TradeFee))

\* What is paid for whole coins of d, or of the base currency.
ForDenom(d, offer) ==
  Payout(TruncateInt(Bought(pools[d].other, pools[d].base, ToDec(offer))))
ForBase(d, offer) ==
  Payout(TruncateInt(Bought(pools[d].base, pools[d].other, ToDec(offer))))

\* SimulateTradeForReserve: the reserve's own part of the fee is left out.
ReserveFee(fee) == Mul(fee, Scale - ReserveShare)

NetOf(amount, fee) == amount - Mul(amount, fee)

ReceivedToBase(d, amount) ==
  LET fee == ReserveFee(TradeFee)
  IN NetOf(Bought(pools[d].other, pools[d].base, NetOf(ToDec(amount), fee)), fee)

SimulateToBase(d, amount) == IF amount = 0 THEN 0 ELSE TruncateInt(ReceivedToBase(d, amount))

ReceivedBetween(s, e, amount) ==
  LET fee == ReserveFee(Quo(TradeFee, ToDec(2)))
      base == NetOf(Bought(pools[s].other, pools[s].base, NetOf(ToDec(amount), fee)), fee)
  IN NetOf(Bought(pools[e].base, pools[e].other, base), fee)

SimulateBetween(s, e, amount) == TruncateInt(ReceivedBetween(s, e, amount))

-----------------------------------------------------------------------------
(* Parity.                                                                 *)

\* CalculatePrice from a kCoin to a reference.
Price(k, r) == Quo(Scale, Mul(Quo(Scale, ratio[k]), ratio[r]))

\* Every price of the kCoin can be computed.  If one cannot, CalculatePrice
\* returns ErrZeroPrice or divides by zero, and the block has no end.
Priced(k) ==
  ratio[k] > 0 /\ \A r \in refs[k] : Mul(Quo(Scale, ratio[k]), ratio[r]) > 0

\* GetHighestPriceDenom: the first of these, the order is left open.  If there
\* is none the parity is nil, and nothing is due.
Highest(k) ==
  {r \in refs[k] : Price(k, r) > 0 /\ \A s \in refs[k] : Price(k, s) <= Price(k, r)}

Parity(k, r) == Quo(ratio[r], ratio[k])

-----------------------------------------------------------------------------
(* Burn.                                                                   *)

\* Faulty: the limit is the least amount instead of the most.
AmountToBurnAtLeast(diff) == IF RoundInt(diff) < MaxBurnAmount THEN MaxBurnAmount
                                                               ELSE RoundInt(diff)

AmountToBurn(diff) == MinInt(RoundInt(diff), MaxBurnAmount)

\* calcBaseMintAmount: the difference of the pools, limited and converted.
BaseMintAmount(k, r) ==
  LET diff == pools[k].other - pools[r].other
  IN IF diff <= 0 THEN 0 ELSE SimulateToBase(r, AmountToBurn(diff))

\* CheckBurn up to mintTradeBurn: the base currency to mint, if any.
BurnDue(k, r) ==
  IF Parity(k, r) <= Scale /\ ratio[r] <= Scale THEN BaseMintAmount(k, r) ELSE 0

\* The simulation divides by what is received.  If that is nothing, it panics,
\* and the block has no end.
BurnSimulated(k, r) ==
  LET amount == AmountToBurn(pools[k].other - pools[r].other)
  IN Parity(k, r) <= Scale /\ ratio[r] <= Scale /\ amount > 0
       => ReceivedToBase(r, amount) # 0

BurnAmounts(k) ==
  IF Highest(k) = {} THEN {0}
  ELSE {BurnDue(k, r) : r \in {s \in Highest(k) : BurnSimulated(k, s)}}

\* Faulty: what the pools can take is not limited by what is given.
TradableUnlimited(amount) == {a \in {amount} \cup Depths : a >= MinTradeAmount}

\* The amounts of a trade that ExecuteTrade lets through.
Tradable(amount) ==
  {a \in {amount} \cup {m \in Depths : m < amount} : a >= MinTradeAmount}

\* mintTradeBurn, with burnFunds of the kCoin: all of it is burned, what an
\* earlier mint has not sold included.
MintTradeBurn(k, minted) ==
  \E given \in Tradable(minted) :
    LET received == ForBase(k, given)
    IN /\ Trade(k, ToDec(given), -ToDec(received))
       /\ supply' = [supply EXCEPT ![Base] = @ + minted, ![k] = @ - (account[k] + received)]
       /\ account' = [account EXCEPT ![Base] = @ + minted - given, ![k] = 0]
       /\ traded' = [traded EXCEPT ![Base] = @ + given, ![k] = @ - received]
       /\ unspent' = unspent + minted - given
       /\ UNCHANGED <<earned, rewards>>

\* The trade is refused (ErrTradeAmountTooSmall, ErrNotEnoughLiquidity) and the
\* new base currency stays in the account.
MintWithoutTrade(minted) ==
  /\ supply' = Add(supply, Base, minted)
  /\ account' = Add(account, Base, minted)
  /\ unspent' = unspent + minted
  /\ UNCHANGED <<market, traded, earned, rewards>>

CheckBurn(k) ==
  /\ phase = "burn"
  /\ k \in queue
  /\ Priced(k)
  /\ \E minted \in BurnAmounts(k) :
       \/ minted = 0 /\ UNCHANGED <<market, bank, history>>
       \/ minted > 0 /\ MintTradeBurn(k, minted)
       \/ minted > 0 /\ MintWithoutTrade(minted)
  /\ queue' = queue \ {k}
  /\ UNCHANGED <<params, phase, blocks, txs>>

-----------------------------------------------------------------------------
(* Mint.                                                                   *)

\* ApproxSqrt: the largest decimal whose square is not greater, by its multiple
\* of Scale and the rest.
ApproxSqrt(a) ==
  LET square == a * Scale
      Root(s, t) == s * s <= square /\ t * t > square
      q == CHOOSE n \in 0..a : Root(n * Scale, (n + 1) * Scale)
  IN CHOOSE s \in (q * Scale)..((q + 1) * Scale) : Root(s, s + 1)

\* calcKCoinMintAmount.
KCoinMintAmount(k, r) ==
  TruncateInt(ApproxSqrt(Quo(Mul(pools[k].base, pools[k].other), ratio[r])) - pools[k].other)

\* Faulty: the cap is only compared with the supply.
AdjustIfBelowCap(k, amount) == IF supply[k] < maxSupply[k] THEN amount ELSE 0

\* adjustForSupplyCap: the amount is subtracted from the room it is compared
\* with.
AdjustForSupplyCap(k, amount) == MinInt(maxSupply[k] - (supply[k] + amount), amount)

\* The amount in the reference denom, and the kCoins it buys.
MintAmount(k, r) ==
  AdjustForSupplyCap(k, MinInt(KCoinMintAmount(k, r), MaxMintAmount))

KCoinsToMint(k, r, amount) == IF amount <= 0 THEN 0 ELSE SimulateBetween(r, k, amount)

\* CheckMint up to MintCoins: the kCoins to mint, if any.
MintDue(k, r) == IF Parity(k, r) >= Scale THEN KCoinsToMint(k, r, MintAmount(k, r)) ELSE 0

MintSimulated(k, r) ==
  LET amount == MintAmount(k, r)
  IN Parity(k, r) >= Scale /\ amount > 0 => ReceivedBetween(r, k, amount) # 0

MintAmounts(k) ==
  IF Highest(k) = {} THEN {0}
  ELSE {MintDue(k, r) : r \in {s \in Highest(k) : MintSimulated(k, s)}}

\* Faulty: what earlier trades have left is counted twice.
RewardOnLeftTwice(amount) == RoundInt(Mul(share, ToDec(amount + account[Base])))

\* The stakers' part of what the account holds.
Reward(amount) == RoundInt(Mul(share, ToDec(amount)))

\* Faulty: the reward is not taken from what is burned.
BurnedBaseInFull(held) == held

BurnedBase(held) == held - Reward(held)

\* The kCoins are minted and sold; burnFunds of the base currency pays the
\* stakers and burns the rest of all the account holds.
MintAndSell(k, minted) ==
  \E given \in Tradable(minted), leftover \in Leftovers :
    LET received == ForDenom(k, given) + leftover
        held == account[Base] + received
    IN /\ Trade(k, -ToDec(ForDenom(k, given)), ToDec(given))
       /\ supply' = [supply EXCEPT ![k] = @ + minted, ![Base] = @ - BurnedBase(held)]
       /\ account' = [account EXCEPT ![k] = @ + minted - given, ![Base] = 0]
       /\ traded' = [traded EXCEPT ![k] = @ + given, ![Base] = @ - received]
       /\ earned' = earned + received
       /\ rewards' = rewards + Reward(held)
       /\ UNCHANGED unspent

\* The trade is refused, and the kCoins stay in the account.
MintUnsold(k, minted) ==
  /\ supply' = Add(supply, k, minted)
  /\ account' = Add(account, k, minted)
  /\ UNCHANGED <<market, history>>

CheckMint(k) ==
  /\ phase = "mint"
  /\ k \in queue
  /\ Priced(k)
  /\ \E minted \in MintAmounts(k) :
       \/ minted < 1 /\ UNCHANGED <<market, bank, history>>
       \/ minted >= 1 /\ MintAndSell(k, minted)
       \/ minted >= 1 /\ MintUnsold(k, minted)
  /\ queue' = queue \ {k}
  /\ UNCHANGED <<params, phase, blocks, txs>>

-----------------------------------------------------------------------------
(* The EndBlocker: Burn for all kCoins, then Mint for all.                 *)

BeginBurn ==
  /\ InTx
  /\ phase' = "burn"
  /\ queue' = KCoins
  /\ UNCHANGED <<market, params, bank, blocks, txs, history>>

BeginMint ==
  /\ phase = "burn"
  /\ queue = {}
  /\ phase' = "mint"
  /\ queue' = KCoins
  /\ UNCHANGED <<market, params, bank, blocks, txs, history>>

NextBlock ==
  /\ phase = "mint"
  /\ queue = {}
  /\ phase' = "tx"
  /\ blocks' = blocks + 1
  /\ UNCHANGED <<market, params, bank, queue, txs, history>>

-----------------------------------------------------------------------------
(* Trades of others, and votes.                                            *)

SellDenom(d, amount) == Trade(d, -ToDec(ForDenom(d, amount)), ToDec(amount))
SellBase(d, amount) == Trade(d, ToDec(amount), -ToDec(ForBase(d, amount)))

\* A trade in a pair that is not modelled shifts the base side of all.
TradeElsewhere(base) ==
  /\ \A c \in Denoms : pools[c].base + base > 0
  /\ pools' = [c \in Denoms |-> [pools[c] EXCEPT !.base = @ + base]]
  /\ ratio' = ratio

OthersTrade ==
  /\ \/ \E d \in Denoms, a \in Amounts : SellDenom(d, a) \/ SellBase(d, a)
     \/ \E b \in Shifts : TradeElsewhere(ToDec(b))
  /\ UNCHANGED params

UpdateKCoinSupply(k, m) ==
  /\ maxSupply' = [maxSupply EXCEPT ![k] = m]
  /\ UNCHANGED <<market, refs, share>>

\* RemoveKCoinReferences; a kCoin keeps at least one.
RemoveReference(k, r) ==
  /\ r \in refs[k]
  /\ Cardinality(refs[k]) > 1
  /\ refs' = [refs EXCEPT ![k] = @ \ {r}]
  /\ UNCHANGED <<market, maxSupply, share>>

\* AddKCoinReferences; a reference serves one kCoin.
AddReference(k, r) ==
  /\ \A l \in KCoins : r \notin refs[l]
  /\ refs' = [refs EXCEPT ![k] = @ \cup {r}]
  /\ UNCHANGED <<market, maxSupply, share>>

UpdateStakingShare(s) ==
  /\ share' = s
  /\ UNCHANGED <<market, refs, maxSupply>>

Transaction ==
  /\ InTx
  /\ txs < MaxTxs
  /\ txs' = txs + 1
  /\ \/ OthersTrade
     \/ \E k \in KCoins, m \in MaxSupplies : UpdateKCoinSupply(k, m)
     \/ \E k \in KCoins, r \in Fiat : RemoveReference(k, r) \/ AddReference(k, r)
     \/ \E s \in StakingShares : UpdateStakingShare(s)
  /\ UNCHANGED <<bank, loop, history>>

Next ==
  \/ Transaction
  \/ BeginBurn
  \/ \E k \in KCoins : CheckBurn(k) \/ CheckMint(k)
  \/ BeginMint
  \/ NextBlock

Spec == Init /\ [][Next]_vars

-----------------------------------------------------------------------------
(* Correctness.                                                            *)

\* Types.  No account and no supply goes negative: a trade takes only
\* what mintTradeBurn and CheckMint have minted, burnFunds only what is there.
TypeOK ==
  /\ pools \in [Denoms -> [base: Nat \ {0}, other: Nat \ {0}]]
  /\ ratio \in [Denoms -> Nat]
  /\ refs \in [KCoins -> SUBSET Fiat]
  /\ maxSupply \in [KCoins -> MaxSupplies]
  /\ share \in StakingShares
  /\ supply \in [KCoins \cup {Base} -> Nat]
  /\ account \in [KCoins \cup {Base} -> Nat]
  /\ phase \in {"tx", "burn", "mint"}
  /\ queue \subseteq KCoins
  /\ txs \in 0..MaxTxs
  /\ blocks \in 0..MaxBlocks
  /\ traded \in [KCoins \cup {Base} -> Int]
  /\ earned \in Nat
  /\ unspent \in Nat
  /\ rewards \in Nat

\* What burnFunds and the refused trades leave balances over all blocks: the
\* kCoins outside the account are those of genesis and the ones sold, less the
\* ones bought; the base currency outside grew by what was spent and paid to the
\* stakers and shrank by what was earned.  A reward is part of what is burned
\* (burnFunds), and coins that a refused trade leaves are burned once.
SwapBooks ==
  \A d \in KCoins \cup {Base} :
    supply[d] - account[d] =
      traded[d] + IF d = Base THEN GenesisBase + rewards ELSE InitialSupply

\* burnFunds burns all the account holds of the base currency, what refused
\* trades of Burn have left included, and so pays a share of a coin only once:
\* the stakers never get more than the largest share of all that was earned and
\* left over, and half a coin for each payment.
RewardsBounded ==
  \A s \in StakingShares : (\A t \in StakingShares : t <= s) =>
    2 * Scale * rewards
      <= 2 * s * (earned + unspent) + Scale * (blocks + 1) * Cardinality(KCoins)

\* The last digits of the product and of the quotient in ConstantProductTrade,
\* times the pool that is paid into: what they add to a trade is this, divided
\* by the pool, in units of 1 / (2 * Scale * Scale) coins.
TradeDigits(from) == Scale * Scale + (Scale + 2) * from

\* The base currency that a step of Burn mints is worth no more than
\* MaxBurnAmount of a reference denom at the price of its pool
\* (calcBaseMintAmount), but for the last digits of the trade.
InflationBounded ==
  [][supply'[Base] > supply[Base] =>
       \E k \in queue \ queue' : \E r \in Highest(k) :
         (supply'[Base] - supply[Base]) * pools[r].other
           <= MaxBurnAmount * pools[r].base
                + TradeDigits(pools[r].other) \div (2 * Scale * Scale)]_vars

\* The pools value the kCoin at less than half of a reference.
HalfWorth(k) ==
  \E r \in refs[k] : pools[k].other * pools[r].base > 2 * pools[r].other * pools[k].base

\* What the last digits of two trades in a row, from a reference to the base
\* currency and on to the kCoin, may add: whole coins, none in pools of coins.
MintRounding(k, r) ==
  LET digits == pools[k].other * TradeDigits(pools[r].other)
                  + pools[r].other * TradeDigits(pools[k].base)
  IN (digits \div (pools[r].other * pools[k].base)) \div (2 * Scale * Scale)

\* Mint raises the supply of a kCoin above MaxSupply only when the ratio that
\* called for the mint is stale and the pools value the kCoin at less than half
\* of a reference: adjustForSupplyCap limits an amount of the reference denom,
\* the coins that are minted are what that amount is worth.
SupplyCap ==
  [][\A k \in KCoins :
       supply'[k] > supply[k] /\ ~HalfWorth(k) =>
         \E r \in Highest(k) : supply'[k] <= maxSupply[k] + MintRounding(k, r)]_vars
=============================================================================
