------------------------------ MODULE Liquidity ------------------------------
(***************************************************************************)
(* The liquidity pools of the dex module (x/dex/keeper: liquidity*.go,     *)
(* ratio.go, trade.go, reserve.go and the handlers of the msg server).     *)
(*                                                                         *)
(* Users add coins to PoolLiquidity; every addition is an entry of the     *)
(* liquidity store, and LiquiditySum adds the entries of a denom up.  A    *)
(* trade is routed via the base currency in two steps.  A step takes the   *)
(* bought coins from the entries, in the order of their keys, pays a fee   *)
(* to the providers and to the reserve, and gives the sold coins to the    *)
(* providers as new liquidity.  Each round of a loop of a trade is a step  *)
(* of the model.  An error rolls all of them back, but for a trade of a    *)
(* liquidation: the loop of liquidateLoan goes on with what was done until *)
(* then.  Where one side of a pair is short of coins, virtual liquidity    *)
(* keeps the price.                                                        *)
(*                                                                         *)
(* Abstracted: wallets are never short; a maximum price lowers the amount  *)
(* of a trade, and every amount is tried; discounts are 0; PoolFees, which *)
(* nothing funds, reimburses nothing.  The first BeginBlock stores every   *)
(* pair.                                                                   *)
(* PoolReserve may be sent coins by anybody, as it is not a blocked        *)
(* address; neither are PoolLiquidity and PoolTrade, to which nobody sends *)
(* coins in the model.                                                     *)
(***************************************************************************)
EXTENDS Integers, FiniteSets, Sequences, Sums, Dec

CONSTANTS
  Users,          \* accounts
  Reserve,        \* the address of the module account PoolReserve
  Base,           \* the base currency
  Others,         \* the other denoms
  KCoins,         \* denoms whose reserve coins are burned
  Unlisted,       \* denoms that are not registered
  TradeFee,       \* dex parameter (decimal)
  ReserveShare,   \* dex parameter: the reserve's part of a fee (decimal)
  DexFeeShare,    \* the vault's part of the reserve's coins, by denom (decimal)
  Factor,         \* InitialVirtualLiquidityFactor (decimal)
  MinLiquidity,   \* below it, virtual liquidity is created and decays
  Decay,          \* dex parameter VirtualLiquidityDecay (decimal)
  MinTradeAmount, \* smaller trades are refused (1000 in the code)
  Amounts,        \* amounts of a message
  InitialReserves, \* amounts of base currency the reserve may have at genesis
  Gifts,          \* denoms that are sent to the reserve by a transfer of the bank
  MaxTxs,         \* bound: number of transactions
  MaxBlocks       \* bound: number of blocks

Denoms == {Base} \cup Others
Addresses == Users \cup {Reserve}

ASSUME LiquidityAssumption ==
  /\ IsFiniteSet(Denoms)
  /\ Base \notin Others
  /\ Reserve \notin Users
  /\ KCoins \subseteq Others
  /\ Unlisted \cap Denoms = {}
  /\ Gifts \subseteq Denoms \cup Unlisted
  /\ TradeFee \in 0..Scale
  /\ ReserveShare \in 0..Scale
  /\ DexFeeShare \in [Denoms -> 0..Scale]
  /\ Factor \in Nat \ {0}
  /\ MinLiquidity \in Nat \ {0}
  /\ Decay \in 0..Scale
  /\ MinTradeAmount \in Nat
  /\ Amounts \subseteq Nat \ {0}
  /\ InitialReserves \subseteq Nat
  /\ MaxTxs \in Nat
  /\ MaxBlocks \in Nat

VARIABLES
  entries,    \* the liquidity store: a function from indexes to entries
  nextIndex,  \* LiquidityNextIndex
  liqSum,     \* LiquiditySum of each denom
  pairs,      \* virtual liquidity of each pair with the base currency
  ratios,     \* the ratio store, a function from denoms to decimals
  pool,       \* balance of PoolLiquidity
  tradePool,  \* balance of PoolTrade
  reserve,    \* balance of PoolReserve
  strays,     \* denoms of PoolReserve's coins that are not registered
  unchecked,  \* denoms CheckReserve has not reached yet
  halted,     \* BeginBlock failed
  genesis,    \* InitGenesis has run and no block has begun
  txs,        \* transactions so far
  blocks,     \* blocks so far
  stage,      \* what the running trade does next, "idle": none runs
  deal,       \* the running trade: its denoms and its fee
  step,       \* 1: to the base currency, 2: to the target
  work,       \* the variables of ExecuteTradeStep; product is history
  saved,      \* the state a failing trade falls back to
  drift,      \* history: coins credited to entries beyond those received
  dropped     \* history: taken from entries by trades that stopped halfway

book == <<entries, nextIndex, liqSum>>
prices == <<pairs, ratios>>
bank == <<pool, tradePool, reserve>>
chain == <<strays, unchecked, halted, genesis, blocks>>
trading == <<stage, deal, step, work, saved>>
vars == <<book, prices, bank, chain, txs, trading, drift, dropped>>

Entry == [denom: Denoms, address: Addresses, amount: Nat]

EntriesOf(es, d) == {i \in DOMAIN es : es[i].denom = d}

AmountIn(e, d) == IF e.denom = d THEN e.amount ELSE 0

\* What the entries of a denom add up to.
EntrySum(es, d) == SumOf([i \in DOMAIN es |-> AmountIn(es[i], d)])

Add(f, d, a) == [f EXCEPT ![d] = @ + a]

NoWork == [offer |-> 0, product |-> 0, wanted |-> 0, left |-> 0, cursor |-> 0,
           providers |-> <<>>, used |-> 0, feeLeft |-> 0, feeNext |-> 1,
           feeForReserve |-> 0, giveNext |-> 1, given |-> 0]

NoDeal == [start |-> Base, end |-> Base, fee |-> 0, liquidation |-> FALSE]

\* No snapshot is kept while no trade runs.
NoSnapshot == <<>>

Snapshot == [entries |-> entries, nextIndex |-> nextIndex, liqSum |-> liqSum,
             pool |-> pool, tradePool |-> tradePool, reserve |-> reserve,
             drift |-> drift]

-----------------------------------------------------------------------------
Init ==
  /\ entries = <<>>
  /\ nextIndex = 0
  /\ liqSum = [d \in Denoms |-> 0]
  /\ pairs = [d \in Others |-> [base |-> 0, other |-> 0]]
  /\ ratios = <<>>
  /\ pool = [d \in Denoms |-> 0]
  /\ tradePool = [d \in Denoms |-> 0]
  /\ reserve \in {[d \in Denoms |-> IF d = Base THEN r ELSE 0] : r \in InitialReserves}
  /\ strays = {}
  /\ unchecked = {}
  /\ halted = FALSE
  /\ genesis = TRUE
  /\ txs = 0
  /\ blocks = 0
  /\ stage = "idle"
  /\ deal = NoDeal
  /\ step = 1
  /\ work = NoWork
  /\ drift = [d \in Denoms |-> 0]
  /\ dropped = [d \in Denoms |-> 0]
  /\ saved = NoSnapshot

Idle == ~halted /\ stage = "idle" /\ unchecked = {}

\* Transactions are delivered after the BeginBlocker of a block.
InTx == Idle /\ ~genesis

\* GetFullLiquidityBase and GetFullLiquidityOther, for given sums and pairs.
FullBase(ls, ps, d) == ToDec(ls[Base]) + ps[d].base
FullOther(ls, ps, d) == ToDec(ls[d]) + ps[d].other

-----------------------------------------------------------------------------
(* The liquidity store.                                                    *)

\* The entries of an address, and the index that addLiquidity writes: the
\* second entry of the address, or a new one.
OwnEntries(es, d, a) == {i \in EntriesOf(es, d) : es[i].address = a}

\* The place of an index in the order of the keys, which are decimal strings: 10
\* comes before 2.  The runs stay below 100; from there on the order is that of
\* the numbers.
Place(i) ==
  CASE i < 10 -> 11 * i
    [] i >= 10 /\ i < 100 -> 11 * (i \div 10) + (i % 10) + 1
    [] OTHER -> i + 100

Rank(I, i) == Cardinality({j \in I : Place(j) <= Place(i)})

\* Faulty: every addition becomes an entry of its own.
TargetIndexNew(d, a) == nextIndex + 1

TargetIndex(d, a) ==
  LET I == OwnEntries(entries, d, a)
  IN IF Cardinality(I) >= 2 THEN CHOOSE i \in I : Rank(I, i) = 2
                            ELSE nextIndex + 1

AmountAt(i) == IF i \in DOMAIN entries THEN entries[i].amount ELSE 0

\* Faulty: the sum is raised by the new amount of the entry.
AddToBookWhole(d, a, amount) ==
  LET i == TargetIndex(d, a)
  IN /\ entries' = With(entries, i, [denom |-> d, address |-> a,
                                     amount |-> AmountAt(i) + amount])
     /\ nextIndex' = IF i > nextIndex THEN i ELSE nextIndex
     /\ liqSum' = Add(liqSum, d, AmountAt(i) + amount)

\* addLiquidity, SetLiquidity and updateLiquiditySum.
AddToBook(d, a, amount) ==
  LET i == TargetIndex(d, a)
  IN /\ entries' = With(entries, i, [denom |-> d, address |-> a,
                                     amount |-> AmountAt(i) + amount])
     /\ nextIndex' = IF i > nextIndex THEN i ELSE nextIndex
     /\ liqSum' = Add(liqSum, d, amount)

-----------------------------------------------------------------------------
(* Pairs and ratios.                                                       *)

\* Faulty: the wrong side gets the virtual liquidity.
BalancedPairSwapped(ls, d) ==
  LET base == ToDec(ls[Base])
      other == ToDec(ls[d])
  IN IF Mul(base, ratios[d]) < other
       THEN [base |-> 0, other |-> Mul(base, ratios[d]) - other]
       ELSE [base |-> Quo(other, ratios[d]) - base, other |-> 0]

\* updatePair, when the ratio is known: the side that is short of coins gets
\* virtual liquidity.
BalancedPair(ls, d) ==
  LET base == ToDec(ls[Base])
      other == ToDec(ls[d])
  IN IF Mul(base, ratios[d]) > other
       THEN [base |-> 0, other |-> Mul(base, ratios[d]) - other]
       ELSE [base |-> Quo(other, ratios[d]) - base, other |-> 0]

\* The pairs a change of the sum of d concerns: updatePair or updatePairs.
Concerned(d) == IF d = Base THEN Others ELSE {d}

\* calcVirtualAmountBase divides by the ratio: a ratio of zero is a panic.
Divisible(d) == \A o \in Concerned(d) \cap DOMAIN ratios : ratios[o] > 0

\* initPair is called for a pair without a ratio.
UpdatePairs(ls, d) ==
  /\ Divisible(d)
  /\ pairs' = [o \in Others |-> IF o \in Concerned(d) \cap DOMAIN ratios
                                  THEN BalancedPair(ls, o) ELSE pairs[o]]
  /\ ratios' = [o \in DOMAIN ratios \cup Concerned(d) |->
                  IF o \in DOMAIN ratios THEN ratios[o] ELSE Factor]

\* updateRatios, for a set of denoms.
UpdatedRatios(ls, ps, ds) ==
  LET known == {d \in ds \cap Others : FullBase(ls, ps, d) > 0}
  IN [d \in DOMAIN ratios \cup known |->
        IF d \in known THEN QuoInParts(FullOther(ls, ps, d), FullBase(ls, ps, d))
                       ELSE ratios[d]]

-----------------------------------------------------------------------------
(* Messages that add and remove liquidity.                                 *)

\* Faulty: the base currency is no exception.
BaseFirstAlways(d) == liqSum[Base] > 0

\* The first liquidity is that of the base currency.
BaseFirst(d) == d = Base \/ liqSum[Base] > 0

\* AddLiquidity of the keeper, without the transfer of the coins.
AddAndBalance(d, a, amount) ==
  /\ BaseFirst(d)
  /\ AddToBook(d, a, amount)
  /\ UpdatePairs(liqSum', d)

AddLiquidity(u, d, amount) ==
  /\ InTx
  /\ AddAndBalance(d, u, amount)
  /\ pool' = Add(pool, d, amount)
  /\ UNCHANGED <<tradePool, reserve, chain, trading, drift, dropped>>

\* removeLiquidityForAddress: the entries of the address are used up in the
\* order of their keys.  For an amount of zero, which RemoveAll asks for when
\* there is nothing to remove, the loop still visits the first entry.
Before(I, i) == SumOf([j \in {k \in I : Place(k) < Place(i)} |-> entries[j].amount])

Reached(I, d, amount) ==
  {i \in I : \/ Before(I, i) < amount
             \/ amount = 0 /\ \A j \in EntriesOf(entries, d) : Place(i) <= Place(j)}

UsedUp(I, d, amount) ==
  {i \in Reached(I, d, amount) : Before(I, i) + entries[i].amount <= amount}

RemoveLiquidityForAddress(u, d, amount) ==
  LET I == OwnEntries(entries, d, u)
  IN /\ InTx
     /\ SumOf([i \in I |-> entries[i].amount]) >= amount
     /\ amount <= pool[d]
     /\ entries' = [i \in DOMAIN entries \ UsedUp(I, d, amount) |->
                      IF i \in Reached(I, d, amount)
                        THEN [entries[i] EXCEPT !.amount = @ - (amount - Before(I, i))]
                        ELSE entries[i]]
     /\ liqSum' = Add(liqSum, d, -amount)
     /\ pool' = Add(pool, d, -amount)
     /\ UpdatePairs(liqSum', d)
     /\ UNCHANGED <<nextIndex, tradePool, reserve, chain, trading, drift, dropped>>

RemoveLiquidity(u, d, amount) == RemoveLiquidityForAddress(u, d, amount)

RemoveAllLiquidityForDenom(u, d) ==
  RemoveLiquidityForAddress(u, d,
    SumOf([i \in OwnEntries(entries, d, u) |-> entries[i].amount]))

\* PoolReserve is not a blocked address: the bank lets anybody send it coins.
SendToReserve(d, amount) ==
  /\ InTx
  /\ d \in Denoms
  /\ reserve' = Add(reserve, d, amount)
  /\ UNCHANGED <<book, prices, pool, tradePool, chain, trading, drift, dropped>>

SendUnlistedToReserve(d) ==
  /\ InTx
  /\ d \in Unlisted
  /\ strays' = strays \cup {d}
  /\ UNCHANGED <<book, prices, bank, unchecked, halted, genesis, blocks, trading, drift,
                 dropped>>

-----------------------------------------------------------------------------
(* The BeginBlocker.                                                       *)

Scarce == {d \in Others : liqSum[d] < MinLiquidity}

\* UpdateVirtualLiquidities, for one pair.
Decayed(pair) ==
  [pair EXCEPT !.other = IF @ = 0 THEN Quo(ToDec(liqSum[Base]), Factor)
                                  ELSE Mul(@, Decay)]

\* The reserve is checked in the first block and then every 1000 blocks.
BeginBlock(check) ==
  /\ Idle
  /\ blocks < MaxBlocks
  /\ blocks = 0 => check
  /\ blocks' = blocks + 1
  /\ genesis' = FALSE
  /\ pairs' = [d \in Others |-> IF d \in Scarce THEN Decayed(pairs[d]) ELSE pairs[d]]
  /\ ratios' = UpdatedRatios(liqSum, pairs', Scarce)
  /\ unchecked' = IF check THEN {d \in Denoms : reserve[d] > 0} \cup strays ELSE {}
  /\ UNCHANGED <<book, bank, strays, halted, trading, drift, dropped>>

\* CheckReserve handles the base currency first.
Due(d) == ~halted /\ d \in unchecked /\ (Base \in unchecked => d = Base)

\* sendToMoneyMarket: what the vault gets of the reserve's coins.
VaultShare(d) == RoundInt(Mul(ToDec(reserve[d]), DexFeeShare[d]))

BurnReserve(d) ==
  /\ Due(d)
  /\ d \in KCoins
  /\ reserve' = [reserve EXCEPT ![d] = 0]
  /\ unchecked' = unchecked \ {d}
  /\ UNCHANGED <<book, prices, pool, tradePool, strays, halted, genesis, blocks, trading,
                 drift, dropped>>

CheckReserveForDenom(d) ==
  /\ Due(d)
  /\ d \notin KCoins
  /\ AddAndBalance(d, Reserve, reserve[d] - VaultShare(d))
  /\ pool' = Add(pool, d, reserve[d] - VaultShare(d))
  /\ reserve' = [reserve EXCEPT ![d] = 0]
  /\ unchecked' = unchecked \ {d}
  /\ UNCHANGED <<tradePool, strays, halted, genesis, blocks, trading, drift, dropped>>

\* AddLiquidity refuses the coins (ErrDenomNotFound, ErrBaseLiqEmpty) or panics,
\* and BeginBlock fails.
CheckReserveFails(d) ==
  /\ Due(d)
  /\ d \notin KCoins
  /\ d \in Denoms => ~(BaseFirst(d) /\ Divisible(d))
  /\ halted' = TRUE
  /\ UNCHANGED <<book, prices, bank, strays, unchecked, genesis, blocks, trading, drift,
                 dropped>>

-----------------------------------------------------------------------------
(* The export of the state and its import into a new chain.                *)

\* PairRatio, a product where updateRatios has a quotient.
PairRatio(d) == Mul(FullBase(liqSum, pairs, d), FullOther(liqSum, pairs, d))

\* ExportGenesis and InitGenesis.  Entries, sums, pairs and the next index
\* come back as they were; the exported ratios are ignored, and those of the
\* stored pairs are computed anew.  An empty pair gets a nil ratio, which
\* updatePair and initPair treat as none.
Restart ==
  /\ InTx
  /\ blocks < MaxBlocks
  /\ genesis' = TRUE
  /\ ratios' = [d \in {o \in Others : FullOther(liqSum, pairs, o) > 0} |-> PairRatio(d)]
  /\ UNCHANGED <<book, pairs, bank, strays, unchecked, halted, blocks, trading, drift,
                 dropped>>

-----------------------------------------------------------------------------
(* Trades.                                                                 *)

\* getTradeFee: half the fee for each of two steps.
FeeOf(s, e) == IF Base \in {s, e} THEN TradeFee ELSE Quo(TradeFee, ToDec(2))

\* GetFullLiquidityBaseOther.
PoolFrom(f, t) == IF f = Base THEN FullBase(liqSum, pairs, t)
                              ELSE FullOther(liqSum, pairs, f)
PoolTo(f, t) == IF f = Base THEN FullOther(liqSum, pairs, t)
                            ELSE FullBase(liqSum, pairs, f)

Virtual(f, t) == IF f = Base THEN [from |-> pairs[t].base, to |-> pairs[t].other]
                             ELSE [from |-> pairs[f].other, to |-> pairs[f].base]

\* CalculateSingleMaximumTradableAmount: a set with the amount, the empty set
\* for no limit.  The limit of the second step caps what the first one yields.
SingleMaximum(f, t, cap) ==
  LET actualTo == ToDec(pool[t])
      from == ToDec(pool[f]) + Virtual(f, t).from
      to == actualTo + Virtual(f, t).to
      virtualTo == IF \E m \in cap : ToDec(m) < actualTo
                     THEN to - ToDec(CHOOSE m \in cap : TRUE)
                     ELSE Virtual(f, t).to
  IN IF virtualTo = 0 THEN {}
     ELSE {TruncateInt(QuoInParts(Mul(from, to), virtualTo) - from)}

MaximumTradable(s, e) ==
  LET second == IF e = Base THEN {} ELSE SingleMaximum(Base, e, {})
  IN IF s = Base THEN second ELSE SingleMaximum(s, Base, second)

\* checkTradePoolLiquidities.
PoolsFilled(s, e) ==
  \A d \in {s, e} \ {Base} : FullBase(liqSum, pairs, d) # 0 /\ FullOther(liqSum, pairs, d) # 0

\* ExecuteTrade up to its first step: an amount beyond the maximum is lowered
\* if the trader accepts that, or refused.
GivenAmount(s, e, amount) ==
  IF \E m \in MaximumTradable(s, e) : m < amount
    THEN CHOOSE m \in MaximumTradable(s, e) : TRUE
    ELSE amount

\* The trades of HandleLiquidations accept less.
ExecuteTrade(s, e, amount, incomplete, liquidation) ==
  LET a == GivenAmount(s, e, amount)
  IN /\ InTx
     /\ s # e
     /\ liquidation => incomplete
     /\ a < amount => incomplete /\ a > 0
     /\ a >= MinTradeAmount
     /\ PoolsFilled(s, e)
     /\ stage' = "begin"
     /\ deal' = [start |-> s, end |-> e, fee |-> FeeOf(s, e), liquidation |-> liquidation]
     /\ step' = 1
     /\ work' = [NoWork EXCEPT !.offer = a]
     /\ saved' = Snapshot
     /\ UNCHANGED <<book, prices, bank, chain, drift, dropped>>

From == IF step = 1 THEN deal.start ELSE Base
To == IF step = 1 THEN Base ELSE deal.end

\* Faulty: the price before the trade is paid.
ForwardAtPrice(from, to, offer) == TruncateInt(Quo(Mul(to, ToDec(offer)), from))

\* ConstantProduct.Forward.
Forward(from, to, offer) ==
  TruncateInt(to - QuoInParts(Mul(from, to), from + ToDec(offer)))

\* A step returns: its payout is the offer of the second step.
Return(payout) ==
  /\ stage' = IF step = 1 THEN "begin" ELSE "end"
  /\ step' = 2
  /\ work' = [NoWork EXCEPT !.offer = payout]
  /\ UNCHANGED <<deal, saved>>

\* A trade from or to the base currency has only one step with a pool.
DepositBase ==
  /\ stage = "begin"
  /\ step = 1
  /\ deal.start = Base
  /\ tradePool' = Add(tradePool, Base, work.offer)
  /\ Return(work.offer)
  /\ UNCHANGED <<book, prices, pool, reserve, chain, drift, dropped>>

WithdrawBase ==
  /\ stage = "begin"
  /\ step = 2
  /\ deal.end = Base
  /\ tradePool' = Add(tradePool, Base, -work.offer)
  /\ Return(work.offer)
  /\ UNCHANGED <<book, prices, pool, reserve, chain, drift, dropped>>

\* Forward divides by this: a zero is a panic, and the trade is rolled back.
Offered == PoolFrom(From, To) + ToDec(work.offer)

Wanted == Forward(PoolFrom(From, To), PoolTo(From, To), work.offer)

\* ExecuteTradeStep returns zeros when the offer buys nothing.
BuyNothing ==
  /\ stage = "begin"
  /\ From # To
  /\ Offered > 0
  /\ Wanted = 0
  /\ Return(0)
  /\ UNCHANGED <<book, prices, bank, chain, drift, dropped>>

BeginStep ==
  /\ stage = "begin"
  /\ From # To
  /\ Offered > 0
  /\ Wanted # 0
  /\ stage' = "take"
  /\ work' = [work EXCEPT !.wanted = Wanted, !.left = Wanted,
                          !.product = PoolFrom(From, To) * PoolTo(From, To)]
  /\ UNCHANGED <<book, prices, bank, chain, deal, step, saved, drift, dropped>>

\* One round of determineLiquidityProviders.
Ahead == {i \in EntriesOf(entries, To) : Place(i) > work.cursor}

TakeLiquidity ==
  /\ stage = "take"
  /\ work.left > 0
  /\ \E i \in Ahead :
       LET part == work.left < entries[i].amount
           used == IF part THEN work.left ELSE entries[i].amount
       IN /\ \A j \in Ahead : Place(i) <= Place(j)
          /\ entries' = IF part THEN [entries EXCEPT ![i].amount = @ - used]
                                ELSE Without(entries, {i})
          /\ liqSum' = Add(liqSum, To, -used)
          /\ work' = [work EXCEPT !.left = @ - used, !.cursor = Place(i),
               !.providers = Append(@, [address |-> entries[i].address,
                                        provided |-> ToDec(used)])]
  /\ UNCHANGED <<nextIndex, prices, bank, chain, stage, deal, step, saved, drift, dropped>>

TakenUp == stage = "take" /\ (work.left = 0 \/ Ahead = {})
Gross == work.wanted - work.left

\* A trade that fails is undone, ratios included, which only its end changes:
\* PoolLiquidity cannot pay what the entries promise, a panic, or no gas left.
\* The transaction is dropped, or the block if an EndBlocker trades.
RollBack ==
  /\ stage # "idle"
  /\ ~deal.liquidation
  /\ entries' = saved.entries
  /\ nextIndex' = saved.nextIndex
  /\ liqSum' = saved.liqSum
  /\ pool' = saved.pool
  /\ tradePool' = saved.tradePool
  /\ reserve' = saved.reserve
  /\ drift' = saved.drift
  /\ stage' = "idle"
  /\ step' = 1
  /\ deal' = NoDeal
  /\ work' = NoWork
  /\ saved' = NoSnapshot
  /\ UNCHANGED <<prices, chain, dropped>>

\* liquidateLoan skips the error and goes on: the entries stay as they are, and
\* what a first step has moved stays moved.
AbandonTrade ==
  /\ TakenUp
  /\ deal.liquidation
  /\ pool[To] < Gross
  /\ dropped' = Add(dropped, To, Gross)
  /\ stage' = "idle"
  /\ step' = 1
  /\ deal' = NoDeal
  /\ work' = NoWork
  /\ saved' = NoSnapshot
  /\ UNCHANGED <<book, prices, bank, chain, drift>>

AmountUsed == RoundInt(Mul(Quo(ToDec(Gross), ToDec(work.wanted)), ToDec(work.offer)))

\* manageFee.
FeeAmount == Mul(ToDec(Gross), deal.fee)
FeeForReserve == RoundInt(Mul(FeeAmount, ReserveShare))
FeeForProviders == RoundInt(FeeAmount) - FeeForReserve

\* The bought coins and, unless they are there already, the sold coins move
\* to PoolTrade; the fee is computed.
CollectCoins ==
  /\ TakenUp
  /\ pool[To] >= Gross
  /\ pool' = Add(pool, To, -Gross)
  /\ tradePool' = LET bought == Add(tradePool, To, Gross)
                  IN IF From = Base THEN bought ELSE Add(bought, From, AmountUsed)
  /\ stage' = "pay"
  /\ work' = [work EXCEPT !.used = AmountUsed, !.feeLeft = FeeForProviders,
                          !.feeForReserve = FeeForReserve]
  /\ UNCHANGED <<book, prices, reserve, chain, deal, step, saved, drift, dropped>>

\* One round of distributeFeeForLiquidityProviders.  What the provider has
\* provided is multiplied by the provider's fee.  Past the last provider the
\* loop would panic.
ProviderFee == Mul(TradeFee, ReserveShare)

\* Faulty: the fee is booked and stays in PoolTrade.
PayFeeKeepingCoins ==
  LET p == work.providers[work.feeNext]
      amount == IF work.feeLeft < RoundInt(p.provided) THEN work.feeLeft
                                                       ELSE RoundInt(p.provided)
  IN /\ stage = "pay"
     /\ work.feeLeft > 0
     /\ work.feeNext <= Len(work.providers)
     /\ AddToBook(To, p.address, amount)
     /\ work' = [work EXCEPT !.feeLeft = @ - amount, !.feeNext = @ + 1,
          !.providers = [work.providers EXCEPT ![work.feeNext].provided = Mul(@, ProviderFee)]]
     /\ UNCHANGED <<prices, bank, chain, stage, deal, step, saved, drift, dropped>>

PayFee ==
  LET p == work.providers[work.feeNext]
      amount == IF work.feeLeft < RoundInt(p.provided) THEN work.feeLeft
                                                       ELSE RoundInt(p.provided)
  IN /\ stage = "pay"
     /\ work.feeLeft > 0
     /\ work.feeNext <= Len(work.providers)
     /\ AddToBook(To, p.address, amount)
     /\ pool' = Add(pool, To, amount)
     /\ tradePool' = Add(tradePool, To, -amount)
     /\ work' = [work EXCEPT !.feeLeft = @ - amount, !.feeNext = @ + 1,
          !.providers = [work.providers EXCEPT ![work.feeNext].provided = Mul(@, ProviderFee)]]
     /\ UNCHANGED <<prices, reserve, chain, stage, deal, step, saved, drift, dropped>>

\* One round of distributeGivenFunds.
SumProvided == SumOf([i \in DOMAIN work.providers |-> work.providers[i].provided])

\* Faulty: the share of what was taken, not of what is left after the fees.
ShareTaken(p) == Quo(p.provided, ToDec(Gross))

ShareProvided(p) == IF SumProvided > 0 THEN Quo(p.provided, SumProvided) ELSE 0
Eligable(p) == RoundInt(Mul(ShareProvided(p), ToDec(work.used)))

Giving == stage = "pay" /\ work.feeLeft = 0
AllGiven == Giving /\ work.giveNext > Len(work.providers)

GiveFunds ==
  LET p == work.providers[work.giveNext]
  IN /\ Giving
     /\ ~AllGiven
     /\ AddToBook(From, p.address, Eligable(p))
     /\ work' = [work EXCEPT !.giveNext = @ + 1, !.given = @ + Eligable(p)]
     /\ UNCHANGED <<prices, bank, chain, stage, deal, step, saved, drift, dropped>>

\* Faulty: the base currency in between is paid out as well.
FinishStepPayingBase ==
  LET received == Add(tradePool, From, -work.used)
      payout == received[To] - work.feeForReserve
  IN /\ AllGiven
     /\ pool' = Add(pool, From, work.used)
     /\ reserve' = Add(reserve, To, work.feeForReserve)
     /\ tradePool' = [received EXCEPT ![To] = 0]
     /\ drift' = Add(drift, From, work.given - work.used)
     /\ Return(payout)
     /\ UNCHANGED <<book, prices, chain, dropped>>

\* Faulty: the reserve's fee is held back and not sent.
FinishStepKeepingFee ==
  LET received == Add(tradePool, From, -work.used)
      payout == received[To] - work.feeForReserve
  IN /\ AllGiven
     /\ pool' = Add(pool, From, work.used)
     /\ tradePool' = Add(received, To, IF To = Base THEN 0 ELSE -payout)
     /\ drift' = Add(drift, From, work.given - work.used)
     /\ Return(payout)
     /\ UNCHANGED <<book, prices, reserve, chain, dropped>>

\* The rest of ExecuteTradeStep: the sold coins move to PoolLiquidity, the
\* reserve gets its fee, and the payout is whatever PoolTrade then holds.
FinishStep ==
  LET received == Add(tradePool, From, -work.used)
      payout == received[To] - work.feeForReserve
  IN /\ AllGiven
     /\ pool' = Add(pool, From, work.used)
     /\ reserve' = Add(reserve, To, work.feeForReserve)
     /\ tradePool' = [received EXCEPT ![To] = IF To = Base THEN payout ELSE 0]
     /\ drift' = Add(drift, From, work.given - work.used)
     /\ Return(payout)
     /\ UNCHANGED <<book, prices, chain, dropped>>

\* ExecuteTrade after its steps: updateRatios.
EndTrade ==
  /\ stage = "end"
  /\ ratios' = UpdatedRatios(liqSum, pairs, {deal.start, deal.end})
  /\ stage' = "idle"
  /\ step' = 1
  /\ deal' = NoDeal
  /\ work' = NoWork
  /\ saved' = NoSnapshot
  /\ UNCHANGED <<book, pairs, bank, chain, drift, dropped>>

-----------------------------------------------------------------------------
Message ==
  /\ txs < MaxTxs
  /\ txs' = txs + 1
  /\ \/ \E u \in Users, d \in Denoms, a \in Amounts :
          AddLiquidity(u, d, a) \/ RemoveLiquidity(u, d, a)
     \/ \E u \in Users, d \in Denoms : RemoveAllLiquidityForDenom(u, d)
     \/ \E s, e \in Denoms, a \in Amounts, incomplete, liquidation \in BOOLEAN :
          ExecuteTrade(s, e, a, incomplete, liquidation)
     \/ \E d \in Gifts, a \in Amounts : SendToReserve(d, a)
     \/ \E d \in Gifts : SendUnlistedToReserve(d)

TradeStep ==
  /\ txs' = txs
  /\ \/ DepositBase \/ WithdrawBase \/ BuyNothing \/ BeginStep
     \/ TakeLiquidity \/ RollBack \/ AbandonTrade \/ CollectCoins \/ PayFee
     \/ GiveFunds \/ FinishStep \/ EndTrade

Block ==
  /\ txs' = txs
  /\ \/ Restart
     \/ \E check \in BOOLEAN : BeginBlock(check)
     \/ \E d \in Denoms : BurnReserve(d) \/ CheckReserveForDenom(d)
     \/ \E d \in Denoms \cup Unlisted : CheckReserveFails(d)

Next == Message \/ TradeStep \/ Block

Spec == Init /\ [][Next]_vars

-----------------------------------------------------------------------------
(* Properties.                                                             *)

Work == [offer: Nat, product: Nat, wanted: Nat, left: Nat, cursor: Nat,
         providers: Seq([address: Addresses, provided: Nat]), used: Nat,
         feeLeft: Nat, feeNext: Nat, feeForReserve: Nat, giveNext: Nat,
         given: Nat]

\* Types.  No balance, no sum and no virtual amount is ever negative: the
\* transfers the trade makes without a check (PoolTrade to PoolLiquidity, to
\* the reserve and to the trader) never lack the coins.
TypeOK ==
  /\ DOMAIN entries \subseteq 1..nextIndex
  /\ \A i \in DOMAIN entries : entries[i] \in Entry
  /\ nextIndex \in Nat
  /\ liqSum \in [Denoms -> Nat]
  /\ pairs \in [Others -> [base: Nat, other: Nat]]
  /\ DOMAIN ratios \subseteq Others
  /\ \A d \in DOMAIN ratios : ratios[d] \in Nat
  /\ pool \in [Denoms -> Nat]
  /\ tradePool \in [Denoms -> Nat]
  /\ reserve \in [Denoms -> Nat]
  /\ strays \subseteq Unlisted
  /\ unchecked \subseteq Denoms \cup Unlisted
  /\ halted \in BOOLEAN
  /\ genesis \in BOOLEAN
  /\ txs \in 0..MaxTxs
  /\ blocks \in 0..MaxBlocks
  /\ stage \in {"idle", "begin", "take", "pay", "end"}
  /\ deal \in [start: Denoms, end: Denoms, fee: 0..Scale, liquidation: BOOLEAN]
  /\ step \in {1, 2}
  /\ work \in Work
  /\ drift \in [Denoms -> Int]
  /\ dropped \in [Denoms -> Nat]

\* The cached LiquiditySum of a denom is the sum of its entries, also between
\* the rounds of a trade (SetLiquidity, RemoveLiquidity, updateLiquiditySum).
LiquiditySumOK == \A d \in Denoms : liqSum[d] = EntrySum(entries, d)

\* An address never has more than two entries in a denom, however often it
\* adds liquidity, earns fees or is given coins: addLiquidity merges.
EntriesBounded ==
  \A d \in Denoms, a \in Addresses : Cardinality(OwnEntries(entries, d, a)) <= 2

\* What determineLiquidityProviders has taken from the entries and not yet
\* moved, and what distributeGivenFunds has credited and not yet moved.
Taken(d) == IF stage = "take" /\ d = To THEN Gross ELSE 0
Given(d) == IF stage = "pay" /\ d = From THEN work.given ELSE 0

\* What the entries promise beyond the coins of the pool: the rounding of the
\* shares in distributeGivenFunds, less what a trade of a liquidation has taken
\* from the entries before it failed.
Excess(d) == drift[d] - dropped[d]

\* PoolLiquidity holds what the entries of a denom promise, up to the Excess:
\* no other step of a message, a trade or a block makes them differ.
PoolAccounting ==
  \A d \in Denoms : liqSum[d] + Taken(d) = pool[d] + Given(d) + Excess(d)

\* Rounding makes the sum of what distributeGivenFunds credits differ from the
\* coins that are used by half a coin for each provider, and by what the last
\* digit of a share is worth in these coins.  Only if the fees have taken all
\* that was provided, which leaves no shares, are the coins credited to nobody.
RoundingBounded ==
  AllGiven =>
    LET n == Len(work.providers)
    IN /\ 2 * Scale * (work.given - work.used) <= n * (Scale + work.used)
       /\ SumProvided > 0 =>
            2 * Scale * (work.used - work.given) <= n * (Scale + 2 * work.used)

\* What rounding the used amount to whole coins, and the last digits of its
\* share in the offer, may keep from the pool when a step is filled in part.
UsedRounding ==
  IF work.left > 0 THEN (Scale + work.offer + 1) \div 2 + work.offer \div Scale + 1
                   ELSE 0

\* A trade step never lowers the product of the two pools: what is paid out
\* is never worth more than what is given, beyond the last digit of the
\* quotient in Forward and the rounding of a step that is filled in part.
ProductKept ==
  AllGiven => (PoolFrom(From, To) + ToDec(work.used - work.given) + UsedRounding)
                * (PoolTo(From, To) + 1) >= work.product

\* Between transactions PoolTrade holds no coins of any denom but the base
\* currency: ExecuteTradeStep pays out all of it.
TradePoolClean == stage = "idle" => \A d \in Others : tradePool[d] = 0

\* A block fails, and the chain stops, for one of three reasons: somebody has
\* sent the reserve coins of a denom that is not registered, a ratio has come
\* down to zero, or neither the pools nor the reserve hold base currency.  With
\* base currency in the reserve the second addition cannot fail, as CheckReserve
\* handles it first; nothing else that messages, trades or a restart leave behind
\* makes it fail.
HaltHasCause ==
  halted => \/ strays # {}
            \/ \E d \in DOMAIN ratios : ratios[d] = 0
            \/ liqSum[Base] = 0 /\ reserve[Base] = 0

\* Coins in the accounts of the dex, and claims on them.  A trade takes effect
\* in its last step: until then the state before it counts.
Custody ==
  [d \in Denoms |-> IF stage = "idle" THEN pool[d] + tradePool[d] + reserve[d]
                    ELSE saved.pool[d] + saved.tradePool[d] + saved.reserve[d]]

Claims == IF stage = "idle" THEN liqSum ELSE saved.liqSum

Abstract == INSTANCE Exchange WITH coins <- Custody, claims <- Claims, unpaid <- dropped

\* The pools implement Exchange: however its rounds move coins between the
\* accounts, a trade changes only the coins of its two denoms, in the right
\* direction; a trade of a message that fails in the middle changes nothing, and
\* one of a liquidation leaves the coins it could not buy, but not the claims.
ImplementsExchange == Abstract!Spec

-----------------------------------------------------------------------------
(* What the tests of the repository say, and the code does not do.         *)

\* tradePoolEmpty of trade_test.go: no coins stay in PoolTrade.
TradePoolEmpty == stage = "idle" => \A d \in Denoms : tradePool[d] = 0
=============================================================================
