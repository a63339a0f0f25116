# TLA+ verification of kopi

kopi is a Cosmos SDK chain for decentralised finance: an exchange whose trades
are all routed via the base currency (`x/dex`), a money market on top of it
(`x/mm`), a module that mints and burns the chain's own stable coins around
their parity (`x/swap`), a registry of denoms (`x/denominations`) and a token
factory (`x/tokenfactory`).  This directory models all five, checks them with TLC
on small instances, and proves for every instance with TLAPS: the accounting of
the order book, the pools, the vault, the collateral, the swap module and the
token factory; that the registry of denoms stays consistent under any votes; that
the pools implement an exchange where a trade of a message happens as a whole or not
at all and no trade lowers the product of a pair beyond rounding; which blocks can
stop the chain; that minting keeps its limits; that loans are covered when they are
taken; and that liquidations take from the depositors no more than the rounding and
the coins that the code leaves behind in the collateral pool.

* [The system](#the-system)
* [The modules](#the-modules)
* [The runs](#the-runs)
* [The proofs](#the-proofs)
* [What the checks found](#what-the-checks-found)
* [What is not modelled](#what-is-not-modelled)
* [Plan](#plan)

## The system

Blocks are processed one after the other, so nothing in the code runs in
parallel.  What makes it hard is the interleaving of *messages of many users*
with the loops of the Begin- and EndBlockers over shared pools, over many
blocks:

* a message handler that returns an error or panics is rolled back as a whole;
* an error or a panic in the Begin- or EndBlocker of `x/dex` stops the chain;
* an error in the EndBlocker of `x/mm` is logged, and what was written before it
  stays written: a trade of a liquidation that fails halfway is not undone;
* all amounts are integers, all prices decimals of 18 digits, and the code rounds
  in many places, sometimes up, sometimes down, sometimes to the nearest.

The order of the EndBlockers is denominations, dex, swap, mm, tokenfactory; only
dex has a BeginBlocker (`app/app_config.go`).

| component | state | operations | interacts with |
|---|---|---|---|
| order book (`x/dex/keeper/order*.go`) | orders by index, next index, coins in `PoolOrders` | AddOrder, UpdateOrder, RemoveOrder, RemoveOrders; EndBlocker: ExecuteOrders | trades on behalf of the order's owner |
| liquidity pools (`liquidity*.go`, `ratio.go`) | entries by denom and index, sums, virtual liquidity of each pair, ratios, coins in `PoolLiquidity` | AddLiquidity, RemoveLiquidity, RemoveAllLiquidity; BeginBlocker: UpdateVirtualLiquidities | used by trades, the reserve, swap |
| trades (`trade.go`, `liquidity_providers.go`, `constant_product.go`) | coins in `PoolTrade` during a trade | Trade, and ExecuteTrade for orders, liquidations and swap | takes from and adds to the pools, pays the reserve |
| reserve (`reserve.go`) | coins in `PoolReserve` | BeginBlocker: CheckReserve, every 1000 blocks | burns kCoins, pays the vault, adds liquidity |
| deposits and redemptions (`x/mm/keeper`) | redemption requests, coins in `PoolVault`, cAssets in `PoolRedemption` | AddDeposit, Create-, Update-, CancelRedemptionRequest; EndBlocker: HandleRedemptions | shares the vault with the loans |
| loans (`x/mm/keeper`) | loans by denom and address | Borrow, RepayLoan, PartiallyRepayLoan; EndBlocker: ApplyInterest | collateral, vault |
| collateral and liquidation | collateral by denom and address | AddCollateral, RemoveCollateral; EndBlocker: HandleLiquidations | sells collateral on the dex |
| swap | what trades leave in its account | EndBlocker: Mint, Burn | trades, reserve, supply of kCoins |
| denominations | parameters | governance messages | read by all others |
| tokenfactory | factory denoms and their admins | CreateDenom, MintDenom, BurnDenom, ForceTransfer, ChangeAdmin | bank |

What makes each of them correct:

* order book: what `PoolOrders` holds is what the orders in the book escrow; an
  order that can be traded, refunded or removed never lacks its coins; one bad
  order must not stop the chain; every order ends.
* pools and trades: the cached sums agree with the entries, `PoolLiquidity` pays
  what the entries promise, a trade pays out no more than the constant product
  allows, nothing stays behind in `PoolTrade`, and a change of liquidity does not
  change a price.
* collateral and liquidation: `PoolCollateral` holds what the entries say, a loan
  falls only by coins that reach the vault, borrowing never leads straight into
  liquidation, and the nested loops of the EndBlocker end.
* swap: every coin minted is sold, burned or still in the account; inflation, the
  stakers' reward and the supply of a kCoin stay within their limits although
  parity is read from ratios that trades in other pairs have made stale.
* denominations: after any sequence of votes every name that other modules look
  up is there, and no reference serves two kCoins.
* tokenfactory: coins of a factory denom move only for their owner or the admin,
  and no denom of the factory touches the native coin.
* redemptions and loans: the vault pays only what it holds, cAssets are minted,
  escrowed and burned one for one, requests are served by priority, and no step
  of one user takes value from the others.

## The modules

| module | models | proved in | instance for TLC |
|---|---|---|---|
| `Orders` | order messages and ExecuteOrders | `Orders_proofs` | `MCOrders` |
| `Exchange` | abstract: custody and claims of the dex | `Liquidity_proofs` | as a property in `MCLiquidity` |
| `Liquidity` | liquidity messages, ratios, trades, reserve, BeginBlocker | `Liquidity_proofs` | `MCLiquidity` |
| `Vault` | one cAsset: deposits, redemptions, loans, interest, restart | `Vault_proofs` | `MCVault` |
| `Collateral` | collateral, loans against it, HandleLiquidations, prices | `Collateral_proofs` | `MCCollateral` |
| `Swap` | Burn and Mint of kCoins, parity, trade simulation | `Swap_proofs` | `MCSwap` |
| `Denominations` | the registry of denoms and its validation | `Assets_proofs` | `MCAssets` |
| `TokenFactory` | factory denoms, their admins and coins | `Assets_proofs` | `MCAssets` |
| `Dec` | `math.LegacyDec` of cosmossdk.io/math (external) | `Dec_proofs` | |
| `Sums` | sums over the stores | `Sums_proofs` | |

`PROJECT.json` maps every definition to the lines it stands for.

**Orders.**  `orders`, `nextIndex` and `pool` are the store and the balance of
`PoolOrders`; `phase` and `pending` are the loop of `ExecuteOrders`, one order
per step, in any order (the code's order is that of decimal strings).
`ExecuteOrder` is the body of the loop: an expired order is refunded and deleted,
and *the code goes on with the copy it has read*, so the same step may trade it
and write it back.  A `Market` stands for the pools: how much can be given below
the maximum price, the maximum tradable amount, whether a pool is empty, and whether
a step of a trade returns an error (`broken`), which `executeOrder` hands on to the
EndBlocker.  `SkipOrder`, `TradeOrder` and `FailOrder` are the outcomes; `failure`
is the error that stopped the chain, and `FailsWith` lists its causes in the order
in which the code meets them.  Three history
variables (`unclaimed`, `paidTwice`, `unbooked`) record what leaves the book
without leaving the pool and the other way around.

**Liquidity.**  `entries`, `nextIndex` and `liqSum` are the liquidity stores,
`pairs` the virtual liquidity, `ratios` the ratio store, `pool`, `tradePool` and
`reserve` the module accounts.  A message that adds or removes liquidity is one
step.  A trade is many: `ExecuteTrade` computes fee and maximum and takes a
snapshot; each of the two steps of the route computes what is wanted
(`BeginStep`), takes it from the entries round by round (`TakeLiquidity`), moves
the coins (`CollectCoins`), pays the fee (`PayFee`) and hands the sold coins to
the providers (`GiveFunds`), and pays out (`FinishStep`); `EndTrade` updates the
ratios.  `RollBack` restores the snapshot of a trade of a message, an order or
`x/swap` at any point: an error, a panic or no gas left.  A trade of a liquidation
(`deal.liquidation`) is never rolled back: when `PoolLiquidity` cannot pay what the
entries gave up, `AbandonTrade` leaves everything as it is, the entries of the
target lower than before and the coins where they were; `dropped` records by how
much.  The invariants therefore hold in the middle of a trade too, and after
every way it may end.  `BeginBlock` and the three reserve actions are the
BeginBlocker.  Anybody may send coins to `PoolReserve`, which is not among the
blocked addresses: `SendToReserve` for denoms of the dex, `SendUnlistedToReserve`
for others, kept in `strays`, at which `CheckReserve` fails.  `Restart` is an export and its import: everything comes back but the
ratios, which `InitGenesis` computes as the product of the two sides of a pair
(`PairRatio`); `genesis` is true until the first block after it begins.  Abstracted:
wallets are never short, discounts are 0, a maximum price only lowers the amount.

**Exchange.**  What the pools promise to the outside: coins in custody and claims
on them, both by denom.  A deposit or a withdrawal changes both alike, the
reserve spends its own coins, and a trade is *one* step that raises the coins of
one denom, lowers those of another and leaves all others alone, the base
currency in between included.  The claims move in the same
directions.  By how much is left open: sold coins may end up owed to nobody, when
the reserve takes no share or one coin is split among several providers.
`Liquidity` implements it under the mapping `Custody` (the three module accounts together) and `Claims` (the sums of the
entries), both taken from the snapshot while a trade is under way: the dozens of
transfers of a trade become visible at `EndTrade`, and a `RollBack` is a stutter.
A trade of a liquidation that is abandoned is neither: in its first step it takes
claims on the base currency away and moves no coin (`StopAtBase`), in its second the
sold coins have come in, and claims on the target are taken away (`StopAtTarget`).
`unpaid` adds these claims up.  Coins sent to the reserve are a `Donate`.

**Vault.**  One cAsset.  `requests` is keyed by `<<denom, address>>` because the
code reads and writes different denoms; `loans` are decimals.  `BeginEndBlock`
charges interest and starts `HandleRedemptions`, whose rounds are steps of their
own and pick a request that no other precedes.  `orphaned` and `residue` are
history: cAssets of requests that were overwritten, and the difference between
what a request is lowered by (rounded) and what is burned (truncated).
`Restart` exports the money market and imports it into a new chain: balances come
with the bank module, loans are kept, and of the requests those that
`GetDenomRedemptions` finds.  It looks under the base denom, where none is, so
that every request is lost and its cAssets are `forgotten` in `PoolRedemption`.
Abstracted: wallets hold any amount of the base denom, collateral is sufficient
(`Collateral` models the limit), the interest rate is any of a set.

**Collateral.**  `collateral`, `loans`, `index` and `nextIndex` are the stores (a
loan's Index is its place among the loans of its borrower), `coins` and `vault` the
module accounts.  `HandleLiquidations` is four
nested loops over borrowers, loans and collaterals; `phase`, `queue`, `order` and
`work` are its variables, and each call of `processLiquidation` is a step, because
its trade moves the prices that the next one reads.  `RepayFromSameDenom`,
`SellCollateral`, `SellFailsHalfway`, `SkipDenom` and `PanicOnEmptyPools` are its
outcomes.  An error in it is skipped and *not* rolled back: in `SellFailsHalfway`
the first step of a trade has taken the coins, and the entry still counts them.  A
trade may use less than it is given (`Unused`).  For other denoms the rest stays in
`PoolCollateral`; of the base currency, which the first step of a trade just moves
to `PoolTrade`, all that is given leaves (`Sent`), and the entry is lowered by what
the second step uses.
Three variables are history: `settled` is collateral that repaid a loan of its own
denom and stayed in `PoolCollateral`, `lost` what left it without an entry being
lowered (half a trade, unused base currency), `writtenOff` small loans.  Abstracted: the dex is a market
whose ratios move between blocks and with each sale, and whose trades yield less
or more than the ratios promise (more, when `PoolTrade` holds coins of others).
The order of the collaterals by value is any order.

**Swap.**  `pools` is the full liquidity of each pair, `ratio` the ratio store.  A
trade moves the base side of all pairs and updates the ratio of its own only, so
parity is decided on ratios that may be stale while amounts come from the pools.
`CheckBurn` and `CheckMint` are steps for one kCoin each; a refused trade
(`MintWithoutTrade`, `MintUnsold`) leaves what was minted in `account`, from where
the next `burnFunds` takes it.  Two things a reader of the code may not expect are
kept: at a parity of exactly one both Burn and Mint act, and
`calcKCoinMintAmount` divides the product of the pools by the reference ratio, so
that it mints only for ratios below one and may push a kCoin past parity.  A price
that is a simulated trade fails when the trade would pay nothing, a division by zero:
such a block has no end (`BurnSimulated`, `MintSimulated`).
Abstracted: a pool keeps the fees, where virtual liquidity limits a trade is
one of a set, and no pool is empty.

**Denominations.**  `params` holds the four lists; each message appends or changes
all entries of a name and stores the result if `Valid`, the translation of
`Params.Validate`.  Messages with the same shape are one action with the field as
a parameter.  Decimals are whole numbers, with values below, in and above the
ranges.

**TokenFactory.**  `admin` is the store, `wallet` and `supply` the bank.  A
message passes coins through the module account and leaves none there, so the
account is not a variable.  The fee of the default parameters is nil, which is stored
and read back as zero: creating a denom is free until a vote sets a fee.
`ForceTransfer` moves nothing: the code parses the sender from the target address.

**Dec.**  A decimal is the integer `value * Scale`.  Products and quotients are
rounded half to even at the last digit, as the library does; a quotient is first
truncated at twice the precision.  `Scale` is a parameter, so the effects of the
last digit show with small numbers.

**Sums.**  A sum is the cardinality of a set of unit coins.  There is no
recursion in it, so the proofs get its laws from the theorems about finite sets.

## The runs

| run | checks | bounds |
|---|---|---|
| `orders` | TypeOK, EscrowAccounting, FailsOnlyOn, BookDrains | 2 users, 2 denoms, 2 orders of at most 2 coins, 6 blocks, every market |
| `vault` | TypeOK, RedemptionEscrow, CAssetSupply, VaultCovers, PriorityKept, HoldersKeepValue, PanicsOnlyOn | 2 users, 5 messages, 2 EndBlockers, scale 100 |
| `liquidity` | TypeOK, LiquiditySumOK, EntriesBounded, PoolAccounting, RoundingBounded, ProductKept, TradePoolClean, HaltHasCause, ImplementsExchange | 2 users, 3 denoms and one that is not registered, 4 messages, 2 blocks, scale 8 |
| `collateral` | TypeOK, CollateralAccounting, WorthKept, BorrowWithinLimit, GrowthNeedsOverpayment, LiquidationEnds | 2 users, the base currency and a denom, 6 messages or market moves, 2 blocks, scale 100 |
| `swap` | TypeOK, SwapBooks, RewardsBounded, InflationBounded, SupplyCap | 2 kCoins, 3 references, 2 markets, 2 trades or votes, 2 blocks, scale 20 |
| `assets` | RegistryTypeOK, LookupsDefined, ReferencesApart, CAssetsOfGenesis, FactoryTypeOK, SupplyHeld, NativeSupply, OnlyOwnerOrAdmin | 6 names, 2 users, 3 votes or 5 messages or a mix (a vote counts twice) |
| `orders_pool`, `orders_life`, `vault_requests`, `liquidity_trade_pool`, `collateral_withdraw`, `collateral_vault` | one statement of the code base each, violated | as above, or smaller |

**orders.**  Two orders are enough for one to be served from the coins of the
other, which is the way an error in the escrow does harm.  An order of two coins
with one coin per execution trades, waits for its interval, and trades again.
Orders live one block beyond their own, and transactions stop after block 2: the
last expiry and all trades after it fall well below `MaxHeight`, so that
`BookDrains` does not hold for want of blocks (at the last block the model stops,
and an order still there would violate it).  *EscrowAccounting* says that pool
and book differ by exactly the three leaks; *BookDrains* that every order leaves the
book unless the chain stops.  *FailsOnlyOn* is about the one order whose round stops
the chain while the book is solvent: the refund is always covered; if the trade
lacks coins, that order had expired (its copy is traded with coins that are gone); if
an amount is nil, it allows incomplete trades and met an empty pool; else the
liquidity pools failed a step of its trade, which the book cannot prevent.

Fairness: `WF_vars(EndBlock)`, used by `BookDrains` alone.  Consensus keeps
producing blocks, and the EndBlocker runs in each of them to its end; no fairness
is assumed of any user.

**vault.**  Deposits of 1, 4 and 200 coins: cAssets worth a little more or less
than a coin, and a supply in which a request for 1 cAsset is worth less than the
last digit (the panic of `PanicsOnlyOn` is reached).  Loans of 1.5 and 2.5 coins
are rounded up on their way out and leave less than `MinimumLoanSize` when 2 coins
are paid back, so that the write-off is reached.  *HoldersKeepValue* is the
property of the run: no message and no round of the EndBlocker lowers the worth
of a cAsset by more than the rounding to whole coins, except for a write-off and
for a deposit larger than everything the vault was worth before.  Both exceptions
are real: in the second, the share of the old holders has too few digits.  A
restart may happen between any two messages.

**liquidity.**  Four messages are two additions, a further one, a removal or a gift to
the reserve, and a trade through both pairs; or two trades, the second of a
liquidation.  A fee of a quarter makes the fee loops run over several
providers although the amounts are small, and a scale of 8 rounds shares by as much as
a coin, which on the chain takes many trades.  *PoolAccounting* states
to the coin how pool and entries differ, in the middle of every trade;
*RoundingBounded* bounds what one step can add to that difference: half a coin for
each provider, and the last digit of its share (if the fees have taken everything
that was provided, there are no shares, and the coins go to nobody);
*ProductKept* says that a trade step never lowers the product of the pools beyond
the last digit of a quotient and, when it is filled in part, the rounding of the
amount used (`UsedRounding`).

A trade of a liquidation fails where the entries promise more coins than
`PoolLiquidity` has, after shares were rounded up.  The run has such failures in the
second step;
*PoolAccounting* then says that the entries fall by just what `dropped` records while
the coins stay.  A failure in the first step needs more messages than the run has; the
theorems cover it.

*HaltHasCause* says what may make the BeginBlocker fail and stop the chain: coins of a
denom that is not registered in `PoolReserve`, which anybody may send there; a ratio
of zero; or no base currency in the pools and none in the reserve.  The run reaches
all three, each without the other two: virtual liquidity decays to an eighth in a
block, which takes a ratio below the last digit where the code needs millions of
blocks.

A restart may happen in the first
block, after any of the messages; the ratios it computes move prices far, and all
invariants hold with them: the pools can still be balanced, traded with and
emptied.  The keys of entries are decimal strings: `Place` gives their order for
indexes below 100, which the run does not exceed.

*ImplementsExchange* is the refinement: a trade of a message happens as a whole or not
at all, in the direction its trader asked for, at any point a rollback may strike; one
of a liquidation may stop halfway, and takes from the claims on one denom only.

**collateral.**  Six messages are collateral in both denoms, a loan in both, and
the fall of a price or of a loan-to-value; the second block lets users act on what
a liquidation has left.  A yield of 80% leaves a borrower under water, one of 200%
repays beyond the excess, which the next collateral, and the next loan, find negative.
A sale uses all it is given or one coin less, of the base currency too.
*WorthKept* says that a step takes at most the rounding of one coin from the
depositors of a denom, and in one case the coins that step leaves in
`PoolCollateral`: collateral of the loan's own denom lowers the loan, and no code ever
moves it to the vault (`settled` is no part of `Worth`).  Without that case it is the
comment of `liquidateLoan`, which `collateral_vault` refutes.  *GrowthNeedsOverpayment*
says that the collateral of a borrower grows in a liquidation (which it does, by a
negative amount) only after a loan was repaid beyond its excess, and by no more coins
than were collected for the loan if that loan is the present one; *BorrowWithinLimit*
that no loan is due for liquidation the moment it is taken, up to the last digits of
two divisions and of the prices.

Fairness: `WF_vars(Liquidation)`, used by `LiquidationEnds` alone: the EndBlocker
is a function call that nothing interrupts, and its loops run until they end or
panic.  The beginning of a block is not assumed.

**swap.**  The first market is near parity with a small pool of one kCoin, where
base currency that leaves through another pair makes the ratio stale enough for a
mint beyond the cap; in the second the kCoin is below parity.  *SupplyCap* carries
that exception: `adjustForSupplyCap` limits an amount of the reference denom, and
the coins that are minted are what that amount buys.  *SwapBooks* accounts for
every coin over all blocks, *RewardsBounded* excludes that what refused trades
leave is rewarded twice, *InflationBounded* bounds what Burn mints by
`MaxBurnAmount` at the price of the reference pool.  Both bounds carry the last digits
of the trades they pass through (`TradeDigits`, `MintRounding`), which are no whole
coin in the markets of the run.

**assets.**  The two components share no state; their messages interleave in one
run.  The limits of a kCoin that is added, its factor and its minimum liquidity
vary apart from each other.  Three votes suffice to add a denom, make it the reference of a kCoin and
remove it or name it again elsewhere, in any order; five messages set a fee,
create denoms for two admins, mint, hand over the office and burn.
*CAssetsOfGenesis* states a consequence of the validation that the messages do not
suggest: `AddCAsset` never succeeds.

No run checks for deadlock: the models stop at their bounds, and the chain really
stops where an EndBlocker fails.

Each property of a passing run has a mutant in `PROJECT.json`: a change of one
mapped definition, kept next to it under a name of its own, that violates it.

## The proofs

TLAPS checks the following for all values of the constants that satisfy the
assumptions of the modules (`OrdersAssumption`, `VaultAssumption`,
`LiquidityAssumption`, `CollateralAssumption`, `PriceAssumption`,
`SwapAssumption`, `RegistryAssumption`, `FactoryAssumption`, `ScaleAssumption`).
They say that amounts are naturals, that shares lie between 0 and 1, that `Scale` is
an even number, that users and denoms are finite where something is summed over
them, that the name of the native coin has no factory prefix, that the parameters
of the registry at genesis are valid, and that the references of kCoins at genesis
do not overlap.  The numbers that votes carry, and the amounts and fees of the token
factory, are any integers.  One of
them is about size: `PriceAssumption` excludes ratios above 2 * 10^36, whose inverse
rounds to zero and makes `CalculatePrice` fail.

| module | theorem | states |
|---|---|---|
| `Orders_proofs` | `OrdersTypeCorrect` | `Spec => []TypeOK` |
| | `OrdersEscrow` | `Spec => []EscrowAccounting` |
| | `OrdersFailure` | `Spec => FailsOnlyOn` |
| `Vault_proofs` | `VaultTypeCorrect` | `Spec => []TypeOK`: no balance is ever negative |
| | `VaultEscrow`, `VaultSupply` | `Spec => []RedemptionEscrow`, `Spec => []CAssetSupply` |
| | `VaultCovered` | `Spec => []VaultCovers` |
| | `VaultPriority` | `Spec => PriorityKept` |
| | `VaultPanics` | `Spec => PanicsOnlyOn` |
| `Liquidity_proofs` | `Invariance` | `Spec => []Inv` |
| | `TypeCorrect` | `Spec => []TypeOK` |
| | `LiquiditySumCorrect` | `Spec => []LiquiditySumOK` |
| | `EntriesStayBounded` | `Spec => []EntriesBounded` |
| | `PoolsAccountedFor` | `Spec => []PoolAccounting` |
| | `TradePoolStaysClean` | `Spec => []TradePoolClean` |
| | `PoolsImplementExchange` | `Spec => ImplementsExchange`: the refinement |
| | `ProductStaysKept` | `Spec => []ProductKept` |
| | `RoundingStaysBounded` | `Spec => []RoundingBounded` |
| | `ChainHalts` | `Spec => []HaltHasCause` |
| `Collateral_proofs` | `Invariance` | `Spec => []Inv` |
| | `TypeCorrect` | `Spec => []TypeOK` |
| | `CollateralAccountedFor` | `Spec => []CollateralAccounting` |
| | `DepositorsKeepTheirWorth` | `Spec => WorthKept` |
| | `LoansAreCovered` | `Spec => BorrowWithinLimit` |
| | `CollateralGrowsByOverpayment` | `Spec => GrowthNeedsOverpayment` |
| `Swap_proofs` | `Invariance` | `Spec => []Inv` |
| | `TypesCorrect` | `Spec => []Types` |
| | `BooksBalance` | `Spec => []SwapBooks` |
| | `RewardsStayBounded` | `Spec => []RewardsBounded` |
| | `InflationStaysBounded` | `Spec => InflationBounded` |
| | `SupplyStaysCapped` | `Spec => SupplyCap` |
| `Assets_proofs` | `RegistryTypeCorrect` | `RegistrySpec => []RegistryTypeOK` |
| | `RegistryLookups` | `RegistrySpec => []LookupsDefined` |
| | `RegistryReferences` | `RegistrySpec => []ReferencesApart` |
| | `RegistryCAssets` | `RegistrySpec => []CAssetsOfGenesis` |
| | `FactoryTypeCorrect` | `FactorySpec => []FactoryTypeOK` |
| | `FactorySupply`, `FactoryNative` | `FactorySpec => []SupplyHeld`, `FactorySpec => []NativeSupply` |
| | `FactoryOnlyOwnerOrAdmin` | `FactorySpec => OnlyOwnerOrAdmin` |

*Orders.*  `TypeOK` becomes inductive with `PhaseOK` (no loop is under way
between blocks).  The escrow is proved denom by denom: every action changes the
sum over the book by the one order it writes, or by the orders it removes, and
the history variables by the rest.  A solvent book that is short of a refund, or of
coins for an order that has not expired, contradicts `EscrowAccounting`, because the
pool then holds at least what the order has left; the other causes carry their
condition in `FailsWith`, for the very order that failed.

*Vault.*  None of the four invariants is inductive alone: that `escrow` and
`supply` stay naturals needs the accounts, the accounts need that rounding never
takes more than the request has, and that needs the types.  `VInv` is their
conjunction with `PhaseOK`, whose last part says that while coins are left to be
paid, no request that still exists has been passed over.  `Dec_proofs` supplies
the arithmetic for every `Scale`: rounding half to even stays below any whole
bound, a product with a share of at most one is no increase, a quotient of a part
by the whole is at most one and of equals is one.  From these,
`RedemptionBounds`: fee and payout together are at most what was redeemed, the
cAssets used are at most those of the request, and exactly those when it is paid
in full.  The last fact gives `PhaseOK` and with it `VaultPriority`.

`Restart` removes requests and adds what they held to `forgotten`; that the parts
add up is a law of sums (`RestartKeeps`).

`PanicsOnlyOn` is about one step.  The code divides by the worth of the cAssets that
a request redeems, and `ZeroValueCause` goes back through the two divisions that
give this worth: a quotient that rounds to zero has a dividend below half a last
digit (`QuoZero`), a product of positive factors that vanishes has small ones.

*Liquidity.*  `Inv` has one part for each thing a trade in progress could break.
`BookOK` is the book (indexes, sums, two entries per address), written with
parameters because it must hold of the current stores *and* of the snapshot:
`SavedOK` says that what `RollBack` restores is a state between transactions, which
is all that a rollback needs, wherever it strikes.  `AbandonTrade` restores nothing,
and needs that `dropped` grows by what the entries have given up.  `WorkOK` and `DealOK` say where
the loops over providers are (never more is taken than is wanted), `FlowOK` what
`PoolTrade` holds in each stage: the coins that a step still has to move are there,
and only the base currency, which is in between, may be left over.  With these,
`PoolAccounting` is kept by each transfer.  That amounts are naturals rests on
arithmetic: a fee is at most what it is taken from, and the amount that a trade
computes from the product of the pools, rounded, is not negative.

The refinement has one more part, `Progress`: while a trade is under way, coins and
claims of its two denoms have moved in its direction only, those of all denoms but
the base currency in between are as in the snapshot, and what has been taken from
the providers covers what they may get back as fees.  `Untaken` is for the trades that
stop: until coins are collected in the first step nothing has moved at all, and until
they are in the second, nothing of the target.  Each action then is a stutter
of `Exchange` (all steps of a trade but the last, a rollback, a restart), a deposit,
a withdrawal, a gift, a payment of the reserve, for `EndTrade` one whole `Trade`, and
for `AbandonTrade` a `StopAtBase` or a `StopAtTarget`.

The last three theorems add to `Inv` one invariant each.  `ProductOK` remembers the pools at the beginning of a trade step
through all its rounds: `work.product` is their product, and until the coins are paid
in, they are what the step has read.  Then `StepKeepsProduct` is arithmetic.  A step
that is filled as a whole pays out the quotient of `Forward`, which misses the curve
by a last digit (`ForwardProduct`); one filled in part pays out less for a share of
the offer, a point below the chord of the curve (`PartialProduct`, `UsedAtLeast`).
`GivenOK` says how far each provider's share is from the exact one and that the
shares handed out so far miss the exact part of the used amount by at most one
`ShareNear` for each of them; over all providers the exact parts make up the whole
(`SharesAddUp`).  `HaltOK` says that `CheckReserve` goes past the base currency only when
the reserve has none left, and meets unknown denoms only among the strays.  A failing
block therefore has one of the three causes: with positive ratios, and base currency
in the pools or in the reserve, every registered denom can be added.

*Collateral.*  `liquidateLoan` pays back what was repaid beyond a loan without
looking at the vault.  That the coins are there is `RepaidOK`: the excess that is
left and what is repaid so far do not pass the loan together, so that collateral of
the loan's own denom, which brings the vault no coins, repays no more than the loan;
and what has been repaid beyond the loan has come in by a sale.  Neither the ratios
nor the yield of a trade matters.  `LoopOK` says that the loops work on loans and
collateral that exist, `PricesOK` that all of them have prices (a queue is only built
when every collateral denom has a ratio), `IndexOK` that the next loan to look at is
determined.  `CollateralAccounting` changes by one entry at a time; a sale takes at
least what it uses, and `lost` takes up what left beyond that.

`WorthKept` follows step by step from `Inv`.  Coins that a liquidation collects
count for the loan until `FinishLoan` books them (`Pending`), so that the rounds of
the loop leave the worth as it is; `FinishLoan` and `Borrow` round a payout by less
than one coin; `RepayFromSameDenom` adds to `settled` what it lowers the worth by; in
`BeginEndBlock` interest raises a loan or it is written off, and
the sum over the loans splits accordingly.

`BorrowWithinLimit` compares two conversions that are not inverse to each other:
`BorrowableAmount` divides by the price from the base currency (`FromBase`), the worth
of the loan is a quotient by the price to it (`ToBase`), which is the rounded inverse of
the first.  `BoughtWorth` bounds what n free coins buy, `LoanDigits` what that adds to
the worth of a loan, and `LoanBaseValueSet` carries it to the sum over all loans of the
borrower.  `ExcessOK` is the invariant behind `GrowthNeedsOverpayment`: what is left of
an excess and what was collected for it add up to the excess at the beginning, so that
a negative rest is never larger than what was collected.

*Swap.*  The books and the rewards need that every amount is an integer and that a trade pays
out no debt, although the amounts come from four divisions, two rounding rules and a
square root.  No price is zero (`Priced`, where the code returns `ErrZeroPrice` or
divides by zero), a pool pays out no more than it has if at least half a coin is
offered (`BoughtNat`), and the square root exists, because a set of naturals has a
least element (`Least`).  `Paid` makes `RewardsBounded` inductive: what is still in
the account has not been paid a share of, and each kCoin is served once a block.
`TypesCorrect` states `TypeOK` but for the sign of `supply`.

The last two are about what a trade pays at most.  `BoughtBounded` carries the two
roundings of `ConstantProductTrade` through, `TradePays` turns them into a price: the
offer at the ratio of the pools, and `TradeDigits` more.  Burn makes one such trade
with at most `MaxBurnAmount` coins (`BurnLimit`); Mint makes two (`TwoTrades`), with at
most half the room below the cap, and the pools value a coin of the reference at no
more than two kCoins (`MintLimit`).  Fees only lower the result (`NetPaid`).

*Denominations.*  `RInv` is the type of the parameters and `Valid(params)`.  Every
message ends in `Save`, which stores nothing that does not pass the validation, so
that `LookupsDefined` and the limits of `RegistryTypeOK` follow from `Valid` after any
votes; what takes a proof is that the messages build lists of the right type, with the
loop of `filterReferences` among them (`UpTo`, as induction over its rounds), and that
`ReferencesApart`, a statement on pairs of kCoins, follows from `seen`, a list of all
names.  For `CAssetsOfGenesis` each message that changes a cAsset keeps its name, and
the one that adds one is never valid.

*TokenFactory.*  `FInv` is the conjunction of types, `SupplyHeld` and
`NativeSupply`.  That a supply stays a natural when coins are burned needs
`SupplyHeld` (the wallet that pays is part of the supply), which needs the types;
`NativeSupply` needs that a factory denom is never the native coin, the assumption
on names.  `OnlyOwnerOrAdmin` is proved action by action from the types.

*Sums and folds.*  `Collateral` sums decimals with `FoldFunction`, which is
recursive.  `FoldIsSum` shows that this is the sum of `Sums`, for every finite
domain.  Induction is not available as a rule, so the proof takes a smallest set on
which fold and sum differ (`Least`) and removes one element.

Only model-checked:

* `BookDrains` and `LiquidationEnds`: liveness is out of the prover's reach;
* `HoldersKeepValue` of `Vault`: a non-linear bound on several roundings in a row;
* the sign of `supply` in `TypeOK` of `Swap`: a supply stays a natural because
  traders sell only what they hold, and wallets are not modelled.

What the proofs changed in the models:

* `Exchange` promised that the claims on the sold denom rise by no less than its
  coins, up to the reserve's share.  The step from `EndTrade` could not be proved, and is false:
  when the reserve takes no share, or one coin is split among three providers, sold
  coins stay in the pools and are owed to nobody.  The conjunct is gone; what
  `Exchange` now says is what the code does.
* `Quo` rounded negative quotients toward minus infinity before the last digit,
  where `LegacyDec.Quo` truncates toward zero.  The excess of a loan may be
  negative, so it mattered to `Collateral`.
* `Burn` and `Mint` at a price of zero were a step; they are an error or a division
  by zero in the code, and now disabled (`Priced`).
* `RoundingBounded` was false outside the run: for a reserve that takes all fees when
  the fee is everything (no shares are left, and the coins go to nobody), and for
  amounts with more coins than `Scale` has units, where the last digit of a share is
  worth a coin.  It now states the bound that the code keeps.  `ProductKept` was false
  for such amounts too: the share of a step that is filled in part has a last digit,
  which `UsedRounding` now counts.
* `InflationBounded` and `SupplyCap` left out the last digits of the trades, and were
  false for pools of many coins and trades without a fee.
* `BorrowWithinLimit` allowed two last digits.  The price the limit is computed with
  and the price a loan is valued at are each rounded, and the difference counts once
  for every coin: for a few hundred coins it is more (`PriceDigits`).
* `GrowthNeedsOverpayment` blamed an earlier loan alone for collateral that grows.  A
  sale that yields twice its worth makes the excess of the same loan negative, and
  the next collateral, if it is the loan's own denom, grows.  The run now has such
  sales.
* `validateKCoins` was a flattened list of names, and `filterReferences` a selection.
  Both are now what the code is: one entry in `seen` for each kCoin and each
  reference, and a loop that appends.
* The rank of a loan was a sequence of loans.  The Index of the code is a number,
  and that no two loans share one is now part of `TypeOK`.

## What the checks found

Each of these is a run that TLC ends with a counterexample; `PROJECT.json` quotes
the line of the repository that says otherwise.

* `orders_pool`: RemoveOrders deletes orders and keeps their coins.
* `orders_life`: an expired order is refunded, then executed from its stale copy
  with the coins of others, and stored again.
* `vault_requests`: the check for an existing redemption request uses another key
  than the store; a second request overwrites the first and strands its cAssets.
* `liquidity_trade_pool`: base currency that the second step of a trade does not
  use stays in `PoolTrade`, and the next trader to the base currency gets it.
* `collateral_vault`: a loan is repaid with collateral of its own denom, and the coins
  stay in `PoolCollateral`, although "Sold collateral is sent to the vault".
* `collateral_withdraw`: RemoveCollateral checks no loan, although a query
  computes, and a test expects, that a loan limits what can be withdrawn.

The passing runs carry what they found as exceptions or history: requests lost by
an export (`forgotten`), collateral taken by half a trade or beyond what a sale of the
base currency used (`lost`), collateral that
repays a loan and never reaches the vault (`settled`), claims of liquidity providers
taken by a liquidation that failed (`dropped`), a mint beyond the cap
(`HalfWorth` in `SupplyCap`), `AddCAsset` without effect, rounded shares that
promise more than the pool has received (`PoolAccounting`, `RoundingBounded`).

## What is not modelled

* Queries, command line, genesis scaffolding, simulation, generated code: they
  read or wire, and decide nothing.
* The parameters of dex and mm: one validated write each; the models take them as
  constants that satisfy the validation.
* The genesis of swap, denominations and tokenfactory beyond `Init`; orders come
  back from an export as they were.
* Trade amounts and discounts: a counter per wallet that only lowers a fee.
* `RemoveLiquidityForModule` and `RemoveAllLiquidityForModule`: only Burn calls
  them, behind a look-up by the name of the reserve's account that finds nothing.
* Transfers of the bank to `PoolLiquidity`, `PoolTrade` and the account of the token
  factory: they add coins that no entry counts, and those in `PoolTrade` go to the next
  trader, as the residues of `liquidity_trade_pool` do.
* Liquidations in `Vault`: `HoldersKeepValue` holds between them, and what one costs
  the depositors is `WorthKept` of `Collateral`.
* Empty pools in `Swap`: Mint ends with an error, Burn panics at a nil amount.
* What `ForceTransfer` should do: it has no property of its own, since nothing moves
  and no text of the repository says whose coins should.
* That a trade leaves the ratios of other pairs stale is in `Liquidity` and in `Swap`,
  where `SupplyCap` carries what follows for a mint; by how much the next addition of
  liquidity then moves a price is not stated as a property.
* Events, statistics and the texts of errors.
* `AmountGiven` of orders, which only events report.
* The widths of integers: `math.Int` has 256 bits and panics beyond, far above
  any supply.

Of the 240,000 lines of Go in the repository, about 224,000 are generated from
protobuf files (`*.pb.go`, `*.pulsar.go`, `*.pb.gw.go`).  They marshal messages and
have no behaviour to model.  The hand-written modules under `x/` have about 13,000
lines without tests, queries included; the map covers the keepers, message
servers, validations and block handlers among them.

## Plan

Trade amounts and discounts are left to be modelled, in `Liquidity`; a proof of
`HoldersKeepValue` needs a bound for the roundings of a deposit and a redemption in a
row.
