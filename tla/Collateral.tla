----------------------------- MODULE Collateral -----------------------------
(***************************************************************************)
(* Collateral and liquidations of the money market (x/mm/keeper:           *)
(* collateral.go, msg_server_collateral.go, ltv.go, loans.go, liquidate.go *)
(* and price.go of the dex).                                               *)
(*                                                                         *)
(* Collateral lies in PoolCollateral; a loan is paid from PoolVault if the *)
(* collateral is worth it.  At the end of a block HandleLiquidations sells *)
(* collateral of every borrower whose loans are worth more than the        *)
(* collateral allows, and lowers the loans by the proceeds.  One call of   *)
(* processLiquidation is a step of the model, as its trade changes the     *)
(* prices the next one uses.  An error is not rolled back.  A trade is     *)
(* routed via the base currency: a sale of the base currency moves all     *)
(* that is given in its first step, and books what the second one used.    *)
(*                                                                         *)
(* Abstracted: the dex is a market.  It has a ratio for each denom (units  *)
(* per unit of the base currency, which is a denom with the fixed ratio    *)
(* 1), and a trade uses all of what is given or a bit less, and yields     *)
(* some part of what the ratios promise, or more when PoolTrade holds      *)
(* coins of others.  Deposits and redemptions, which share the vault, are  *)
(* in Vault; wallets are never short.                                      *)
(***************************************************************************)
EXTENDS Integers, FiniteSets, Sequences, Functions, SequencesExt, Sums, Dec

CONSTANTS
  Users,             \* accounts
  Denoms,            \* denoms of the dex, each the base denom of a cAsset
  Base,              \* the base currency
  InitialCollateral, \* the denoms that are collateral at genesis
  InitialRatios,     \* the ratios at genesis, 0: no ratio is stored
  VaultFunds,        \* what depositors have put into the vault, by denom
  Amounts,           \* amounts of collateral in a message
  LoanAmounts,       \* amounts of a loan or a repayment (decimals)
  Ratios,            \* ratios of the market (decimals)
  Ltvs,              \* loan-to-value ratios governance may set (decimals)
  Caps,              \* deposit caps governance may set
  Yields,            \* parts of a trade's value that it may yield (decimals)
  Depths,            \* maximal amounts of a trade that the market may have
  Unused,            \* amounts that a trade may leave unused of what is given
  Rates,             \* interest rates per block (decimals)
  Discount,          \* mm parameter CollateralDiscount (decimal)
  BorrowLimit,       \* cAsset parameter (decimal), 0: no limit
  MinimumLoanSize,   \* cAsset parameter
  MinTradeAmount,    \* smaller trades are refused (1000 in the code)
  MaxTxs,            \* bound: number of transactions and market moves
  MaxBlocks          \* bound: number of blocks

ASSUME CollateralAssumption ==
  /\ IsFiniteSet(Users)
  /\ Users # {}
  /\ IsFiniteSet(Denoms)
  /\ Base \in Denoms
  /\ InitialCollateral \subseteq Denoms
  /\ InitialRatios \subseteq {f \in [Denoms -> Nat] : f[Base] = Scale}
  /\ VaultFunds \in [Denoms -> Nat]
  /\ Amounts \subseteq Nat \ {0}
  /\ LoanAmounts \subseteq Nat \ {0}
  /\ Ratios \subseteq Nat \ {0}
  /\ Ltvs \subseteq 0..Scale
  /\ Caps \subseteq Nat
  /\ Yields \subseteq Nat
  /\ Depths \subseteq Nat
  /\ Unused \subseteq Nat
  /\ Rates \subseteq Nat
  /\ Discount \in 0..Scale
  /\ BorrowLimit \in Nat
  /\ MinimumLoanSize \in Nat
  /\ MinTradeAmount \in Nat \ {0}
  /\ MaxTxs \in Nat
  /\ MaxBlocks \in Nat

\* No denom is worth so little that the price of the base currency in it rounds
\* to zero (a ratio of 2 * 10^36), where CalculatePrice divides by zero or
\* returns ErrZeroPrice.
ASSUME PriceAssumption ==
  /\ \A r \in Ratios : Quo(Scale, r) > 0
  /\ \A f \in InitialRatios, d \in Denoms : f[d] > 0 => Quo(Scale, f[d]) > 0

VARIABLES
  collateral,  \* the collateral store, by denom and address, 0: no entry
  coins,       \* balance of PoolCollateral
  loans,       \* the loan store, by denom and address (decimals), 0: no entry
  index,       \* the Index of each loan, 0: no entry
  nextIndex,   \* the Index of the next loan
  vault,       \* balance of PoolVault
  ltv,         \* collateral denoms and their loan-to-value
  cap,         \* MaxDeposit of each collateral denom
  ratio,       \* the ratio store of the dex, 0: no entry
  dry,         \* the base currency has no liquidity: every pool is empty
  phase,       \* "tx", and the loops of HandleLiquidations
  queue,       \* borrowers that are not handled yet
  order,       \* getCollateralDenomsByValue
  work,        \* the variables of handleBorrowerLiquidation and liquidateLoan
  halted,      \* the EndBlocker panicked
  txs,         \* transactions and market moves so far
  blocks,      \* blocks so far
  settled,     \* history: repaid from collateral of the loan's own denom
  lost,        \* history: collateral coins that trades took and nothing booked
  writtenOff   \* history: loans below the minimum size (decimals)

loanStore == <<loans, index, nextIndex>>
positions == <<collateral, loanStore>>
banks == <<coins, vault>>
market == <<ratio, dry>>
params == <<ltv, cap>>
handling == <<phase, queue, order, work, halted>>
history == <<settled, lost, writtenOff>>
vars == <<positions, banks, market, params, handling, txs, blocks, history>>

NoWork == [user |-> CHOOSE u \in Users : TRUE, excessBase |-> 0, excess |-> 0,
           repaid |-> 0, loansLeft |-> {}, denomsLeft |-> <<>>]

PerDenom(x) == [d \in Denoms |-> x]
PerUser(x) == PerDenom([u \in Users |-> x])

Init ==
  /\ collateral = PerUser(0)
  /\ coins = PerDenom(0)
  /\ loans = PerUser(0)
  /\ index = PerUser(0)
  /\ nextIndex = 1
  /\ vault = VaultFunds
  /\ \E l \in Ltvs : ltv = [d \in InitialCollateral |-> l]
  /\ \E m \in Caps : cap = [d \in InitialCollateral |-> m]
  /\ ratio \in InitialRatios
  /\ dry = FALSE
  /\ phase = "tx"
  /\ queue = {}
  /\ order = <<>>
  /\ work = NoWork
  /\ halted = FALSE
  /\ txs = 0
  /\ blocks = 0
  /\ settled = PerDenom(0)
  /\ lost = PerDenom(0)
  /\ writtenOff = PerDenom(0)

InTx == ~halted /\ phase = "tx" /\ blocks < MaxBlocks

SumDec(f) == FoldFunction(LAMBDA x, y : x + y, 0, f)

Add(f, d, a) == [f EXCEPT ![d] = @ + a]

-----------------------------------------------------------------------------
(* Values.                                                                 *)

\* CalculatePrice from a denom to the base currency and back: both divide
\* twice, so that the price is not quite the ratio.
FromBase(d) == Quo(Scale, ratio[d])
ToBase(d) == Quo(Scale, Quo(Scale, ratio[d]))

\* GetValueIn, for whole coins.
ValueInDenom(d, amount) == IF amount = 0 THEN 0 ELSE Quo(ToDec(amount), FromBase(d))
ValueInBase(d, amount) == IF amount = 0 THEN 0 ELSE Quo(ToDec(amount), ToBase(d))

\* A stored ratio is needed for every denom of the position.
Priced(u) == \A d \in Denoms : loans[d][u] > 0 \/ collateral[d][u] > 0 => ratio[d] > 0

\* calculateCollateralBaseValue and calculateLoanBaseValue.
CollateralBaseValue(u) ==
  SumDec([d \in {c \in DOMAIN ltv : collateral[c][u] > 0} |->
            Mul(Quo(ToDec(collateral[d][u]), ToBase(d)), ltv[d])])

LoanBaseValue(u) ==
  SumDec([d \in {c \in Denoms : loans[c][u] > 0} |-> Quo(loans[d][u], ToBase(d))])

\* Faulty: what is borrowed already is left out.
BorrowableInTotal(u, d) == ValueInDenom(d, TruncateInt(CollateralBaseValue(u)))

\* calculateBorrowableAmount.
BorrowableAmount(u, d) ==
  LET free == CollateralBaseValue(u) - LoanBaseValue(u)
  IN ValueInDenom(d, IF free < 0 THEN 0 ELSE TruncateInt(free))

-----------------------------------------------------------------------------
(* Collateral messages.                                                    *)

\* SetCollateral and SetLoan remove an entry that is not positive.
Kept(amount) == IF amount <= 0 THEN 0 ELSE amount

\* The cap is not looked at while PoolCollateral has no coins of the denom.
WithinCap(d, amount) == coins[d] > 0 => coins[d] + amount <= cap[d]

AddCollateral(u, d, amount) ==
  /\ InTx
  /\ d \in DOMAIN ltv
  /\ WithinCap(d, amount)
  /\ collateral' = [collateral EXCEPT ![d][u] = @ + amount]
  /\ coins' = Add(coins, d, amount)
  /\ UNCHANGED <<loanStore, vault, market, params, handling, blocks, history>>

\* Faulty: the coins are sent before the amount is compared with the entry.
RemoveCollateralUnchecked(u, d, amount) ==
  /\ InTx
  /\ d \in DOMAIN ltv
  /\ collateral[d][u] > 0
  /\ amount <= coins[d]
  /\ collateral' = [collateral EXCEPT ![d][u] = Kept(@ - amount)]
  /\ coins' = Add(coins, d, -amount)
  /\ UNCHANGED <<loanStore, vault, market, params, handling, blocks, history>>

\* No loan is looked at.
RemoveCollateral(u, d, amount) ==
  /\ InTx
  /\ d \in DOMAIN ltv
  /\ collateral[d][u] > 0
  /\ amount <= collateral[d][u]
  /\ amount <= coins[d]
  /\ collateral' = [collateral EXCEPT ![d][u] = Kept(@ - amount)]
  /\ coins' = Add(coins, d, -amount)
  /\ UNCHANGED <<loanStore, vault, market, params, handling, blocks, history>>

-----------------------------------------------------------------------------
(* Loans.                                                                  *)

LoanSum(d) == SumDec(loans[d])

BorrowLimitExceeded(d, amount) ==
  /\ BorrowLimit # 0
  /\ Mul(ToDec(vault[d]) + LoanSum(d), BorrowLimit) < LoanSum(d) + amount

\* SetLoan: the first write of a loan gives it the next Index.
SetLoan(u, d, amount) ==
  LET new == amount > 0 /\ index[d][u] = 0
  IN /\ loans' = [loans EXCEPT ![d][u] = Kept(amount)]
     /\ index' = [index EXCEPT ![d][u] =
          IF amount <= 0 THEN 0 ELSE IF new THEN nextIndex ELSE index[d][u]]
     /\ nextIndex' = IF new THEN nextIndex + 1 ELSE nextIndex

Borrow(u, d, amount) ==
  /\ InTx
  /\ vault[d] >= TruncateInt(amount)
  /\ Priced(u)
  /\ ratio[d] > 0
  /\ BorrowableAmount(u, d) >= amount
  /\ amount >= ToDec(MinimumLoanSize)
  /\ ~BorrowLimitExceeded(d, amount)
  /\ vault[d] >= CeilInt(amount)
  /\ SetLoan(u, d, loans[d][u] + amount)
  /\ vault' = Add(vault, d, -CeilInt(amount))
  /\ UNCHANGED <<collateral, coins, market, params, handling, blocks, history>>

\* RepayLoan and PartiallyRepayLoan.
Repay(u, d, amount) ==
  LET paid == MinDec(amount, loans[d][u])
  IN /\ InTx
     /\ loans[d][u] > 0
     /\ SetLoan(u, d, loans[d][u] - paid)
     /\ vault' = Add(vault, d, CeilInt(paid))
     /\ UNCHANGED <<collateral, coins, market, params, handling, blocks, history>>

RepayLoan(u, d) == Repay(u, d, loans[d][u])
PartiallyRepayLoan(u, d, amount) == Repay(u, d, ToDec(CeilInt(amount)))

-----------------------------------------------------------------------------
(* Governance and the market.                                              *)

AddCollateralDenom(d, l, m) ==
  /\ InTx
  /\ d \notin DOMAIN ltv
  /\ ltv' = With(ltv, d, l)
  /\ cap' = With(cap, d, m)
  /\ UNCHANGED <<positions, banks, market, handling, blocks, history>>

UpdateCollateralDenomLTV(d, l) ==
  /\ InTx
  /\ d \in DOMAIN ltv
  /\ ltv' = [ltv EXCEPT ![d] = l]
  /\ UNCHANGED <<positions, banks, cap, market, handling, blocks, history>>

UpdateCollateralDenomMaxDeposit(d, m) ==
  /\ InTx
  /\ d \in DOMAIN ltv
  /\ cap' = [cap EXCEPT ![d] = m]
  /\ UNCHANGED <<positions, banks, ltv, market, handling, blocks, history>>

\* Trades of others set a ratio; liquidity of the base currency comes and goes.
MarketMoves(d, r) ==
  /\ InTx
  /\ d # Base
  /\ ratio' = [ratio EXCEPT ![d] = r]
  /\ dry' = FALSE
  /\ UNCHANGED <<positions, banks, params, handling, blocks, history>>

PoolsRunDry ==
  /\ InTx
  /\ dry' = TRUE
  /\ UNCHANGED <<positions, banks, ratio, params, handling, blocks, history>>

-----------------------------------------------------------------------------
(* HandleLiquidations.                                                     *)

\* applyInterestForCAssetLoans.
WithInterest(amount, rate) ==
  IF MinimumLoanSize > 0 /\ amount < ToDec(MinimumLoanSize)
    THEN 0 ELSE amount + Mul(amount, rate)

\* getBorrowers.
Borrowers(ls) == {u \in Users : \E d \in Denoms : ls[d][u] > 0}

\* ApplyInterest, and HandleLiquidations up to its loop.  A collateral denom
\* without a ratio is an error: nobody is liquidated.
BeginEndBlock(rate, o) ==
  LET kept(d, u) == WithInterest(loans[d][u], rate) > 0
      off(d) == {u \in Users : loans[d][u] > 0 /\ ~kept(d, u)}
  IN /\ InTx
     /\ phase' = "borrowers"
     /\ loans' = [d \in Denoms |-> [u \in Users |-> WithInterest(loans[d][u], rate)]]
     /\ index' = [d \in Denoms |-> [u \in Users |-> IF kept(d, u) THEN index[d][u] ELSE 0]]
     /\ UNCHANGED nextIndex
     /\ writtenOff' = [d \in Denoms |-> writtenOff[d] + SumDec(Only(loans[d], off(d)))]
     /\ order' = o
     /\ queue' = IF \A d \in DOMAIN ltv : ratio[d] > 0 THEN Borrowers(loans') ELSE {}
     /\ UNCHANGED <<collateral, banks, market, params, work, halted, txs, blocks,
                    settled, lost>>

\* handleBorrowerLiquidation up to its loop.  A loan has a ratio, as Borrow
\* needs one.
Underwater(u) == LoanBaseValue(u) > CollateralBaseValue(u)

PassBorrower(u) ==
  /\ phase = "borrowers"
  /\ u \in queue
  /\ ~Underwater(u)
  /\ queue' = queue \ {u}
  /\ UNCHANGED <<positions, banks, market, params, phase, order, work, halted, txs,
                 blocks, history>>

BeginBorrower(u) ==
  /\ phase = "borrowers"
  /\ u \in queue
  /\ Underwater(u)
  /\ phase' = "loans"
  /\ work' = [NoWork EXCEPT !.user = u,
       !.loansLeft = {d \in Denoms : loans[d][u] > 0},
       !.excessBase = LoanBaseValue(u) - Mul(CollateralBaseValue(u), Discount)]
  /\ UNCHANGED <<positions, banks, market, params, queue, order, halted, txs, blocks,
                 history>>

\* The loans of a borrower are taken in the order of their Index.
LoanDenom ==
  CHOOSE d \in work.loansLeft :
    \A c \in work.loansLeft : index[d][work.user] <= index[c][work.user]

\* liquidateLoan up to its loop.
BeginLoan ==
  /\ phase = "loans"
  /\ work.loansLeft # {}
  /\ phase' = "denoms"
  /\ work' = [work EXCEPT !.repaid = 0, !.denomsLeft = order,
       !.excess = MinDec(ValueInDenom(LoanDenom, RoundInt(work.excessBase)),
                         loans[LoanDenom][work.user])]
  /\ UNCHANGED <<positions, banks, market, params, queue, order, halted, txs, blocks,
                 history>>

\* Faulty: the borrower is looked at again.
NoMoreLoansButAgain ==
  /\ phase = "loans"
  /\ work.loansLeft = {}
  /\ phase' = "borrowers"
  /\ work' = NoWork
  /\ UNCHANGED <<positions, banks, market, params, queue, order, halted, txs, blocks,
                 history>>

NoMoreLoans ==
  /\ phase = "loans"
  /\ work.loansLeft = {}
  /\ phase' = "borrowers"
  /\ queue' = queue \ {work.user}
  /\ work' = NoWork
  /\ UNCHANGED <<positions, banks, market, params, order, halted, txs, blocks, history>>

CollateralDenom == Head(work.denomsLeft)
Found == collateral[CollateralDenom][work.user]

\* A round of the loop of liquidateLoan that the next ones build on.
InLoop == ~halted /\ phase = "denoms" /\ work.denomsLeft # <<>>

\* Faulty: twice the amount counts as repaid.
RoundDoneTwice(used, repaid) ==
  /\ collateral' = [collateral EXCEPT ![CollateralDenom][work.user] = Kept(@ - used)]
  /\ work' = [work EXCEPT !.denomsLeft = Tail(@), !.excess = @ - 2 * ToDec(repaid),
                          !.repaid = @ + repaid]

\* The end of processLiquidation and of a round: used is taken from the
\* collateral, repaid counts for the loan.
RoundDone(used, repaid) ==
  /\ collateral' = [collateral EXCEPT ![CollateralDenom][work.user] = Kept(@ - used)]
  /\ work' = [work EXCEPT !.denomsLeft = Tail(@), !.excess = @ - ToDec(repaid),
                          !.repaid = @ + repaid]

\* Collateral in the denom of the loan repays it, and no coins move.
RepayFromSameDenom ==
  LET amount == IF TruncateInt(work.excess) < Found THEN TruncateInt(work.excess)
                                                    ELSE Found
  IN /\ InLoop
     /\ Found > 0
     /\ CollateralDenom = LoanDenom
     /\ RoundDone(amount, amount)
     /\ settled' = Add(settled, LoanDenom, amount)
     /\ UNCHANGED <<loanStore, banks, market, params, phase, queue, order, halted,
                    txs, blocks, lost, writtenOff>>

ToSell == InLoop /\ Found > 0 /\ CollateralDenom # LoanDenom

\* What the ratios promise for whole coins of one denom in another.
Converted(from, to, amount) == Mul(Quo(ToDec(amount), ratio[from]), ratio[to])

\* TradeSimulation from the loan's denom to the collateral: what to sell.
AmountToGive ==
  LET simulated == TruncateInt(Converted(LoanDenom, CollateralDenom, RoundInt(work.excess)))
  IN IF simulated < Found THEN simulated ELSE Found

\* Faulty: the coins of PoolCollateral are not looked at.
GivenAmountsUnchecked ==
  {a \in {AmountToGive} \cup {m \in Depths : m < AmountToGive} : a >= MinTradeAmount}

\* The amounts that ExecuteTrade lets through, when it does.
GivenAmounts ==
  {a \in {AmountToGive} \cup {m \in Depths : m < AmountToGive} :
     a >= MinTradeAmount /\ a <= coins[CollateralDenom]}

\* With empty pools the simulation returns no amount, and MinInt panics.
PanicOnEmptyPools ==
  /\ ToSell
  /\ dry
  /\ RoundInt(work.excess) # 0
  /\ halted' = TRUE
  /\ UNCHANGED <<positions, banks, market, params, phase, queue, order, work, txs,
                 blocks, history>>

\* What the trade uses of the given amount, and the coins that leave
\* PoolCollateral for it.
UsedAmounts(given) == {a \in {given - x : x \in Unused} : a >= 0}
Sent(given, used) == IF CollateralDenom = Base THEN given ELSE used

\* The trade yields a part of what its used amount is worth.
Received(used, yield) ==
  TruncateInt(Mul(Converted(CollateralDenom, LoanDenom, used), yield))

\* The collateral's price falls or stays, that of the loan's denom rises or
\* stays; the base currency is what prices are counted in.
RatiosOf(d) == IF d = Base THEN {ratio[d]} ELSE Ratios

PricesMove ==
  \E down \in RatiosOf(CollateralDenom), up \in RatiosOf(LoanDenom) :
    /\ down >= ratio[CollateralDenom]
    /\ up <= ratio[LoanDenom]
    /\ ratio' = [ratio EXCEPT ![CollateralDenom] = down, ![LoanDenom] = up]

\* Faulty: the loan is lowered by the excess, whatever the trade has yielded.
SellCollateralForExcess(given, used, yield) ==
  /\ ToSell
  /\ ~dry
  /\ coins' = Add(coins, CollateralDenom, -Sent(given, used))
  /\ lost' = Add(lost, CollateralDenom, Sent(given, used) - used)
  /\ vault' = Add(vault, LoanDenom, Received(used, yield))
  /\ RoundDone(used, RoundInt(work.excess))
  /\ PricesMove
  /\ UNCHANGED <<loanStore, dry, params, phase, queue, order, halted, txs, blocks,
                 settled, writtenOff>>

\* The trade sells collateral and pays the vault.
SellCollateral(given, used, yield) ==
  /\ ToSell
  /\ ~dry
  /\ coins' = Add(coins, CollateralDenom, -Sent(given, used))
  /\ lost' = Add(lost, CollateralDenom, Sent(given, used) - used)
  /\ vault' = Add(vault, LoanDenom, Received(used, yield))
  /\ RoundDone(used, Received(used, yield))
  /\ PricesMove
  /\ UNCHANGED <<loanStore, dry, params, phase, queue, order, halted, txs, blocks,
                 settled, writtenOff>>

\* The second step of a trade fails after the first has moved the coins: the
\* error is skipped, and nothing is rolled back or booked.  To the base
\* currency the second step only pays out.
SellFailsHalfway(given, used) ==
  /\ ToSell
  /\ ~dry
  /\ LoanDenom # Base
  /\ coins' = Add(coins, CollateralDenom, -Sent(given, used))
  /\ lost' = Add(lost, CollateralDenom, Sent(given, used))
  /\ work' = [work EXCEPT !.denomsLeft = Tail(@)]
  /\ UNCHANGED <<positions, vault, market, params, phase, queue, order, halted, txs,
                 blocks, settled, writtenOff>>

\* No collateral of the denom, an amount that is too small, or no liquidity.
SkipDenom ==
  /\ InLoop
  /\ Found = 0 \/ (ToSell /\ (RoundInt(work.excess) = 0 \/ ~dry))
  /\ work' = [work EXCEPT !.denomsLeft = Tail(@)]
  /\ UNCHANGED <<positions, banks, market, params, phase, queue, order, halted, txs,
                 blocks, history>>

\* The rest of liquidateLoan: what is repaid beyond the loan goes back to the
\* borrower, and the excess falls by the worth of what was repaid, at the
\* prices after the trades.
FinishLoan ==
  LET rest == loans[LoanDenom][work.user] - ToDec(work.repaid)
  IN /\ phase = "denoms"
     /\ work.denomsLeft = <<>>
     /\ phase' = "loans"
     /\ SetLoan(work.user, LoanDenom, rest)
     /\ vault' = Add(vault, LoanDenom, IF rest < 0 THEN -RoundInt(-rest) ELSE 0)
     /\ work' = [work EXCEPT !.loansLeft = @ \ {LoanDenom}, !.excess = 0, !.repaid = 0,
                   !.excessBase = @ - ValueInBase(LoanDenom, work.repaid)]
     /\ UNCHANGED <<collateral, coins, market, params, queue, order, halted, txs,
                    blocks, history>>

NextBlock ==
  /\ phase = "borrowers"
  /\ queue = {}
  /\ phase' = "tx"
  /\ order' = <<>>
  /\ blocks' = blocks + 1
  /\ UNCHANGED <<positions, banks, market, params, queue, work, halted, txs, history>>

-----------------------------------------------------------------------------
Message ==
  \/ \E u \in Users, d \in Denoms, a \in Amounts :
       AddCollateral(u, d, a) \/ RemoveCollateral(u, d, a)
  \/ \E u \in Users, d \in Denoms, a \in LoanAmounts :
       Borrow(u, d, a) \/ PartiallyRepayLoan(u, d, a)
  \/ \E u \in Users, d \in Denoms : RepayLoan(u, d)

Governance ==
  \/ \E d \in Denoms, l \in Ltvs, m \in Caps : AddCollateralDenom(d, l, m)
  \/ \E d \in Denoms, l \in Ltvs : UpdateCollateralDenomLTV(d, l)
  \/ \E d \in Denoms, m \in Caps : UpdateCollateralDenomMaxDeposit(d, m)

Environment == PoolsRunDry \/ \E d \in Denoms, r \in Ratios : MarketMoves(d, r)

Transaction ==
  /\ txs < MaxTxs
  /\ txs' = txs + 1
  /\ Message \/ Governance \/ Environment

Liquidation ==
  \/ \E u \in Users : PassBorrower(u) \/ BeginBorrower(u)
  \/ BeginLoan
  \/ RepayFromSameDenom
  \/ PanicOnEmptyPools
  \/ ToSell /\ \E a \in GivenAmounts : \E b \in UsedAmounts(a) :
       SellFailsHalfway(a, b) \/ \E y \in Yields : SellCollateral(a, b, y)
  \/ SkipDenom
  \/ FinishLoan
  \/ NoMoreLoans
  \/ NextBlock

EndBlock ==
  \/ \E rate \in Rates, o \in SetToSeqs(DOMAIN ltv) : BeginEndBlock(rate, o)
  \/ Liquidation

Next == Transaction \/ EndBlock

\* The EndBlocker runs to its end once it has begun.
Spec == Init /\ [][Next]_vars /\ WF_vars(Liquidation)

-----------------------------------------------------------------------------
(* Properties.                                                             *)

\* Types.  No balance is ever negative: PoolVault covers the refund of what
\* was repaid beyond a loan, and PoolCollateral every sale.  No two loans have
\* the same Index.
TypeOK ==
  /\ collateral \in [Denoms -> [Users -> Nat]]
  /\ coins \in [Denoms -> Nat]
  /\ loans \in [Denoms -> [Users -> Nat]]
  /\ index \in [Denoms -> [Users -> 0..(nextIndex - 1)]]
  /\ \A d \in Denoms, u \in Users : index[d][u] > 0 <=> loans[d][u] > 0
  /\ \A c, d \in Denoms, u, v \in Users :
       index[c][u] > 0 /\ index[c][u] = index[d][v] => c = d /\ u = v
  /\ vault \in [Denoms -> Nat]
  /\ DOMAIN ltv \subseteq Denoms
  /\ DOMAIN cap = DOMAIN ltv
  /\ ratio \in [Denoms -> Nat]
  /\ phase \in {"tx", "borrowers", "loans", "denoms"}
  /\ queue \subseteq Users
  /\ work.user \in Users
  /\ work.excessBase \in Int
  /\ work.repaid \in Int

\* PoolCollateral holds the collateral of all users, less what trades took and
\* no entry was lowered by (a trade that failed halfway, a sale of the base
\* currency that was used in part), plus what repaid a loan of its own denom and
\* was never moved to the vault.
CollateralAccounting ==
  \A d \in Denoms : coins[d] + lost[d] = SumOf(collateral[d]) + settled[d]

\* What liquidateLoan has collected for a loan and not yet booked.
Pending(d) == IF phase = "denoms" /\ d = LoanDenom THEN ToDec(work.repaid) ELSE 0

\* What the depositors of a denom own: coins of the vault, loans, and what was
\* written off.
Worth(d) == ToDec(vault[d]) + LoanSum(d) + writtenOff[d] - Pending(d)

\* A loan falls by coins that reach the vault, up to the rounding of one coin,
\* in every step of a borrower and of a liquidation but one: collateral in the
\* loan's own denom repays it with coins that stay in PoolCollateral, where no
\* entry and no depositor gets at them, and costs the depositors just these.
WorthKept ==
  [][\A d \in Denoms :
       Worth(d)' + Scale + ToDec(settled'[d] - settled[d]) >= Worth(d)]_vars

\* What the prices of BorrowableAmount cost in last digits: ToBase is the inverse
\* of a rounded price, so it misses up to half a digit for each coin that is free.
PriceDigits(u, d) ==
  LET free == TruncateInt(CollateralBaseValue(u) - LoanBaseValue(u))
  IN (free * (Scale + 2) + Scale) \div (2 * ToBase(d))

\* A loan never brings its borrower into liquidation: right after Borrow the
\* loans are worth no more than the collateral allows, up to the digits of the
\* prices and a last digit for each of the two divisions.
BorrowWithinLimit ==
  [][\A u \in Users, d \in Denoms : (phase = "tx" /\ loans'[d][u] > loans[d][u] /\ phase' = "tx")
       => LoanBaseValue(u)' <= CollateralBaseValue(u)' + 2 + PriceDigits(u, d)]_vars

\* A liquidation that makes an entry of the collateral grow follows a loan that
\* was repaid beyond its excess: an earlier one of the borrower, or this one, and
\* then the entry grows by no more than the coins that were collected for it.
GrowthNeedsOverpayment ==
  [][\A u \in Users, d \in Denoms :
       (phase = "denoms" /\ collateral'[d][u] > collateral[d][u])
       => \/ work.excessBase < 0
          \/ collateral'[d][u] - collateral[d][u] <= work.repaid]_vars

\* HandleLiquidations comes to an end, unless it panics.
LiquidationEnds == (phase = "borrowers") ~> (phase = "tx" \/ halted)

-----------------------------------------------------------------------------
(* What the comments of the repository say, and the code does not do.      *)

\* "Sold collateral is sent to the vault" (liquidateLoan): nothing a liquidation
\* does costs the depositors more than the rounding of one coin.
SoldCollateralIsPaid == [][\A d \in Denoms : Worth(d)' + Scale >= Worth(d)]_vars

\* CalcWithdrawableCollateralAmount, which a query reports.
Withdrawable(u, d) ==
  LET sum == SumDec([c \in {c \in DOMAIN ltv : collateral[c][u] > 0} |->
               ValueInBase(c, RoundInt(Mul(ToDec(collateral[c][u]), ltv[c])))])
      excess == Quo(ValueInDenom(d, RoundInt(sum - LoanBaseValue(u))), ltv[d])
  IN CASE LoanBaseValue(u) = 0 -> collateral[d][u]
       [] LoanBaseValue(u) > 0 /\ LoanBaseValue(u) >= sum -> 0
       [] OTHER -> IF TruncateInt(excess) < collateral[d][u] THEN TruncateInt(excess)
                                                             ELSE collateral[d][u]

\* "When there are no outstanding loans, the whole collateral amount can be
\* withdrawn"; otherwise what the loans leave.
WithdrawnWithinLimit ==
  [][\A u \in Users, d \in Denoms : (phase = "tx" /\ collateral'[d][u] < collateral[d][u])
       => collateral[d][u] - collateral'[d][u] <= Withdrawable(u, d)]_vars
=============================================================================
