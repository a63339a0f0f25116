------------------------------- MODULE Vault -------------------------------
(***************************************************************************)
(* One cAsset of the money market (x/mm/keeper): deposits, redemption      *)
(* requests, loans and the part of the EndBlocker that charges interest    *)
(* and pays redemptions.                                                   *)
(*                                                                         *)
(* Depositors put coins of the base denom into PoolVault and get cAssets,  *)
(* borrowers take coins out.  A cAsset is a share of the vault and of the  *)
(* loans.  A redemption request moves cAssets to PoolRedemption; at the    *)
(* end of every block the requests are served, highest fee first, from     *)
(* what the vault holds.                                                   *)
(*                                                                         *)
(* Abstracted: wallets hold any amount of the base denom; a borrower's     *)
(* collateral is always sufficient; the interest rate of a block is one of *)
(* Rates.  Rolled-back transactions are no steps.                          *)
(***************************************************************************)
EXTENDS Integers, FiniteSets, Sums, Dec

CONSTANTS
  Users,           \* accounts
  DepositAmounts,  \* amounts of a deposit
  RequestAmounts,  \* amounts of cAssets in a redemption request
  Fees,            \* priority fees that checkFee accepts (decimals <= 1)
  LoanAmounts,     \* amounts of a loan or of a repayment (decimals)
  Rates,           \* interest rates per block (decimals)
  ProtocolShare,   \* mm parameter: the reserve's part of a fee (decimal)
  BorrowLimit,     \* cAsset parameter (decimal), 0: no limit
  MinimumLoanSize, \* cAsset parameter
  MaxTxs,          \* bound: number of transactions
  MaxHeight        \* bound: last block of the model

ASSUME VaultAssumption ==
  /\ IsFiniteSet(Users)
  /\ DepositAmounts \subseteq Nat \ {0}
  /\ RequestAmounts \subseteq Nat \ {0}
  /\ Fees \subseteq 0..Scale
  /\ LoanAmounts \subseteq Nat \ {0}
  /\ Rates \subseteq Nat
  /\ ProtocolShare \in 0..Scale
  /\ BorrowLimit \in Nat
  /\ MinimumLoanSize \in Nat
  /\ MaxTxs \in Nat
  /\ MaxHeight \in Nat \ {0}

VARIABLES
  height,     \* height of the block being processed
  phase,      \* "tx", "redeem": HandleRedemptions runs
  vault,      \* balance of PoolVault in the base denom
  supply,     \* supply of the cAsset
  wallet,     \* cAssets of each user
  escrow,     \* balance of PoolRedemption
  requests,   \* the redemption store, by <<denom, address>>
  loans,      \* the loan store of the base denom, by address (decimals)
  queue,      \* requests HandleRedemptions has not reached yet
  available,  \* what HandleRedemptions may still pay (a decimal)
  halted,     \* the EndBlocker panicked
  txs,        \* transactions so far
  orphaned,   \* history: cAssets of requests that were overwritten
  residue,    \* history: redeemed cAssets that were not burned
  forgotten   \* history: cAssets of requests that an export left out

ledger == <<vault, supply, wallet, escrow>>
history == <<orphaned, residue, forgotten>>
handling == <<queue, available, halted>>
vars == <<height, phase, ledger, requests, loans, handling, txs, history>>

\* KeyDenomAddress.  The requests of a cAsset are kept under its name.
CAssetName == "name"
BaseDenom == "base"
Key(denom, u) == <<denom, u>>

Request == [amount: Nat \ {0}, fee: Fees, addedAt: 1..MaxHeight]

Requested == SumOf([k \in DOMAIN requests |-> requests[k].amount])

-----------------------------------------------------------------------------
Init ==
  /\ height = 1
  /\ phase = "tx"
  /\ vault = 0
  /\ supply = 0
  /\ wallet = [u \in Users |-> 0]
  /\ escrow = 0
  /\ requests = <<>>
  /\ loans = <<>>
  /\ queue = {}
  /\ available = 0
  /\ halted = FALSE
  /\ txs = 0
  /\ orphaned = 0
  /\ residue = 0
  /\ forgotten = 0

\* Transactions are delivered; the model stops in the block MaxHeight.
InTx == ~halted /\ phase = "tx" /\ height < MaxHeight

GetLoansSum == SumOf(loans)

\* Faulty: the coins that are lent are left out.
CAssetValueOfVault(v) == ToDec(v)

\* calculateCAssetValue, for a vault of v coins.
CAssetValue(v) == ToDec(v) + GetLoansSum

\* CalculateNewCAssetAmount; the deposit is already in the vault.
NewCAssetAmount(amount) ==
  LET share == Quo(ToDec(amount), CAssetValue(vault + amount))
  IN CASE supply = 0 -> amount
       [] supply # 0 /\ share = Scale -> amount
       [] OTHER -> RoundInt(Quo(ToDec(supply), Scale - share)) - supply

\* Faulty: the deposited amount is minted.
AddDepositMintingAmount(u, amount) ==
  /\ InTx
  /\ NewCAssetAmount(amount) > 0
  /\ vault' = vault + amount
  /\ supply' = supply + amount
  /\ wallet' = [wallet EXCEPT ![u] = @ + NewCAssetAmount(amount)]
  /\ UNCHANGED <<height, phase, escrow, requests, loans, handling, history>>

AddDeposit(u, amount) ==
  /\ InTx
  /\ NewCAssetAmount(amount) > 0
  /\ vault' = vault + amount
  /\ supply' = supply + NewCAssetAmount(amount)
  /\ wallet' = [wallet EXCEPT ![u] = @ + NewCAssetAmount(amount)]
  /\ UNCHANGED <<height, phase, escrow, requests, loans, handling, history>>

\* The amount of the request under a key, 0 if there is none.
AmountAt(k) == IF k \in DOMAIN requests THEN requests[k].amount ELSE 0

\* The check for an existing request reads the key of the base denom, the
\* request is written under the name of the cAsset.
CreateRedemptionRequest(u, amount, fee) ==
  /\ InTx
  /\ amount <= wallet[u]
  /\ Key(BaseDenom, u) \notin DOMAIN requests
  /\ wallet' = [wallet EXCEPT ![u] = @ - amount]
  /\ escrow' = escrow + amount
  /\ requests' = With(requests, Key(CAssetName, u),
                      [amount |-> amount, fee |-> fee, addedAt |-> height])
  /\ orphaned' = orphaned + AmountAt(Key(CAssetName, u))
  /\ UNCHANGED <<height, phase, vault, supply, loans, handling, residue, forgotten>>

CancelRedemptionRequest(u) ==
  LET k == Key(CAssetName, u)
  IN /\ InTx
     /\ k \in DOMAIN requests
     /\ requests[k].amount <= escrow
     /\ wallet' = [wallet EXCEPT ![u] = @ + requests[k].amount]
     /\ escrow' = escrow - requests[k].amount
     /\ requests' = Without(requests, {k})
     /\ UNCHANGED <<height, phase, vault, supply, loans, handling, history>>

\* Faulty: the cAssets of the old request are not sent back.
UpdateKeepingEscrow(u, amount, fee) ==
  LET k == Key(CAssetName, u)
  IN /\ InTx
     /\ k \in DOMAIN requests
     /\ amount <= wallet[u]
     /\ wallet' = [wallet EXCEPT ![u] = @ - amount]
     /\ escrow' = escrow + amount
     /\ requests' = With(requests, k, [requests[k] EXCEPT !.amount = amount,
                                                          !.fee = fee])
     /\ UNCHANGED <<height, phase, vault, supply, loans, handling, history>>

\* The request keeps its age.
UpdateRedemptionRequest(u, amount, fee) ==
  LET k == Key(CAssetName, u)
  IN /\ InTx
     /\ k \in DOMAIN requests
     /\ requests[k].amount <= escrow
     /\ amount <= wallet[u] + requests[k].amount
     /\ wallet' = [wallet EXCEPT ![u] = @ + requests[k].amount - amount]
     /\ escrow' = escrow - requests[k].amount + amount
     /\ requests' = With(requests, k, [requests[k] EXCEPT !.amount = amount,
                                                          !.fee = fee])
     /\ UNCHANGED <<height, phase, vault, supply, loans, handling, history>>

-----------------------------------------------------------------------------
(* Loans.                                                                  *)

LoanOf(u) == IF u \in DOMAIN loans THEN loans[u] ELSE 0

\* Faulty: a loan that is paid back stays in the store.
SetLoanKeepingZero(u, amount) == With(loans, u, amount)

\* SetLoan deletes a loan that is paid back.
SetLoan(u, amount) ==
  IF amount <= 0 THEN Without(loans, {u}) ELSE With(loans, u, amount)

BorrowLimitExceeded(amount) ==
  /\ BorrowLimit # 0
  /\ Mul(CAssetValue(vault), BorrowLimit) < GetLoansSum + amount

\* The vault must hold the truncated amount, and the bank asks for the amount
\* rounded up.
Borrow(u, amount) ==
  /\ InTx
  /\ vault >= TruncateInt(amount)
  /\ amount >= ToDec(MinimumLoanSize)
  /\ ~BorrowLimitExceeded(amount)
  /\ vault >= CeilInt(amount)
  /\ loans' = SetLoan(u, LoanOf(u) + amount)
  /\ vault' = vault - CeilInt(amount)
  /\ UNCHANGED <<height, phase, supply, wallet, escrow, requests, handling, history>>

\* repay: no more than the loan is taken, rounded up to whole coins.
Repay(u, amount) ==
  LET paid == MinDec(amount, loans[u])
  IN /\ InTx
     /\ u \in DOMAIN loans
     /\ loans' = SetLoan(u, loans[u] - paid)
     /\ vault' = vault + CeilInt(paid)
     /\ UNCHANGED <<height, phase, supply, wallet, escrow, requests, handling, history>>

RepayLoan(u) == u \in DOMAIN loans /\ Repay(u, loans[u])

PartiallyRepayLoan(u, amount) ==
  u \in DOMAIN loans /\ Repay(u, ToDec(CeilInt(amount)))

-----------------------------------------------------------------------------
(* The EndBlocker.                                                         *)

\* applyInterestForCAssetLoans: a loan below the minimum size is written off.
WithInterest(amount, rate) ==
  IF MinimumLoanSize > 0 /\ amount < ToDec(MinimumLoanSize)
    THEN 0 ELSE amount + Mul(amount, rate)

ApplyInterest(rate) ==
  LET kept == {u \in DOMAIN loans : WithInterest(loans[u], rate) > 0}
  IN loans' = [u \in kept |-> WithInterest(loans[u], rate)]

\* The requests of the cAsset.
GetRedemptions == {k \in DOMAIN requests : k[1] = CAssetName}

\* ApplyInterest, and the first part of handleRedemptionsForCAsset: nothing is
\* queued when the vault is empty.
BeginEndBlock ==
  /\ InTx
  /\ phase' = "redeem"
  /\ \E rate \in Rates : ApplyInterest(rate)
  /\ queue' = IF vault = 0 THEN {} ELSE GetRedemptions
  /\ available' = ToDec(vault)
  /\ UNCHANGED <<height, ledger, requests, halted, txs, history>>

\* The sort of the requests: higher fee first, then the older one.
Before(r, s) == r.fee > s.fee \/ (r.fee = s.fee /\ r.addedAt < s.addedAt)

\* Faulty: the older request goes first, whatever it pays.
FirstByAge(k) == \A j \in queue : requests[j].addedAt >= requests[k].addedAt

First(k) == \A j \in queue : ~Before(requests[j], requests[k])

\* Faulty: the value is truncated to whole coins.
RedemptionValueInCoins(amount) ==
  ToDec(TruncateInt(Mul(CAssetValue(vault), Quo(ToDec(amount), ToDec(supply)))))

\* CalculateRedemptionAmount: the value of a request.
RedemptionValue(amount) ==
  Mul(CAssetValue(vault), Quo(ToDec(amount), ToDec(supply)))

\* CalculateAvailableRedemptionAmount: what is paid, and the cAssets used.
Redeemed(amount) == MinDec(RedemptionValue(amount), available)
UsedCAssets(amount) ==
  Mul(ToDec(amount), Quo(Redeemed(amount), RedemptionValue(amount)))

\* handleRedemptionFee: the protocol's part of the fee goes to the reserve.
ProtocolAmount(fee) == TruncateInt(Mul(ProtocolShare, fee))

\* Faulty: the user does not bear the fee.
NetAmountIgnoringFee(gross, feeCost) == TruncateInt(gross)

\* What the user gets: the fee is subtracted.
NetAmount(gross, feeCost) == TruncateInt(gross - feeCost)

\* SetRedemption removes a request that is used up.
SetRedemption(k, amount) ==
  IF amount <= 0 THEN Without(requests, {k})
                 ELSE With(requests, k, [requests[k] EXCEPT !.amount = amount])

\* handleSingleRedemption.  The request is lowered by the used cAssets rounded
\* to the nearest integer, the burned cAssets are truncated.
HandleSingleRedemption(k) ==
  LET amount == requests[k].amount
      gross == Redeemed(amount)
      feeCost == Mul(gross, requests[k].fee)
      used == UsedCAssets(amount)
      burned == TruncateInt(used)
  IN /\ RedemptionValue(amount) > 0
     /\ requests' = SetRedemption(k, amount - RoundInt(used))
     /\ vault' = vault - ProtocolAmount(feeCost) - NetAmount(gross, feeCost)
     /\ escrow' = escrow - burned
     /\ supply' = supply - burned
     /\ available' = available - gross
     /\ residue' = residue + RoundInt(used) - burned
     /\ queue' = queue \ {k}
     /\ UNCHANGED <<height, phase, wallet, loans, halted, txs, orphaned, forgotten>>

\* The value of a request that is too small for the decimals is 0, and the
\* division by it panics.
PanicOnZeroValue(k) ==
  /\ RedemptionValue(requests[k].amount) = 0
  /\ halted' = TRUE
  /\ UNCHANGED <<height, phase, ledger, requests, loans, queue, available, txs, history>>

\* One round of the loop of handleRedemptionsForCAsset.
HandleRedemptions ==
  /\ ~halted
  /\ phase = "redeem"
  /\ available > 0
  /\ \E k \in queue : First(k) /\ (HandleSingleRedemption(k) \/ PanicOnZeroValue(k))

NextBlock ==
  /\ ~halted
  /\ phase = "redeem"
  /\ available = 0 \/ queue = {}
  /\ phase' = "tx"
  /\ height' = height + 1
  /\ queue' = {}
  /\ available' = 0
  /\ UNCHANGED <<ledger, requests, loans, halted, txs, history>>

-----------------------------------------------------------------------------
(* ExportGenesis and InitGenesis: the chain goes on with what was exported. *)

\* GetDenomRedemptions looks for the requests of a cAsset under its base denom.
GetDenomRedemptions == {k \in DOMAIN requests : k[1] = BaseDenom}

\* Balances, loans and parameters come back, and the requests that were found.
Restart ==
  /\ InTx
  /\ requests' = Only(requests, GetDenomRedemptions)
  /\ forgotten' = forgotten + Requested
       - SumOf([k \in GetDenomRedemptions |-> requests[k].amount])
  /\ UNCHANGED <<height, phase, ledger, loans, handling, txs, orphaned, residue>>

-----------------------------------------------------------------------------
Transaction ==
  /\ txs < MaxTxs
  /\ txs' = txs + 1
  /\ \E u \in Users :
       \/ \E amount \in DepositAmounts : AddDeposit(u, amount)
       \/ \E amount \in RequestAmounts, fee \in Fees :
            \/ CreateRedemptionRequest(u, amount, fee)
            \/ UpdateRedemptionRequest(u, amount, fee)
       \/ CancelRedemptionRequest(u)
       \/ \E amount \in LoanAmounts : Borrow(u, amount) \/ PartiallyRepayLoan(u, amount)
       \/ RepayLoan(u)

Next == Transaction \/ BeginEndBlock \/ HandleRedemptions \/ NextBlock \/ Restart

Spec == Init /\ [][Next]_vars

-----------------------------------------------------------------------------
\* The stores and balances hold what they can hold; a bank balance below zero
\* would be a payment the bank refuses.
TypeOK ==
  /\ height \in 1..MaxHeight
  /\ phase \in {"tx", "redeem"}
  /\ vault \in Nat
  /\ supply \in Nat
  /\ wallet \in [Users -> Nat]
  /\ escrow \in Nat
  /\ requests \in [DOMAIN requests -> Request]
  /\ DOMAIN requests \subseteq {Key(CAssetName, u) : u \in Users}
  /\ loans \in [DOMAIN loans -> Nat \ {0}]
  /\ DOMAIN loans \subseteq Users
  /\ queue \subseteq DOMAIN requests
  /\ available \in Nat
  /\ halted \in BOOLEAN
  /\ txs \in 0..MaxTxs
  /\ orphaned \in Nat
  /\ residue \in Nat
  /\ forgotten \in Nat

\* PoolRedemption holds the cAssets of the requests, those of requests that
\* were overwritten or that an export left out, and what rounding left
\* unburned: nobody else's.
RedemptionEscrow == escrow = Requested + orphaned + forgotten + residue

\* Every cAsset is in a wallet or in PoolRedemption.
CAssetSupply == supply = SumOf(wallet) + escrow

\* During HandleRedemptions the vault holds what may still be paid.
VaultCovers == phase = "redeem" => available <= ToDec(vault)

\* A request is paid only if no request before it is left unpaid.
PriorityKept ==
  [][phase' = "redeem" =>
       \A k \in queue \ queue' :
         \A j \in DOMAIN requests' : ~Before(requests[j], requests[k])]_vars

\* Everything the cAssets are a share of.
Worth == ToDec(vault) + SumOf(loans)

\* A loan below the minimum size is written off in the step.
WritesOff == phase # phase' /\ DOMAIN loans # DOMAIN loans'

\* A deposit of more than everything the cAssets were worth before.
Dominates == supply' > supply /\ ToDec(vault' - vault) > Worth

\* The cAssets a step may cost the holders: one for rounding to whole tokens,
\* and what the last digit of a share amounts to.
Tolerance == 1 + (4 * supply) \div Scale

\* No step takes value from the holders of cAssets beyond rounding: deposits
\* are minted and redemptions are paid at the worth of the cAsset, and a loan
\* takes at most the fraction of a coin that Ceil adds.  Only a write-off and,
\* for want of digits, a deposit that dwarfs the vault are left out.
HoldersKeepValue ==
  [][(supply > 0 /\ supply' > 0 /\ ~WritesOff /\ ~Dominates)
       => (Worth - Scale) * (supply' - Tolerance) <= Worth' * supply]_vars

\* The panic needs a request smaller than the decimals can express as a share
\* of the supply.
PanicsOnlyOn ==
  [][(halted' /\ ~halted)
       => \E k \in queue : supply > (2 * Scale - 4) * requests[k].amount]_vars

-----------------------------------------------------------------------------
\* ErrRedemptionRequestAlreadyExists: an address has one request for a denom,
\* and a second one does not take its place.
NoSecondRequest == orphaned = 0
=============================================================================
