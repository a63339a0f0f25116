---------------------------- MODULE Vault_proofs ----------------------------
(***************************************************************************)
(* The vault never pays coins it does not hold, and every cAsset is        *)
(* accounted for, for every number of users, every Scale and all amounts,  *)
(* fees and rates.                                                         *)
(***************************************************************************)
EXTENDS Vault, Sums_proofs, Dec_proofs

-----------------------------------------------------------------------------
(* The arithmetic of a redemption.                                         *)

\* Fee and payout together are not more than what was redeemed.
LEMMA FeeSplit ==
  ASSUME NEW gross \in Nat, NEW fee \in 0..Scale
  PROVE  /\ Mul(gross, fee) \in Nat
         /\ ProtocolAmount(Mul(gross, fee)) \in Nat
         /\ NetAmount(gross, Mul(gross, fee)) \in Nat
         /\ ToDec(ProtocolAmount(Mul(gross, fee)) + NetAmount(gross, Mul(gross, fee)))
              <= gross
<1> DEFINE cost == Mul(gross, fee)
           part == Mul(ProtocolShare, cost)
<1>1. cost \in Nat /\ cost <= gross
  BY MulType, MulBelow, ScaleAssumption
<1> HIDE DEF cost
<1>2. part \in Nat /\ part <= cost
  <2>1. ProtocolShare \in Nat /\ ProtocolShare <= Scale
    BY VaultAssumption, ScaleAssumption
  <2>2. Mul(ProtocolShare, cost) = Mul(cost, ProtocolShare)
    BY <1>1, <2>1 DEF Mul
  <2> QED
    BY <1>1, <2>1, <2>2, MulType, MulBelow
<1> HIDE DEF part
<1>3. gross - cost \in Nat
  BY <1>1
<1>4. /\ TruncateInt(part) \in Nat /\ TruncateInt(part) * Scale <= part
      /\ TruncateInt(gross - cost) \in Nat
      /\ TruncateInt(gross - cost) * Scale <= gross - cost
  BY <1>2, <1>3, RoundTruncate
<1>5. (TruncateInt(part) + TruncateInt(gross - cost)) * Scale <= gross
  BY <1>1, <1>2, <1>4, ScaleAssumption
<1> QED
  BY <1>1, <1>4, <1>5 DEF ProtocolAmount, NetAmount, ToDec, cost, part

\* A payment of at most the value of a request uses at most its cAssets, and
\* the whole value all of them.
LEMMA UsedBounds ==
  ASSUME NEW amount \in Nat, NEW value \in Nat, value > 0,
         NEW paid \in Nat, paid <= value
  PROVE  LET used == Mul(ToDec(amount), Quo(paid, value))
         IN /\ RoundInt(used) \in Nat
            /\ TruncateInt(used) \in Nat
            /\ TruncateInt(used) <= RoundInt(used)
            /\ RoundInt(used) <= amount
            /\ paid = value => RoundInt(used) = amount
<1> DEFINE used == Mul(ToDec(amount), Quo(paid, value))
<1>1. ToDec(amount) \in Nat
  BY ScaleAssumption DEF ToDec
<1>2. Quo(paid, value) \in Nat /\ Quo(paid, value) <= Scale
  BY QuoType, QuoBelow
<1>3. used \in Nat /\ used <= ToDec(amount)
  BY <1>1, <1>2, MulType, MulBelow
<1>4. paid = value => used = ToDec(amount)
  BY <1>1, QuoSelf, MulOne
<1> HIDE DEF used
<1>5. paid = value => RoundInt(used) = amount
  BY <1>4, RoundExact
<1>6. RoundInt(used) <= amount
  BY <1>3, RoundBelow
<1>7. /\ RoundInt(used) \in Nat /\ TruncateInt(used) \in Nat
      /\ TruncateInt(used) <= RoundInt(used)
  BY <1>3, RoundTruncate
<1> QED
  BY <1>5, <1>6, <1>7 DEF used

-----------------------------------------------------------------------------
(* The sums over requests and wallets.                                     *)

ReqSum(rs) == SumOf([k \in DOMAIN rs |-> rs[k].amount])

\* Writing or removing one request changes the sum by that request alone.
LEMMA ReqWith ==
  ASSUME NEW S, IsFiniteSet(S), NEW rs \in [S -> Request], NEW k,
         NEW r \in Request
  PROVE  /\ ReqSum(Without(rs, {k})) \in Nat
         /\ ReqSum(With(rs, k, r)) = ReqSum(Without(rs, {k})) + r.amount
<1> DEFINE f == [j \in DOMAIN rs |-> rs[j].amount]
           g == [j \in DOMAIN With(rs, k, r) |-> With(rs, k, r)[j].amount]
           h == [j \in DOMAIN Without(rs, {k}) |-> Without(rs, {k})[j].amount]
<1>1. f \in [S -> Nat] /\ r.amount \in Nat
  BY DEF Request
<1>2. g = With(f, k, r.amount)
  BY DEF With
<1>3. h = Without(f, {k})
  BY DEF Without
<1>4. /\ SumOf(Without(f, {k})) \in Nat
      /\ SumOf(With(f, k, r.amount)) = SumOf(Without(f, {k})) + r.amount
  BY <1>1, SumWith
<1> QED
  BY <1>2, <1>3, <1>4 DEF ReqSum

LEMMA ReqWithout ==
  ASSUME NEW S, IsFiniteSet(S), NEW rs \in [S -> Request], NEW k \in S
  PROVE  /\ ReqSum(Without(rs, {k})) \in Nat
         /\ ReqSum(rs) = ReqSum(Without(rs, {k})) + rs[k].amount
<1>1. With(rs, k, rs[k]) = rs
  BY DEF With
<1>2. rs[k] \in Request
  OBVIOUS
<1>3. /\ ReqSum(Without(rs, {k})) \in Nat
      /\ ReqSum(With(rs, k, rs[k])) = ReqSum(Without(rs, {k})) + rs[k].amount
  BY <1>2, ReqWith
<1> QED
  BY <1>1, <1>3

\* Setting the cAssets of one wallet.
LEMMA WalletSet ==
  ASSUME NEW w \in [Users -> Nat], NEW u \in Users, NEW v \in Nat
  PROVE  /\ SumOf(w) \in Nat
         /\ SumOf([w EXCEPT ![u] = v]) = SumOf(w) - w[u] + v
<1>1. IsFiniteSet(Users)
  BY VaultAssumption
<1>2. [w EXCEPT ![u] = v] = With(w, u, v)
  BY DEF With
<1>3. /\ SumOf(Without(w, {u})) \in Nat
      /\ SumOf(With(w, u, v)) = SumOf(Without(w, {u})) + v
      /\ SumOf(w) = SumOf(Without(w, {u})) + w[u]
  BY <1>1, SumWith, SumWithout
<1>4. w[u] \in Nat
  OBVIOUS
<1>5. SumOf([w EXCEPT ![u] = v]) = SumOf(Without(w, {u})) + v
  BY <1>2, <1>3, Zenon
<1> QED
  BY <1>3, <1>4, <1>5

-----------------------------------------------------------------------------
(* The inductive invariant.                                                *)

\* No loop runs between the EndBlockers; while coins are left to pay, no
\* request has been passed over.
PhaseOK ==
  /\ phase = "tx" => queue = {}
  /\ phase = "redeem" => height < MaxHeight
  /\ (phase = "redeem" /\ available > 0) => queue = DOMAIN requests

VInv == TypeOK /\ RedemptionEscrow /\ CAssetSupply /\ VaultCovers /\ PhaseOK

\* The stores are finite, and the sums are numbers.
LEMMA StoresFinite ==
  ASSUME TypeOK
  PROVE  /\ IsFiniteSet(DOMAIN requests)
         /\ IsFiniteSet(DOMAIN loans)
         /\ SumOf(loans) \in Nat
         /\ SumOf(wallet) \in Nat
<1>1. IsFiniteSet(Users)
  BY VaultAssumption
<1> DEFINE T == {Key(CAssetName, u) : u \in Users}
           f == [u \in Users |-> Key(CAssetName, u)]
<1>2. f \in Surjection(Users, T)
  BY DEF Surjection
<1>3. IsFiniteSet(T)
  BY <1>1, <1>2, FS_Surjection
<1>4. IsFiniteSet(DOMAIN requests)
  BY <1>3, FS_Subset DEF TypeOK
<1>5. IsFiniteSet(DOMAIN loans)
  BY <1>1, FS_Subset DEF TypeOK
<1>6. loans \in [DOMAIN loans -> Nat] /\ wallet \in [Users -> Nat]
  BY DEF TypeOK
<1> QED
  BY <1>1, <1>4, <1>5, <1>6, SumType

\* A request is escrowed, so there are cAssets.
LEMMA RequestEscrowed ==
  ASSUME VInv, NEW k \in DOMAIN requests
  PROVE  /\ requests[k] \in Request
         /\ requests[k].amount \in Nat
         /\ requests[k].amount > 0
         /\ requests[k].amount <= escrow
         /\ escrow <= supply
<1>1. requests \in [DOMAIN requests -> Request] /\ IsFiniteSet(DOMAIN requests)
  BY StoresFinite DEF VInv, TypeOK
<1>2. requests[k] \in Request
  BY <1>1
<1>3. requests[k].amount \in Nat /\ requests[k].amount > 0
  BY <1>2 DEF Request
<1>4. /\ ReqSum(Without(requests, {k})) \in Nat
      /\ ReqSum(requests) = ReqSum(Without(requests, {k})) + requests[k].amount
  BY <1>1, ReqWithout
<1>5. /\ escrow = ReqSum(requests) + orphaned + forgotten + residue
      /\ supply = SumOf(wallet) + escrow
      /\ orphaned \in Nat /\ forgotten \in Nat /\ residue \in Nat /\ escrow \in Nat
  BY DEF VInv, RedemptionEscrow, Requested, ReqSum, CAssetSupply, TypeOK
<1>6. SumOf(wallet) \in Nat
  BY StoresFinite DEF VInv
<1> QED
  BY <1>2, <1>3, <1>4, <1>5, <1>6

\* calculateCAssetValue is a natural, at least the coins of the vault.
LEMMA ValueType ==
  ASSUME TypeOK, NEW v \in Nat
  PROVE  CAssetValue(v) \in Nat /\ ToDec(v) <= CAssetValue(v)
<1>1. SumOf(loans) \in Nat /\ ToDec(v) \in Nat
  BY StoresFinite, ScaleAssumption DEF ToDec
<1> QED
  BY <1>1 DEF CAssetValue, GetLoansSum

-----------------------------------------------------------------------------
(* Deposits and requests.                                                  *)

\* What a deposit mints is a number.
LEMMA NewCAssetType ==
  ASSUME TypeOK, NEW amount \in DepositAmounts
  PROVE  NewCAssetAmount(amount) \in Int
<1> DEFINE value == CAssetValue(vault + amount)
           share == Quo(ToDec(amount), value)
<1>1. amount \in Nat /\ amount > 0 /\ vault \in Nat /\ supply \in Nat
  BY VaultAssumption DEF TypeOK
<1>2. /\ ToDec(amount) \in Nat /\ ToDec(amount) > 0
      /\ ToDec(amount) <= ToDec(vault + amount)
      /\ ToDec(supply) \in Nat
  BY <1>1, ScaleAssumption DEF ToDec
<1>3. value \in Nat /\ ToDec(vault + amount) <= value /\ ToDec(vault + amount) \in Nat
  BY <1>1, ValueType, ScaleAssumption DEF ToDec
<1> HIDE DEF value
<1>4. share \in Nat /\ share <= Scale
  BY <1>2, <1>3, QuoType, QuoBelow
<1> HIDE DEF share
<1>5. share # Scale => Quo(ToDec(supply), Scale - share) \in Nat
  BY <1>2, <1>4, QuoType, ScaleAssumption
<1>6. share # Scale => RoundInt(Quo(ToDec(supply), Scale - share)) \in Nat
  BY <1>5, RoundTruncate
<1> QED
  BY <1>1, <1>6 DEF NewCAssetAmount, share, value

LEMMA DepositKeeps ==
  ASSUME VInv, txs < MaxTxs, txs' = txs + 1,
         NEW u \in Users, NEW amount \in DepositAmounts, AddDeposit(u, amount)
  PROVE  VInv'
<1> DEFINE new == NewCAssetAmount(amount)
<1>1. amount \in Nat /\ new \in Nat /\ wallet \in [Users -> Nat]
  BY NewCAssetType, VaultAssumption DEF AddDeposit, VInv, TypeOK
<1>2. /\ wallet' = [wallet EXCEPT ![u] = wallet[u] + new]
      /\ supply' = supply + new /\ vault' = vault + amount
      /\ UNCHANGED <<height, phase, escrow, requests, loans, handling, history>>
      /\ phase = "tx"
  BY DEF AddDeposit, InTx
<1> HIDE DEF new
<1>3. SumOf(wallet') = SumOf(wallet) - wallet[u] + (wallet[u] + new)
  <2>1. wallet[u] + new \in Nat
    BY <1>1
  <2> QED
    BY <1>1, <1>2, <2>1, WalletSet
<1>4. SumOf(wallet) \in Nat
  BY StoresFinite DEF VInv
<1>5. TypeOK'
  BY <1>1, <1>2, VaultAssumption DEF VInv, TypeOK, handling, history
<1>6. CAssetSupply'
  BY <1>1, <1>2, <1>3, <1>4 DEF VInv, CAssetSupply, TypeOK
<1>7. RedemptionEscrow'
  BY <1>2 DEF VInv, RedemptionEscrow, Requested, history
<1> QED
  BY <1>2, <1>5, <1>6, <1>7 DEF VInv, VaultCovers, PhaseOK, handling

LEMMA CreateKeeps ==
  ASSUME VInv, txs < MaxTxs, txs' = txs + 1,
         NEW u \in Users, NEW amount \in RequestAmounts, NEW fee \in Fees,
         CreateRedemptionRequest(u, amount, fee)
  PROVE  VInv'
<1> DEFINE k == Key(CAssetName, u)
           r == [amount |-> amount, fee |-> fee, addedAt |-> height]
<1>1. amount \in Nat /\ r \in Request /\ r.amount = amount
  BY VaultAssumption DEF VInv, TypeOK, Request
<1>2. /\ amount <= wallet[u]
      /\ wallet' = [wallet EXCEPT ![u] = wallet[u] - amount]
      /\ escrow' = escrow + amount
      /\ requests' = With(requests, k, r)
      /\ orphaned' = orphaned + AmountAt(k)
      /\ UNCHANGED <<height, phase, vault, supply, loans, handling, residue, forgotten>>
      /\ phase = "tx"
  BY DEF CreateRedemptionRequest, InTx
<1>3. /\ wallet \in [Users -> Nat] /\ wallet[u] \in Nat /\ wallet[u] - amount \in Nat
      /\ requests \in [DOMAIN requests -> Request]
      /\ IsFiniteSet(DOMAIN requests)
      /\ SumOf(wallet) \in Nat
  BY <1>1, <1>2, StoresFinite DEF VInv, TypeOK
<1>4. SumOf(wallet') = SumOf(wallet) - wallet[u] + (wallet[u] - amount)
  BY <1>2, <1>3, WalletSet
<1>5. AmountAt(k) \in Nat
  BY RequestEscrowed DEF AmountAt
<1>6. /\ requests' \in [DOMAIN requests' -> Request]
      /\ DOMAIN requests' \subseteq {Key(CAssetName, v) : v \in Users}
      /\ DOMAIN requests \subseteq DOMAIN requests'
  <2> HIDE DEF r
  <2> QED
    BY <1>1, <1>2, <1>3 DEF With, VInv, TypeOK
<1> HIDE DEF k, r
<1>7. /\ ReqSum(Without(requests, {k})) \in Nat
      /\ ReqSum(requests') = ReqSum(Without(requests, {k})) + amount
  BY <1>1, <1>2, <1>3, ReqWith
<1>8. ReqSum(requests) = ReqSum(Without(requests, {k})) + AmountAt(k)
  <2>1. CASE k \in DOMAIN requests
    BY <1>3, <2>1, ReqWithout DEF AmountAt
  <2>2. CASE k \notin DOMAIN requests
    <3>1. Without(requests, {k}) = requests
      BY <1>3, <2>2 DEF Without
    <3> QED
      BY <1>7, <2>2, <3>1 DEF AmountAt
  <2> QED
    BY <2>1, <2>2
<1>9. TypeOK'
  BY <1>1, <1>2, <1>3, <1>5, <1>6, VaultAssumption DEF VInv, TypeOK, handling
<1>10. RedemptionEscrow'
  <2>1. escrow = ReqSum(requests) + orphaned + forgotten + residue
    BY DEF VInv, RedemptionEscrow, Requested, ReqSum
  <2>2. escrow' = ReqSum(requests') + orphaned' + forgotten' + residue'
    BY <1>1, <1>2, <1>5, <1>7, <1>8, <2>1 DEF VInv, TypeOK
  <2> QED
    BY <2>2 DEF RedemptionEscrow, Requested, ReqSum
<1>11. CAssetSupply'
  BY <1>1, <1>2, <1>3, <1>4 DEF VInv, CAssetSupply, TypeOK
<1> QED
  BY <1>2, <1>9, <1>10, <1>11 DEF VInv, VaultCovers, PhaseOK, handling

LEMMA CancelKeeps ==
  ASSUME VInv, txs < MaxTxs, txs' = txs + 1,
         NEW u \in Users, CancelRedemptionRequest(u)
  PROVE  VInv'
<1> DEFINE k == Key(CAssetName, u)
           amount == requests[k].amount
<1>1. /\ k \in DOMAIN requests
      /\ wallet' = [wallet EXCEPT ![u] = wallet[u] + amount]
      /\ escrow' = escrow - amount
      /\ requests' = Without(requests, {k})
      /\ UNCHANGED <<height, phase, vault, supply, loans, handling, history>>
      /\ phase = "tx"
  BY DEF CancelRedemptionRequest, InTx
<1>2. amount \in Nat /\ amount <= escrow
  BY <1>1, RequestEscrowed
<1> HIDE DEF amount
<1>3. /\ wallet \in [Users -> Nat] /\ wallet[u] \in Nat /\ wallet[u] + amount \in Nat
      /\ requests \in [DOMAIN requests -> Request]
      /\ IsFiniteSet(DOMAIN requests)
      /\ SumOf(wallet) \in Nat
  BY <1>2, StoresFinite DEF VInv, TypeOK
<1>4. SumOf(wallet') = SumOf(wallet) - wallet[u] + (wallet[u] + amount)
  BY <1>1, <1>3, WalletSet
<1>5. /\ requests' \in [DOMAIN requests' -> Request]
      /\ DOMAIN requests' \subseteq DOMAIN requests
  BY <1>1, <1>3 DEF Without
<1>6. /\ ReqSum(requests') \in Nat
      /\ ReqSum(requests) = ReqSum(requests') + amount
  BY <1>1, <1>3, ReqWithout DEF amount
<1> HIDE DEF k
<1>7. TypeOK'
  <2>1. queue' = {} /\ wallet' \in [Users -> Nat] /\ escrow' \in Nat
    BY <1>1, <1>2, <1>3 DEF VInv, TypeOK, PhaseOK, handling
  <2>2. DOMAIN requests' \subseteq {Key(CAssetName, v) : v \in Users}
    BY <1>5 DEF VInv, TypeOK
  <2>3. queue' \subseteq DOMAIN requests'
    BY <2>1
  <2>4. UNCHANGED <<height, phase, vault, supply, loans, handling, history>>
    BY <1>1
  <2>5. txs' \in 0..MaxTxs
    BY VaultAssumption DEF VInv, TypeOK
  <2>6. requests' \in [DOMAIN requests' -> Request]
    BY <1>5
  <2> QED
    BY <2>1, <2>2, <2>3, <2>4, <2>5, <2>6 DEF VInv, TypeOK, handling, history
<1>8. RedemptionEscrow'
  <2>1. escrow = ReqSum(requests) + orphaned + forgotten + residue
    BY DEF VInv, RedemptionEscrow, Requested, ReqSum
  <2>2. escrow' = ReqSum(requests') + orphaned' + forgotten' + residue'
    BY <1>1, <1>2, <1>6, <2>1 DEF VInv, TypeOK, history
  <2> QED
    BY <2>2 DEF RedemptionEscrow, Requested, ReqSum
<1>9. CAssetSupply'
  BY <1>1, <1>2, <1>3, <1>4 DEF VInv, CAssetSupply, TypeOK
<1> QED
  BY <1>1, <1>7, <1>8, <1>9 DEF VInv, VaultCovers, PhaseOK, handling

LEMMA UpdateKeeps ==
  ASSUME VInv, txs < MaxTxs, txs' = txs + 1,
         NEW u \in Users, NEW amount \in RequestAmounts, NEW fee \in Fees,
         UpdateRedemptionRequest(u, amount, fee)
  PROVE  VInv'
<1> DEFINE k == Key(CAssetName, u)
           old == requests[k].amount
           r == [requests[k] EXCEPT !.amount = amount, !.fee = fee]
<1>1. /\ k \in DOMAIN requests
      /\ amount <= wallet[u] + old
      /\ wallet' = [wallet EXCEPT ![u] = wallet[u] + old - amount]
      /\ escrow' = escrow - old + amount
      /\ requests' = With(requests, k, r)
      /\ UNCHANGED <<height, phase, vault, supply, loans, handling, history>>
      /\ phase = "tx"
  BY DEF UpdateRedemptionRequest, InTx
<1>2. amount \in Nat /\ old \in Nat /\ old <= escrow /\ requests[k] \in Request
  BY <1>1, RequestEscrowed, VaultAssumption
<1>3. r \in Request /\ r.amount = amount
  BY <1>2, VaultAssumption DEF Request
<1> HIDE DEF old, r
<1>4. /\ wallet \in [Users -> Nat] /\ wallet[u] \in Nat
      /\ wallet[u] + old - amount \in Nat
      /\ requests \in [DOMAIN requests -> Request]
      /\ IsFiniteSet(DOMAIN requests)
      /\ SumOf(wallet) \in Nat
  BY <1>1, <1>2, StoresFinite DEF VInv, TypeOK
<1>5. SumOf(wallet') = SumOf(wallet) - wallet[u] + (wallet[u] + old - amount)
  BY <1>1, <1>4, WalletSet
<1>6. /\ requests' \in [DOMAIN requests' -> Request]
      /\ DOMAIN requests' = DOMAIN requests
  BY <1>1, <1>3, <1>4 DEF With
<1>7. /\ ReqSum(Without(requests, {k})) \in Nat
      /\ ReqSum(requests') = ReqSum(Without(requests, {k})) + amount
      /\ ReqSum(requests) = ReqSum(Without(requests, {k})) + old
  <2>1. k \in DOMAIN requests /\ requests' = With(requests, k, r)
    BY <1>1
  <2> HIDE DEF k
  <2>2. /\ ReqSum(Without(requests, {k})) \in Nat
        /\ ReqSum(With(requests, k, r)) = ReqSum(Without(requests, {k})) + r.amount
    BY <1>3, <1>4, ReqWith
  <2>3. ReqSum(requests) = ReqSum(Without(requests, {k})) + requests[k].amount
    BY <1>4, <2>1, ReqWithout
  <2> QED
    BY <1>3, <2>1, <2>2, <2>3 DEF old
<1> HIDE DEF k
<1>8. TypeOK'
  BY <1>1, <1>2, <1>4, <1>6, VaultAssumption DEF VInv, TypeOK, handling, history
<1>9. RedemptionEscrow'
  <2>1. escrow = ReqSum(requests) + orphaned + forgotten + residue
    BY DEF VInv, RedemptionEscrow, Requested, ReqSum
  <2>2. escrow' = ReqSum(requests') + orphaned' + forgotten' + residue'
    BY <1>1, <1>2, <1>7, <2>1 DEF VInv, TypeOK, history
  <2> QED
    BY <2>2 DEF RedemptionEscrow, Requested, ReqSum
<1>10. CAssetSupply'
  BY <1>1, <1>2, <1>4, <1>5 DEF VInv, CAssetSupply, TypeOK
<1> QED
  BY <1>1, <1>8, <1>9, <1>10 DEF VInv, VaultCovers, PhaseOK, handling

-----------------------------------------------------------------------------
(* Loans and interest.                                                     *)

\* What SetLoan stores.
LEMMA SetLoanType ==
  ASSUME TypeOK, NEW u \in Users, NEW amount \in Int
  PROVE  /\ SetLoan(u, amount) \in [DOMAIN SetLoan(u, amount) -> Nat \ {0}]
         /\ DOMAIN SetLoan(u, amount) \subseteq Users
BY DEF TypeOK, SetLoan, With, Without

\* Vault and loans have no part in the accounts of the cAssets.
LEMMA LoanStepKeeps ==
  ASSUME VInv, txs < MaxTxs, txs' = txs + 1,
         NEW u \in Users, NEW amount \in Int, loans' = SetLoan(u, amount),
         vault' \in Nat, phase = "tx",
         UNCHANGED <<height, phase, supply, wallet, escrow, requests, handling, history>>
  PROVE  VInv'
<1>1. TypeOK'
  BY SetLoanType, VaultAssumption DEF VInv, TypeOK, handling, history
<1> QED
  BY <1>1 DEF VInv, RedemptionEscrow, Requested, CAssetSupply, VaultCovers,
              PhaseOK, handling, history

LEMMA BorrowKeeps ==
  ASSUME VInv, txs < MaxTxs, txs' = txs + 1,
         NEW u \in Users, NEW amount \in LoanAmounts, Borrow(u, amount)
  PROVE  VInv'
<1>1. amount \in Nat /\ LoanOf(u) \in Nat /\ vault \in Nat
  BY VaultAssumption DEF VInv, TypeOK, LoanOf
<1>2. CeilInt(amount) \in Nat
  BY <1>1, CeilType
<1>3. vault' \in Nat
  BY <1>1, <1>2 DEF Borrow
<1>4. LoanOf(u) + amount \in Int
  BY <1>1
<1> QED
  BY <1>3, <1>4, LoanStepKeeps DEF Borrow, InTx

LEMMA RepayKeeps ==
  ASSUME VInv, txs < MaxTxs, txs' = txs + 1,
         NEW u \in DOMAIN loans, NEW amount \in Nat, Repay(u, amount)
  PROVE  VInv'
<1> DEFINE paid == MinDec(amount, loans[u])
<1>1. loans[u] \in Nat /\ u \in Users /\ vault \in Nat
  BY DEF VInv, TypeOK
<1>2. paid \in Nat
  BY <1>1 DEF MinDec
<1> HIDE DEF paid
<1>3. CeilInt(paid) \in Nat
  BY <1>2, CeilType
<1>4. vault' \in Nat /\ loans[u] - paid \in Int
  BY <1>1, <1>2, <1>3 DEF Repay, paid
<1> QED
  BY <1>1, <1>4, LoanStepKeeps DEF Repay, InTx, paid

LEMMA TransactionKeeps == VInv /\ Transaction => VInv'
<1> SUFFICES ASSUME VInv, Transaction PROVE VInv'
  OBVIOUS
<1>1. txs < MaxTxs /\ txs' = txs + 1
  BY DEF Transaction
<1>2. ASSUME NEW u \in Users, RepayLoan(u) PROVE VInv'
  <2>1. u \in DOMAIN loans /\ Repay(u, loans[u]) /\ loans[u] \in Nat
    BY <1>2 DEF RepayLoan, VInv, TypeOK
  <2> QED
    BY <1>1, <2>1, RepayKeeps
<1>3. ASSUME NEW u \in Users, NEW amount \in LoanAmounts,
             PartiallyRepayLoan(u, amount)
      PROVE  VInv'
  <2>1. amount \in Nat
    BY VaultAssumption
  <2>2. ToDec(CeilInt(amount)) \in Nat
    BY <2>1, CeilType, ScaleAssumption DEF ToDec
  <2> QED
    BY <1>1, <1>3, <2>2, RepayKeeps DEF PartiallyRepayLoan
<1> QED
  BY <1>1, <1>2, <1>3, DepositKeeps, CreateKeeps, UpdateKeeps, CancelKeeps,
     BorrowKeeps DEF Transaction

LEMMA BeginEndBlockKeeps == VInv /\ BeginEndBlock => VInv'
<1> SUFFICES ASSUME VInv, BeginEndBlock PROVE VInv'
  OBVIOUS
<1>1. PICK rate \in Rates : ApplyInterest(rate)
  BY DEF BeginEndBlock
<1>2. \A u \in DOMAIN loans : WithInterest(loans[u], rate) \in Nat
  <2> SUFFICES ASSUME NEW u \in DOMAIN loans
               PROVE  WithInterest(loans[u], rate) \in Nat
    OBVIOUS
  <2>1. loans[u] \in Nat /\ rate \in Nat
    BY VaultAssumption DEF VInv, TypeOK
  <2>2. Mul(loans[u], rate) \in Nat
    BY <2>1, MulType
  <2> QED
    BY <2>1, <2>2 DEF WithInterest
<1>3. loans' \in [DOMAIN loans' -> Nat \ {0}] /\ DOMAIN loans' \subseteq DOMAIN loans
  BY <1>1, <1>2 DEF ApplyInterest
<1>4. GetRedemptions = DOMAIN requests
  <2>1. \A u \in Users : Key(CAssetName, u)[1] = CAssetName
    BY DEF Key
  <2>2. \A k \in DOMAIN requests : k[1] = CAssetName
    BY <2>1 DEF VInv, TypeOK
  <2> QED
    BY <2>2 DEF GetRedemptions
<1>5. ToDec(vault) \in Nat /\ (vault = 0 => ToDec(vault) = 0)
  BY ScaleAssumption DEF VInv, TypeOK, ToDec
<1>6. TypeOK'
  BY <1>3, <1>4, <1>5, VaultAssumption
     DEF BeginEndBlock, VInv, TypeOK, ledger, history
<1>7. VaultCovers'
  BY <1>5 DEF BeginEndBlock, VaultCovers, ledger
<1>8. PhaseOK'
  BY <1>4, <1>5 DEF BeginEndBlock, InTx, PhaseOK
<1> QED
  BY <1>6, <1>7, <1>8 DEF VInv, BeginEndBlock, RedemptionEscrow, Requested,
                         CAssetSupply, ledger, history

-----------------------------------------------------------------------------
(* HandleRedemptions.                                                      *)

\* The amounts of one redemption: fee and payout are covered by the vault,
\* the cAssets by the request.
LEMMA RedemptionBounds ==
  ASSUME VInv, phase = "redeem", NEW k \in queue,
         RedemptionValue(requests[k].amount) > 0
  PROVE  LET amount == requests[k].amount
             gross == Redeemed(amount)
             feeCost == Mul(gross, requests[k].fee)
             used == UsedCAssets(amount)
             paid == ProtocolAmount(feeCost) + NetAmount(gross, feeCost)
         IN /\ gross \in Nat /\ gross <= available
            /\ ProtocolAmount(feeCost) \in Nat
            /\ NetAmount(gross, feeCost) \in Nat
            /\ paid \in Nat /\ ToDec(paid) <= gross
            /\ RoundInt(used) \in Nat
            /\ TruncateInt(used) \in Nat
            /\ TruncateInt(used) <= RoundInt(used)
            /\ RoundInt(used) <= amount
            /\ gross < available => RoundInt(used) = amount
<1> DEFINE amount == requests[k].amount
           fee == requests[k].fee
           value == RedemptionValue(amount)
           gross == Redeemed(amount)
<1>1. /\ k \in DOMAIN requests /\ requests[k] \in Request
      /\ amount \in Nat /\ amount > 0 /\ amount <= supply
  <2>1. k \in DOMAIN requests /\ escrow \in Nat /\ supply \in Nat
    BY DEF VInv, TypeOK
  <2> QED
    BY <2>1, RequestEscrowed
<1>2. fee \in 0..Scale
  BY <1>1, VaultAssumption DEF Request
<1>3. vault \in Nat /\ supply \in Nat /\ supply > 0 /\ available \in Nat
  BY <1>1 DEF VInv, TypeOK
<1> HIDE DEF amount, fee
<1>4. value \in Nat /\ value > 0
  <2>1. ToDec(amount) \in Nat /\ ToDec(supply) \in Nat /\ ToDec(supply) > 0
    BY <1>1, <1>3, ScaleAssumption DEF ToDec
  <2>2. CAssetValue(vault) \in Nat
    BY <1>3, ValueType DEF VInv
  <2>3. Quo(ToDec(amount), ToDec(supply)) \in Nat
    BY <2>1, QuoType
  <2> QED
    BY <2>2, <2>3, MulType DEF RedemptionValue, amount
<1>5. gross = MinDec(value, available)
  BY DEF Redeemed
<1> HIDE DEF value
<1>6. /\ gross \in Nat /\ gross <= available /\ gross <= value
      /\ gross < available => gross = value
  BY <1>3, <1>4, <1>5 DEF MinDec
<1>7. UsedCAssets(amount) = Mul(ToDec(amount), Quo(gross, value))
  BY DEF UsedCAssets, value
<1> HIDE DEF gross
<1>8. /\ ProtocolAmount(Mul(gross, fee)) \in Nat
      /\ NetAmount(gross, Mul(gross, fee)) \in Nat
      /\ ToDec(ProtocolAmount(Mul(gross, fee)) + NetAmount(gross, Mul(gross, fee)))
           <= gross
  BY <1>2, <1>6, FeeSplit
<1>9. /\ RoundInt(UsedCAssets(amount)) \in Nat
      /\ TruncateInt(UsedCAssets(amount)) \in Nat
      /\ TruncateInt(UsedCAssets(amount)) <= RoundInt(UsedCAssets(amount))
      /\ RoundInt(UsedCAssets(amount)) <= amount
      /\ gross = value => RoundInt(UsedCAssets(amount)) = amount
  BY <1>1, <1>4, <1>6, <1>7, UsedBounds
<1> QED
  BY <1>6, <1>8, <1>9 DEF amount, fee, gross

LEMMA HandleSingleKeeps ==
  ASSUME VInv, phase = "redeem", available > 0, NEW k \in queue,
         HandleSingleRedemption(k)
  PROVE  VInv'
<1> DEFINE amount == requests[k].amount
           gross == Redeemed(amount)
           feeCost == Mul(gross, requests[k].fee)
           used == UsedCAssets(amount)
           paid == ProtocolAmount(feeCost) + NetAmount(gross, feeCost)
           rounded == RoundInt(used)
           burned == TruncateInt(used)
<1>1. /\ RedemptionValue(amount) > 0
      /\ requests' = SetRedemption(k, amount - rounded)
      /\ vault' = vault - ProtocolAmount(feeCost) - NetAmount(gross, feeCost)
      /\ escrow' = escrow - burned
      /\ supply' = supply - burned
      /\ available' = available - gross
      /\ residue' = residue + rounded - burned
      /\ queue' = queue \ {k}
      /\ UNCHANGED <<height, phase, wallet, loans, halted, txs, orphaned, forgotten>>
  BY DEF HandleSingleRedemption
<1>2. /\ gross \in Nat /\ gross <= available
      /\ ProtocolAmount(feeCost) \in Nat /\ NetAmount(gross, feeCost) \in Nat
      /\ ToDec(paid) <= gross
      /\ rounded \in Nat /\ burned \in Nat
      /\ burned <= rounded /\ rounded <= amount
      /\ gross < available => rounded = amount
  BY <1>1, RedemptionBounds
<1>3. /\ k \in DOMAIN requests /\ requests[k] \in Request
      /\ amount \in Nat /\ amount > 0 /\ amount <= escrow /\ escrow <= supply
  <2>1. k \in DOMAIN requests
    BY DEF VInv, TypeOK
  <2> QED
    BY <2>1, RequestEscrowed
<1>4. vault' = vault - paid /\ paid \in Nat /\ vault \in Nat
  BY <1>1, <1>2 DEF VInv, TypeOK
<1> HIDE DEF gross, feeCost, paid, rounded, burned
<1>5. requests \in [DOMAIN requests -> Request] /\ IsFiniteSet(DOMAIN requests)
  BY StoresFinite DEF VInv, TypeOK
<1> DEFINE r == [requests[k] EXCEPT !.amount = amount - rounded]
<1>6. rounded < amount => r \in Request /\ r.amount = amount - rounded
  BY <1>2, <1>3 DEF Request
<1>7. requests' = IF rounded < amount THEN With(requests, k, r)
                                      ELSE Without(requests, {k})
  BY <1>1, <1>2, <1>3 DEF SetRedemption
<1> HIDE DEF r, amount
<1>8. /\ ReqSum(requests') \in Nat
      /\ ReqSum(requests) = ReqSum(requests') + rounded
  <2>1. /\ ReqSum(Without(requests, {k})) \in Nat
        /\ ReqSum(requests) = ReqSum(Without(requests, {k})) + amount
    BY <1>3, <1>5, ReqWithout DEF amount
  <2>2. rounded < amount =>
          ReqSum(With(requests, k, r))
            = ReqSum(Without(requests, {k})) + (amount - rounded)
    BY <1>5, <1>6, ReqWith
  <2>3. CASE rounded < amount
    <3>1. requests' = With(requests, k, r)
      BY <1>7, <2>3
    <3> QED
      BY <1>2, <1>3, <2>1, <2>2, <2>3, <3>1
  <2>4. CASE ~(rounded < amount)
    <3>1. requests' = Without(requests, {k}) /\ rounded = amount
      BY <1>2, <1>3, <1>7, <2>4
    <3> QED
      BY <1>3, <2>1, <3>1
  <2> QED
    BY <2>3, <2>4
<1>9. /\ requests' \in [DOMAIN requests' -> Request]
      /\ DOMAIN requests' \subseteq DOMAIN requests
      /\ DOMAIN requests \ {k} \subseteq DOMAIN requests'
      /\ rounded = amount => DOMAIN requests' = DOMAIN requests \ {k}
  BY <1>3, <1>5, <1>6, <1>7 DEF With, Without
<1>10. vault' \in Nat /\ available' \in Nat /\ available' <= ToDec(vault')
  <2>1. available \in Nat /\ available <= ToDec(vault)
    BY DEF VInv, TypeOK, VaultCovers
  <2>2. paid * Scale <= gross /\ gross <= vault * Scale
    BY <1>2, <1>4, <2>1, ScaleAssumption DEF ToDec
  <2>3. paid <= vault
    <3>1. paid * Scale <= vault * Scale
      BY <1>2, <1>4, <2>2, ScaleAssumption
    <3> QED
      BY <1>4, <3>1, ScaleAssumption
  <2>4. (vault - paid) * Scale = vault * Scale - paid * Scale
    BY <1>4, ScaleAssumption
  <2>5. vault * Scale \in Nat /\ paid * Scale \in Nat
    BY <1>4, ScaleAssumption
  <2> QED
    BY <1>1, <1>2, <1>4, <2>1, <2>2, <2>3, <2>4, <2>5 DEF ToDec
<1>11. TypeOK'
  <2>1. escrow' \in Nat /\ supply' \in Nat /\ residue' \in Nat
    BY <1>1, <1>2, <1>3 DEF VInv, TypeOK
  <2>2. queue' \subseteq DOMAIN requests'
    BY <1>1, <1>9 DEF VInv, TypeOK
  <2> QED
    BY <1>1, <1>9, <1>10, <2>1, <2>2, VaultAssumption DEF VInv, TypeOK
<1>12. RedemptionEscrow'
  <2>1. escrow = ReqSum(requests) + orphaned + forgotten + residue
    BY DEF VInv, RedemptionEscrow, Requested, ReqSum
  <2>2. escrow' = ReqSum(requests') + orphaned' + forgotten' + residue'
    BY <1>1, <1>2, <1>8, <2>1 DEF VInv, TypeOK
  <2> QED
    BY <2>2 DEF RedemptionEscrow, Requested, ReqSum
<1>13. CAssetSupply'
  <2>1. SumOf(wallet) \in Nat
    BY StoresFinite DEF VInv
  <2> QED
    BY <1>1, <1>2, <2>1 DEF VInv, CAssetSupply, TypeOK
<1>14. PhaseOK'
  <2>1. available' > 0 => rounded = amount
    BY <1>1, <1>2 DEF VInv, TypeOK
  <2> QED
    BY <1>1, <1>9, <2>1 DEF VInv, PhaseOK
<1> QED
  BY <1>10, <1>11, <1>12, <1>13, <1>14 DEF VInv, VaultCovers

LEMMA RedemptionsKeep == VInv /\ HandleRedemptions => VInv'
<1> SUFFICES ASSUME VInv, HandleRedemptions PROVE VInv'
  OBVIOUS
<1>1. PICK k \in queue : HandleSingleRedemption(k) \/ PanicOnZeroValue(k)
  BY DEF HandleRedemptions
<1>2. CASE HandleSingleRedemption(k)
  BY <1>2, HandleSingleKeeps DEF HandleRedemptions
<1>3. CASE PanicOnZeroValue(k)
  BY <1>3 DEF PanicOnZeroValue, VInv, TypeOK, RedemptionEscrow, Requested,
              CAssetSupply, VaultCovers, PhaseOK, ledger, history
<1> QED
  BY <1>1, <1>2, <1>3

LEMMA NextBlockKeeps == VInv /\ NextBlock => VInv'
BY VaultAssumption DEF NextBlock, VInv, TypeOK, RedemptionEscrow, Requested,
   CAssetSupply, VaultCovers, PhaseOK, ledger, history

\* No request is stored under the base denom, so an export finds none, and the
\* cAssets of all of them stay in PoolRedemption.
LEMMA RestartKeeps == VInv /\ Restart => VInv'
<1> SUFFICES ASSUME VInv, Restart PROVE VInv'
  OBVIOUS
<1>1. GetDenomRedemptions = {}
  BY DEF VInv, TypeOK, GetDenomRedemptions, Key, CAssetName, BaseDenom
<1>2. /\ DOMAIN requests' = {}
      /\ requests' \in [DOMAIN requests' -> Request]
  BY <1>1 DEF Restart, Only
<1>3. /\ SumOf([k \in GetDenomRedemptions |-> requests[k].amount]) = 0
      /\ SumOf([k \in DOMAIN requests' |-> requests'[k].amount]) = 0
  BY <1>1, <1>2, SumZero
<1>4. /\ forgotten' = forgotten + Requested - 0
      /\ Requested' = 0
      /\ UNCHANGED <<height, phase, ledger, loans, handling, txs, orphaned, residue>>
      /\ phase = "tx" /\ queue = {}
  BY <1>3 DEF Restart, Requested, InTx, VInv, PhaseOK
<1>5. Requested \in Nat /\ forgotten \in Nat /\ orphaned \in Nat /\ residue \in Nat
  <2>1. IsFiniteSet(DOMAIN requests) /\ requests \in [DOMAIN requests -> Request]
    BY StoresFinite DEF VInv, TypeOK
  <2>2. [k \in DOMAIN requests |-> requests[k].amount] \in [DOMAIN requests -> Nat]
    BY <2>1 DEF Request
  <2> QED
    BY <2>1, <2>2, SumType DEF Requested, VInv, TypeOK
<1>6. TypeOK'
  BY <1>2, <1>4, <1>5 DEF VInv, TypeOK, ledger, handling
<1>7. RedemptionEscrow'
  BY <1>4, <1>5 DEF VInv, RedemptionEscrow, ledger
<1>8. CAssetSupply' /\ VaultCovers' /\ PhaseOK'
  BY <1>4 DEF VInv, CAssetSupply, VaultCovers, PhaseOK, ledger, handling
<1> QED
  BY <1>6, <1>7, <1>8 DEF VInv

\* VInv is an inductive invariant.
LEMMA VaultInvariant == Spec => []VInv
<1>1. Init => VInv
  <2> SUFFICES ASSUME Init PROVE VInv
    OBVIOUS
  <2>1. TypeOK /\ VaultCovers /\ PhaseOK
    <3>1. DOMAIN requests = {} /\ DOMAIN loans = {}
      BY DEF Init
    <3>2. /\ requests \in [DOMAIN requests -> Request]
          /\ loans \in [DOMAIN loans -> Nat \ {0}]
      BY <3>1 DEF Init
    <3>3. height \in 1..MaxHeight /\ txs \in 0..MaxTxs
      BY VaultAssumption DEF Init
    <3>4. wallet \in [Users -> Nat]
      BY DEF Init
    <3> QED
      BY <3>1, <3>2, <3>3, <3>4 DEF Init, TypeOK, VaultCovers, PhaseOK
  <2>2. SumOf(wallet) = 0
    BY SumZero DEF Init
  <2>3. Requested = 0
    BY SumZero DEF Init, Requested
  <2> QED
    BY <2>1, <2>2, <2>3 DEF Init, VInv, RedemptionEscrow, CAssetSupply
<1>2. VInv /\ UNCHANGED vars => VInv'
  BY DEF VInv, TypeOK, RedemptionEscrow, Requested, CAssetSupply, VaultCovers,
         PhaseOK, vars, ledger, handling, history
<1>3. VInv /\ [Next]_vars => VInv'
  BY <1>2, TransactionKeeps, BeginEndBlockKeeps, RedemptionsKeep,
     NextBlockKeeps, RestartKeeps DEF Next
<1> QED
  BY <1>1, <1>3, PTL DEF Spec

-----------------------------------------------------------------------------
(* The theorems.                                                           *)

\* No balance of the money market is ever negative: the vault and the escrow
\* cover every payment the EndBlocker makes, whatever was rounded before.
THEOREM VaultTypeCorrect == Spec => []TypeOK
<1>1. VInv => TypeOK
  BY DEF VInv
<1> QED
  BY <1>1, VaultInvariant, PTL

\* PoolRedemption holds exactly the cAssets of the requests, those of requests
\* that CreateRedemptionRequest overwrote or that an export left out, and
\* those that rounding left.
THEOREM VaultEscrow == Spec => []RedemptionEscrow
<1>1. VInv => RedemptionEscrow
  BY DEF VInv
<1> QED
  BY <1>1, VaultInvariant, PTL

\* Every cAsset that was minted and not burned is in a wallet or escrowed.
THEOREM VaultSupply == Spec => []CAssetSupply
<1>1. VInv => CAssetSupply
  BY DEF VInv
<1> QED
  BY <1>1, VaultInvariant, PTL

\* HandleRedemptions never counts on coins the vault has paid already.
THEOREM VaultCovered == Spec => []VaultCovers
<1>1. VInv => VaultCovers
  BY DEF VInv
<1> QED
  BY <1>1, VaultInvariant, PTL

\* The action of PriorityKept.
PriorityStep ==
  phase' = "redeem" =>
    \A k \in queue \ queue' :
      \A j \in DOMAIN requests' : ~Before(requests[j], requests[k])

\* A request is paid in part only with the last coins, so whoever still waits
\* when coins are left is in the queue, and the first of the queue is paid.
LEMMA PriorityCause == VInv /\ [Next]_vars => PriorityStep
<1> SUFFICES ASSUME VInv, [Next]_vars, phase' = "redeem",
                    NEW k \in queue \ queue', NEW j \in DOMAIN requests'
             PROVE  ~Before(requests[j], requests[k])
  BY DEF PriorityStep
<1>1. phase # "tx" /\ queue' # queue
  BY DEF VInv, PhaseOK
<1>2. HandleRedemptions
  <2>1. ~Transaction
    <3>1. ASSUME NEW u \in Users, NEW amount, NEW fee,
                 \/ AddDeposit(u, amount)
                 \/ CreateRedemptionRequest(u, amount, fee)
                 \/ UpdateRedemptionRequest(u, amount, fee)
                 \/ CancelRedemptionRequest(u)
                 \/ Borrow(u, amount)
                 \/ Repay(u, amount)
          PROVE  InTx
      BY <3>1 DEF AddDeposit, CreateRedemptionRequest, UpdateRedemptionRequest,
                  CancelRedemptionRequest, Borrow, Repay
    <3> QED
      BY <1>1, <3>1 DEF Transaction, RepayLoan, PartiallyRepayLoan, InTx
  <2>2. ~BeginEndBlock /\ ~Restart
    BY <1>1 DEF BeginEndBlock, Restart, InTx
  <2>3. ~NextBlock
    BY DEF NextBlock
  <2>4. ~UNCHANGED vars
    BY <1>1 DEF vars, handling
  <2> QED
    BY <2>1, <2>2, <2>3, <2>4 DEF Next
<1>3. PICK i \in queue : First(i) /\ (HandleSingleRedemption(i) \/ PanicOnZeroValue(i))
  BY <1>2 DEF HandleRedemptions
<1>4. HandleSingleRedemption(i)
  BY <1>1, <1>3 DEF PanicOnZeroValue
<1>5. i = k
  BY <1>4 DEF HandleSingleRedemption
<1>6. queue = DOMAIN requests
  BY <1>2 DEF HandleRedemptions, VInv, PhaseOK
<1>7. DOMAIN requests' \subseteq DOMAIN requests
  BY <1>3, <1>4, <1>6 DEF HandleSingleRedemption, SetRedemption, With, Without
<1> QED
  BY <1>3, <1>5, <1>6, <1>7 DEF First

\* Requests are served by priority fee and age, however they were updated,
\* cancelled or paid in part before.
THEOREM VaultPriority == Spec => PriorityKept
<1>1. VInv /\ [Next]_vars => [PriorityStep]_vars
  BY PriorityCause
<1> QED
  BY <1>1, VaultInvariant, PTL DEF Spec, PriorityKept, PriorityStep

\* The action of PanicsOnlyOn.
PanicsStep ==
  (halted' /\ ~halted)
    => \E k \in queue : supply > (2 * Scale - 4) * requests[k].amount

\* Coins are left in the vault when a request is served, so a cAsset that is
\* worth nothing can only be a share that was rounded to 0.
LEMMA ZeroValueCause ==
  ASSUME VInv, phase = "redeem", available > 0, NEW k \in queue,
         RedemptionValue(requests[k].amount) = 0
  PROVE  supply > (2 * Scale - 4) * requests[k].amount
<1> DEFINE amount == requests[k].amount
           share == Quo(ToDec(amount), ToDec(supply))
<1>1. amount \in Nat /\ amount > 0 /\ supply \in Nat /\ amount <= supply
  <2>1. k \in DOMAIN requests /\ escrow \in Nat /\ supply \in Nat
    BY DEF VInv, TypeOK
  <2> QED
    BY <2>1, RequestEscrowed
<1> HIDE DEF amount
<1>2. vault \in Nat /\ vault > 0
  <2>1. vault \in Nat /\ available \in Nat /\ available <= ToDec(vault)
    BY DEF VInv, TypeOK, VaultCovers
  <2>2. vault = 0 => ToDec(vault) = 0
    BY ScaleAssumption DEF ToDec
  <2> QED
    BY <2>1, <2>2
<1>3. CAssetValue(vault) \in Nat /\ Scale <= CAssetValue(vault)
  <2>1. ToDec(vault) \in Nat /\ ToDec(vault) >= Scale
    BY <1>2, ToDecNat
  <2>2. CAssetValue(vault) \in Nat /\ ToDec(vault) <= CAssetValue(vault)
    BY <1>2, ValueType DEF VInv
  <2> QED
    BY <2>1, <2>2, ScaleAssumption
<1>4. share \in Nat
  <2>1. ToDec(amount) \in Nat /\ ToDec(supply) \in Nat /\ ToDec(supply) > 0
    BY <1>1, ScaleAssumption DEF ToDec
  <2> QED
    BY <2>1, QuoType
<1>5. Mul(CAssetValue(vault), share) = 0
  BY DEF RedemptionValue, amount
<1>6. share = 0
  <2> HIDE DEF share
  <2> QED
    BY <1>3, <1>4, <1>5, MulPositive
<1>7. supply > (2 * Scale - 4) * amount
  BY <1>1, <1>6, QuoZero
<1> QED
  BY <1>7 DEF amount

\* Only the round of a redemption can end the EndBlocker.
LEMMA PanicCause == VInv /\ [Next]_vars => PanicsStep
<1> SUFFICES ASSUME VInv, [Next]_vars, halted', ~halted
             PROVE  \E k \in queue : supply > (2 * Scale - 4) * requests[k].amount
  BY DEF PanicsStep
<1>1. HandleRedemptions
  <2>1. ~Transaction
    <3>1. ASSUME NEW u \in Users, NEW amount, NEW fee,
                 \/ AddDeposit(u, amount)
                 \/ CreateRedemptionRequest(u, amount, fee)
                 \/ UpdateRedemptionRequest(u, amount, fee)
                 \/ CancelRedemptionRequest(u)
                 \/ Borrow(u, amount)
                 \/ Repay(u, amount)
          PROVE  halted' = halted
      BY <3>1 DEF AddDeposit, CreateRedemptionRequest, UpdateRedemptionRequest,
                  CancelRedemptionRequest, Borrow, Repay, handling
    <3> QED
      BY <3>1 DEF Transaction, RepayLoan, PartiallyRepayLoan
  <2>2. ~BeginEndBlock /\ ~Restart
    BY DEF BeginEndBlock, Restart, handling
  <2>3. ~NextBlock /\ ~UNCHANGED vars
    BY DEF NextBlock, vars, handling
  <2> QED
    BY <2>1, <2>2, <2>3 DEF Next
<1>2. PICK k \in queue : HandleSingleRedemption(k) \/ PanicOnZeroValue(k)
  BY <1>1 DEF HandleRedemptions
<1>3. PanicOnZeroValue(k)
  BY <1>2 DEF HandleSingleRedemption
<1>4. supply > (2 * Scale - 4) * requests[k].amount
  BY <1>1, <1>3, ZeroValueCause DEF HandleRedemptions, PanicOnZeroValue
<1> QED
  BY <1>4

\* The division by the value of a request, which would stop the chain, fails
\* for no request that is more than a rounded share of the supply.
THEOREM VaultPanics == Spec => PanicsOnlyOn
<1>1. VInv /\ [Next]_vars => [PanicsStep]_vars
  BY PanicCause
<1> QED
  BY <1>1, VaultInvariant, PTL DEF Spec, PanicsOnlyOn, PanicsStep
=============================================================================
