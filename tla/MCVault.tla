------------------------------ MODULE MCVault ------------------------------
(***************************************************************************)
(* Two decimals.  Deposits of 1 and 4 coins make cAssets that are worth    *)
(* little more or less than a coin; a deposit of 200 makes a request for 1 *)
(* cAsset worth less than the last digit.  Loans of 1.5 and 2.5 coins are  *)
(* rounded up, and paying back 2 of 2.5 leaves less than MinimumLoanSize.  *)
(* A fee of 0.7 on 3 cAssets brings the reserve a whole coin.              *)
(***************************************************************************)
EXTENDS Vault, TLC

CONSTANTS u1, u2

MCUsers == {u1, u2}
MCSymmetry == Permutations(MCUsers)
MCDepositAmounts == {1, 4, 200}
MCRequestAmounts == {1, 3}
MCFees == {0, 70}
MCLoanAmounts == {150, 250}
MCRates == {1}
=============================================================================
