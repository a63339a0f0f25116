---------------------------- MODULE MCCollateral ----------------------------
(***************************************************************************)
(* Two borrowers, the base currency, which is collateral at genesis as in  *)
(* the code, and a denom that becomes collateral by a vote and may have no *)
(* ratio yet; both can be borrowed.  Six messages are collateral in both   *)
(* denoms, a loan in both, and a fall of a price or of a loan-to-value;    *)
(* two blocks let users act on what a liquidation has left.  Trades use    *)
(* one coin less than they are given, or all, and yield less than the      *)
(* ratios promise, or more, which leads to refunds and a negative excess.  *)
(***************************************************************************)
EXTENDS Collateral

CONSTANTS u1, u2, xkp, atom

MCUsers == {u1, u2}
MCDenoms == {xkp, atom}
MCInitialCollateral == {xkp}
MCInitialRatios == {[d \in MCDenoms |-> Scale], [d \in MCDenoms |-> IF d = xkp THEN Scale ELSE 0]}
MCVaultFunds == [d \in MCDenoms |-> 8]
MCAmounts == {6}
MCLoanAmounts == {250}
MCRatios == {50, 100}
MCLtvs == {50, 90}
MCCaps == {10}
MCYields == {80, 200}
MCDepths == {2}
MCUnused == {0, 1}
MCRates == {10}
=============================================================================
