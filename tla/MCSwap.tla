------------------------------- MODULE MCSwap -------------------------------
(***************************************************************************)
(* Two kCoins, one with two references.  In the first market the kCoins    *)
(* are near parity and the pool of kusd is small: base currency that       *)
(* leaves through another pair makes its ratio stale enough for a mint     *)
(* beyond the cap.  In the second kusd is below parity.  Two trades or     *)
(* votes move a kCoin to either side, two blocks let a burn meet what a    *)
(* mint has not sold.                                                      *)
(***************************************************************************)
EXTENDS Swap

CONSTANTS xkp, kusd, keur, usdc, usdt, eure

MCKCoins == {kusd, keur}
MCFiat == {usdc, usdt, eure}
MCInitialRefs == [k \in MCKCoins |-> IF k = kusd THEN {usdc, usdt} ELSE {eure}]

Market(k, r, s, base) == [d \in MCKCoins \cup MCFiat |->
  [base |-> ToDec(IF d = kusd THEN base ELSE 3 * base),
   other |-> ToDec(CASE d = kusd -> k [] d = usdc -> r [] OTHER -> s)]]

MCInitialPools == {Market(30, 90, 80, 100), Market(15, 20, 18, 20)}
MCStakingShares == {5, 10}
MCMaxSupplies == {23, 28}
MCDepths == {2}
MCLeftovers == {0, 1}
MCAmounts == {6}
MCShifts == {-84}
=============================================================================
