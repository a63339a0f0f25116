------------------------------ MODULE MCAssets ------------------------------
(***************************************************************************)
(* The registry of denoms and the token factory side by side: messages of  *)
(* both interleave, three to the registry or five to the factory or fewer  *)
(* of each.  Three votes add a denom and make it a reference of an old or  *)
(* a new kCoin, or remove one; five messages set a fee, create two denoms  *)
(* of two admins, mint and burn.  A user may ask for the names of kopi and *)
(* usdc.  The numbers of messages lie below, in and above the ranges that  *)
(* the validation allows.                                                  *)
(***************************************************************************)
EXTENDS Denominations, TokenFactory

CONSTANTS alice, bob, kopi, usdc, usdt, kusd, keur, ckusd, MaxSteps

MCUsers == {alice, bob}
MCNicknames == {kopi, usdc}
MCCoinAmounts == {-1, 1}
MCFees == {-1, 0, 2}
MCListed == {kopi, usdc, usdt, kusd, keur, ckusd}
MCReferenceLists == {<<usdc>>, <<usdt>>, <<usdt, usdt>>, <<usdc, usdt>>, <<kusd>>}
MCValues == {-1, 1, 2}
MCLimitChoices ==
  {[l \in Limits |-> CASE l = "maxSupply" -> 2 [] l = "maxBurnAmount" -> v [] OTHER -> 1] :
     v \in {-1, 1}}
Dex(n) == [name |-> n, factor |-> 1, minLiquidity |-> 1]
MCGenesisParams ==
  [dexDenoms |-> <<Dex(kopi), Dex(usdc), Dex(kusd), Dex(ckusd)>>,
   kCoins |-> <<[name |-> kusd, references |-> <<usdc>>, limits |-> [l \in Limits |-> 1]]>>,
   collateralDenoms |-> <<[name |-> kopi, ltv |-> 1, maxDeposit |-> 1]>>,
   cAssets |-> <<[name |-> ckusd, baseDenom |-> kusd, dexFeeShare |-> 1, borrowLimit |-> 1,
                  minimumLoanSize |-> 1]>>]

Init == RegistryInit /\ FactoryInit

Next ==
  \/ 2 * votes + messages < MaxSteps /\ RegistryNext /\ UNCHANGED factory
  \/ 2 * votes + messages < MaxSteps /\ FactoryNext /\ UNCHANGED registry

Spec == Init /\ [][Next]_<<registry, factory>>
=============================================================================
