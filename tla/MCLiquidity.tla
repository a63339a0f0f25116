---------------------------- MODULE MCLiquidity ----------------------------
(***************************************************************************)
(* Two providers, the base currency, one denom whose reserve coins go in   *)
(* half to the vault and one kCoin.  Decimals have a scale of 8 and the    *)
(* fee is a quarter: an offer of 16 buys several coins and pays a fee to   *)
(* both providers and the reserve, and shares are rounded as far as a      *)
(* whole coin, so that the fourth of four messages may ask for more coins  *)
(* than PoolLiquidity has.  Amounts of 7 are too small for a trade.        *)
(*                                                                         *)
(* Four messages are two additions, a third one or a removal, and a trade, *)
(* or a trade and a liquidation after them.  The second block lets virtual *)
(* liquidity decay, to a ratio of zero if the pools are far apart, empties *)
(* the reserve, and may come after a restart from an export.  Anybody may  *)
(* send coins to the reserve, of a denom that is not registered too.       *)
(***************************************************************************)
EXTENDS Liquidity, TLC

CONSTANTS u1, u2, reserve_, xkp, atom, kusd, uluna

MCUsers == {u1, u2}
MCTwo == {atom, kusd}
MCKCoins == {kusd}
MCUnlisted == {uluna}
MCAmounts == {7, 16}
MCReserves == {0, 7}
MCGifts == {atom, uluna}
MCShares == [d \in Denoms |-> IF d = atom THEN Scale \div 2 ELSE 0]

MCSymmetry == Permutations(MCUsers)
=============================================================================
