------------------------------ MODULE MCOrders ------------------------------
(***************************************************************************)
(* Two users, the base currency and one other denom, two orders of at most *)
(* two coins.  Orders live for one block beyond their own, so the last     *)
(* transaction, the expiry and the trades after it fit below MaxHeight.    *)
(***************************************************************************)
EXTENDS Orders

CONSTANTS u1, u2, base, atom

MCUsers == {u1, u2}
MCDenoms == {base, atom}
MCTradeAmounts == {0, 1}
MCLives == {2}
MCIntervals == {2}
=============================================================================
