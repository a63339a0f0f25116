------------------------------ MODULE Exchange ------------------------------
(***************************************************************************)
(* What the exchange of the dex module promises: coins in its custody and  *)
(* claims of liquidity providers on them change only by deposits,          *)
(* withdrawals, coins given to the reserve, spending of the reserve's      *)
(* coins and trades.  A trade of a message happens as a whole or not at    *)
(* all; one of a liquidation may stop halfway, and then providers lose     *)
(* claims on coins that stay.  Liquidity, where a trade is a sequence of   *)
(* transfers over three module accounts, implements it.                    *)
(***************************************************************************)
EXTENDS Integers

CONSTANTS
  Denoms,  \* the denoms of the exchange
  Base     \* the base currency, through which every trade is routed

VARIABLES
  coins,   \* coins in the accounts of the exchange, by denom
  claims,  \* what the liquidity providers are owed, by denom
  unpaid   \* claims that trades which stopped halfway have taken away

Init ==
  /\ coins \in [Denoms -> Nat]
  /\ claims = [d \in Denoms |-> 0]
  /\ unpaid = [d \in Denoms |-> 0]

Credit(f, d, a) == [f EXCEPT ![d] = @ + a]

Deposit(d, a) ==
  /\ a > 0
  /\ coins' = Credit(coins, d, a)
  /\ claims' = Credit(claims, d, a)
  /\ UNCHANGED unpaid

Withdraw(d, a) ==
  /\ a >= 0
  /\ a <= claims[d]
  /\ coins' = Credit(coins, d, -a)
  /\ claims' = Credit(claims, d, -a)
  /\ UNCHANGED unpaid

\* Coins that come to the reserve are no claim of anybody.
Donate(d, a) ==
  /\ a > 0
  /\ coins' = Credit(coins, d, a)
  /\ UNCHANGED <<claims, unpaid>>

\* Coins of the exchange's own reserve are paid out or become a claim of the
\* reserve; nobody else's claim falls.
SpendReserve(d, paid, kept) ==
  /\ paid >= 0
  /\ kept >= 0
  /\ coins' = Credit(coins, d, -paid)
  /\ claims' = Credit(claims, d, kept)
  /\ UNCHANGED unpaid

\* The coins of s grow by what is sold, those of e fall by what is bought, and
\* every other denom, the base currency in between included, keeps its coins.
\* The claims move with them; only those on the base currency may go either
\* way when it is in between.
Trade(s, e) ==
  /\ s # e
  /\ coins' = [coins EXCEPT ![s] = coins'[s], ![e] = coins'[e]]
  /\ coins'[s] >= coins[s]
  /\ coins'[e] <= coins[e]
  /\ claims' = [claims EXCEPT ![s] = claims'[s], ![e] = claims'[e], ![Base] = claims'[Base]]
  /\ claims'[s] >= claims[s]
  /\ claims'[e] <= claims[e]
  /\ UNCHANGED unpaid

\* A trade stops in its first step: only claims on the base currency fall.
StopAtBase(a) ==
  /\ a > 0
  /\ claims' = Credit(claims, Base, -a)
  /\ unpaid' = Credit(unpaid, Base, a)
  /\ UNCHANGED coins

\* A trade stops in its second step: s is sold for base currency, which stays,
\* as do the coins of e; the claims on e fall.
StopAtTarget(s, e, a) ==
  /\ a > 0
  /\ e # s
  /\ e # Base
  /\ coins' = [coins EXCEPT ![s] = coins'[s]]
  /\ coins'[s] >= coins[s]
  /\ claims' = [claims EXCEPT ![s] = claims'[s], ![Base] = claims'[Base], ![e] = @ - a]
  /\ claims'[s] >= claims[s]
  /\ unpaid' = Credit(unpaid, e, a)

Next ==
  \/ \E d \in Denoms :
       \/ Deposit(d, coins'[d] - coins[d])
       \/ Withdraw(d, coins[d] - coins'[d])
       \/ Donate(d, coins'[d] - coins[d])
       \/ SpendReserve(d, coins[d] - coins'[d], claims'[d] - claims[d])
  \/ \E s, e \in Denoms : Trade(s, e)
  \/ StopAtBase(unpaid'[Base] - unpaid[Base])
  \/ \E s, e \in Denoms : StopAtTarget(s, e, unpaid'[e] - unpaid[e])

Spec == Init /\ [][Next]_<<coins, claims, unpaid>>
=============================================================================
