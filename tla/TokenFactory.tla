---------------------------- MODULE TokenFactory ----------------------------
(***************************************************************************)
(* The token factory (x/tokenfactory/keeper): users create denoms for a    *)
(* fee and, as their admins, mint, burn and hand over the office.          *)
(*                                                                         *)
(* A message is one transaction; the coins that pass through the module    *)
(* account are sent on or burned in it, so the account is left out.  The   *)
(* messages name a denom without the prefix that toFullName adds.          *)
(***************************************************************************)
EXTENDS Integers, FiniteSets, Sums

CONSTANTS
  Users,         \* wallets
  Kopi,          \* the coin in which the creation fee is paid
  Nicknames,     \* names that messages may give, Kopi among them
  Funds,         \* Kopi of every user at genesis
  CoinAmounts,   \* amounts of messages
  Fees,          \* fees that governance may set
  MaxMessages    \* bound: number of messages

ASSUME FactoryAssumption ==
  /\ IsFiniteSet(Users)
  /\ Users # {}
  /\ Kopi \in Nicknames
  /\ \A n \in Nicknames : <<"factory", n>> # Kopi
  /\ Funds \in Nat
  /\ CoinAmounts \subseteq Int
  /\ Fees \subseteq Int
  /\ MaxMessages \in Nat

\* Faulty: without the prefix.
BareName(n) == n

\* toFullName.
FullName(n) == <<"factory", n>>

FactoryDenoms == {FullName(n) : n \in Nicknames}
Coins == {Kopi} \cup FactoryDenoms

VARIABLES
  admin,     \* the store of denoms: the admin of each
  wallet,    \* balances of the users, by coin
  supply,    \* bank supply of each coin
  fee,       \* parameter CreationFee
  messages,  \* messages so far
  burned,    \* history: fees burned
  signer     \* history: sender of the last message

factory == <<admin, wallet, supply, fee, messages, burned, signer>>

\* The fee of DefaultParams is nil, which is stored and read back as zero.
FactoryInit ==
  /\ admin = <<>>
  /\ wallet = [c \in Coins |-> [u \in Users |-> IF c = Kopi THEN Funds ELSE 0]]
  /\ supply = [c \in Coins |-> IF c = Kopi THEN Funds * Cardinality(Users) ELSE 0]
  /\ fee = 0
  /\ messages = 0
  /\ burned = 0
  /\ signer = CHOOSE u \in Users : TRUE

Signed(u) ==
  /\ messages < MaxMessages
  /\ messages' = messages + 1
  /\ signer' = u

\* Faulty: the denom is created without the fee leaving the wallet.
PayAfterwards(u, f) ==
  /\ supply' = [supply EXCEPT ![Kopi] = @ - f]
  /\ wallet[Kopi][u] >= f
  /\ burned' = burned + f
  /\ UNCHANGED wallet

\* processCreationFee: sent to the module account and burned.
ProcessCreationFee(u, f) ==
  /\ wallet[Kopi][u] >= f
  /\ wallet' = [wallet EXCEPT ![Kopi][u] = @ - f]
  /\ supply' = [supply EXCEPT ![Kopi] = @ - f]
  /\ burned' = burned + f

\* NewCoin panics on a negative fee.
CreateDenom(u, n) ==
  /\ Signed(u)
  /\ FullName(n) \notin DOMAIN admin
  /\ fee >= 0
  /\ ProcessCreationFee(u, fee)
  /\ admin' = With(admin, FullName(n), u)
  /\ UNCHANGED fee

\* Faulty: every admin may act on every denom.
OfSomeAdmin(u, n) == FullName(n) \in DOMAIN admin /\ \E d \in DOMAIN admin : admin[d] = u

OfAdmin(u, n) == FullName(n) \in DOMAIN admin /\ admin[FullName(n)] = u

MintDenom(u, n, target, a) ==
  /\ Signed(u)
  /\ OfAdmin(u, n)
  /\ a > 0
  /\ wallet' = [wallet EXCEPT ![FullName(n)][target] = @ + a]
  /\ supply' = [supply EXCEPT ![FullName(n)] = @ + a]
  /\ UNCHANGED <<admin, fee, burned>>

\* Faulty: the balance of the target is not checked.
CoveredAlways(c, target, a) == TRUE

Covered(c, target, a) == wallet[c][target] >= a

BurnDenom(u, n, target, a) ==
  /\ Signed(u)
  /\ OfAdmin(u, n)
  /\ a > 0
  /\ Covered(FullName(n), target, a)
  /\ wallet' = [wallet EXCEPT ![FullName(n)][target] = @ - a]
  /\ supply' = [supply EXCEPT ![FullName(n)] = @ - a]
  /\ UNCHANGED <<admin, fee, burned>>

\* The sender is read from the target address: the target, which must hold the
\* amount, pays itself.
ForceTransfer(u, n, from, target, a) ==
  /\ Signed(u)
  /\ OfAdmin(u, n)
  /\ a > 0
  /\ Covered(FullName(n), target, a)
  /\ UNCHANGED <<admin, wallet, supply, fee, burned>>

ChangeAdmin(u, n, new) ==
  /\ Signed(u)
  /\ OfAdmin(u, n)
  /\ admin' = [admin EXCEPT ![FullName(n)] = new]
  /\ UNCHANGED <<wallet, supply, fee, burned>>

\* Governance may set any number.
UpdateFeeAmount(f) ==
  /\ messages < MaxMessages
  /\ messages' = messages + 1
  /\ fee' = f
  /\ UNCHANGED <<admin, wallet, supply, burned, signer>>

\* A transfer of the bank module.
Send(u, target, c, a) ==
  /\ Signed(u)
  /\ u # target
  /\ a > 0
  /\ Covered(c, u, a)
  /\ wallet' = [wallet EXCEPT ![c][u] = @ - a, ![c][target] = @ + a]
  /\ UNCHANGED <<admin, supply, fee, burned>>

FactoryNext ==
  \/ \E f \in Fees : UpdateFeeAmount(f)
  \/ \E u, t \in Users, c \in Coins, a \in CoinAmounts : Send(u, t, c, a)
  \/ \E u \in Users, n \in Nicknames :
       \/ CreateDenom(u, n)
       \/ \E t \in Users :
            \/ ChangeAdmin(u, n, t)
            \/ \E a \in CoinAmounts :
                 \/ MintDenom(u, n, t, a)
                 \/ BurnDenom(u, n, t, a)
                 \/ \E from \in Users : ForceTransfer(u, n, from, t, a)

FactorySpec == FactoryInit /\ [][FactoryNext]_factory

-----------------------------------------------------------------------------
(* Correctness.                                                            *)

\* Types.  No balance and no supply goes negative, with amounts and fees of
\* either sign in the messages.
FactoryTypeOK ==
  /\ DOMAIN admin \subseteq FactoryDenoms
  /\ \A d \in DOMAIN admin : admin[d] \in Users
  /\ wallet \in [Coins -> [Users -> Nat]]
  /\ supply \in [Coins -> Nat]
  /\ fee \in Fees \cup {0}
  /\ messages \in 0..MaxMessages
  /\ burned \in Nat
  /\ signer \in Users

\* The supply of every coin is what the users hold: what CreateDenom takes is
\* burned, what MintDenom mints is paid out, and the module account keeps
\* nothing.
SupplyHeld == \A c \in Coins : supply[c] = SumOf(wallet[c])

\* No message of the factory touches the supply of Kopi but for the fees it
\* burns, even when a denom is created under the name of Kopi: the prefix of
\* toFullName keeps the coins of the factory apart.
NativeSupply == supply[Kopi] + burned = Funds * Cardinality(Users)

\* A wallet loses coins of the factory only to a message of its owner or of the
\* admin at that moment, through any chain of ChangeAdmin.
OnlyOwnerOrAdmin ==
  [][\A c \in FactoryDenoms, u \in Users :
       wallet'[c][u] < wallet[c][u] =>
         signer' = u \/ (c \in DOMAIN admin /\ signer' = admin[c])]_factory
=============================================================================
