------------------------------- MODULE Orders -------------------------------
(***************************************************************************)
(* The order book of the dex module (x/dex/keeper: order.go, the order     *)
(* handlers of the msg server and order_execution.go).                     *)
(*                                                                         *)
(* An order escrows coins of denom "from" in the module account            *)
(* PoolOrders.  Transactions add, update and remove orders; the EndBlocker *)
(* walks over the book, refunds orders that are past their last block and  *)
(* trades the ones that are due.  A transaction that returns an error is   *)
(* rolled back and is no step of the model; an error or a panic in the     *)
(* EndBlocker stops the chain.                                             *)
(*                                                                         *)
(* Abstracted data: wallets (any amount up to MaxAmount may be spendable), *)
(* the bought denom and what it pays (the market decides), prices (the     *)
(* market says how much may be given at the order's maximum price).  The   *)
(* iterator's order is left open.  What happens inside a trade is the      *)
(* subject of Liquidity: here a trade whose checks have passed succeeds or *)
(* returns the error of one of its steps, whatever the state of the book.  *)
(***************************************************************************)
EXTENDS Integers, FiniteSets, Sums

CONSTANTS
  Users,          \* accounts that send transactions
  Denoms,         \* denoms an order can sell
  Base,           \* the base currency ukopi, through which trades are routed
  MaxAmount,      \* bound: largest amount in a message and in a market quote
  MaxOrders,      \* bound: number of orders ever created
  MaxOrderLife,   \* dex parameter MaxOrderLife, in blocks
  TradeAmounts,   \* amounts per execution a message may ask for, 0: no limit
  Lives,          \* lives in blocks a message may ask for
  Intervals,      \* execution intervals a message may ask for
  MinTradeAmount, \* trades below this amount are refused (1000 in the code)
  LastTxHeight,   \* bound: no transaction after this block
  MaxHeight       \* bound: last block of the model

ASSUME OrdersAssumption ==
  /\ Base \in Denoms
  /\ MaxAmount \in Nat
  /\ MaxOrders \in Nat
  /\ MaxOrderLife \in Nat
  /\ TradeAmounts \subseteq Nat
  /\ Lives \subseteq Nat
  /\ Intervals \subseteq Nat
  /\ MinTradeAmount \in Nat
  /\ LastTxHeight \in Nat
  /\ MaxHeight \in Nat \ {0}

VARIABLES
  height,     \* height of the block being processed
  phase,      \* "tx": transactions are delivered, "end": ExecuteOrders runs
  pending,    \* indexes ExecuteOrders has not reached yet in this block
  orders,     \* the order store, a function from indexes to orders
  nextIndex,  \* OrderNextIndex
  pool,       \* balance of PoolOrders in each denom
  failure,    \* the error that stopped the chain: the EndBlocker returned it,
              \* and the block is never committed; "none" while it runs
  unclaimed,  \* history: coins of orders deleted without a refund
  paidTwice,  \* history: refunds of expired orders that then traded as well
  unbooked    \* history: coins given to a trade that the order did not book

vars == <<height, phase, pending, orders, nextIndex, pool, failure,
          unclaimed, paidTwice, unbooked>>

history == <<unclaimed, paidTwice, unbooked>>

\* PoolOrders is short of a refund or of what a trade asks for, a nil amount is
\* used, a step of a trade fails.
Failures == {"refund", "funds", "nil amount", "trade step"}

halted == failure # "none"

Amounts == 0..MaxAmount

\* The coins of denom d an order holds, and those of a set of orders.
LeftIn(o, d) == IF o.from = d THEN o.left ELSE 0
Escrow(os, d) == SumOf([i \in DOMAIN os |-> LeftIn(os[i], d)])

Order == [creator: Users, from: Denoms, left: Nat, tradeAmount: Nat,
          interval: Nat, nextExec: Nat, blockEnd: Nat, incomplete: BOOLEAN]

\* What the liquidity pools offer an order at one moment: the amount that can
\* be given before its maximum price is exceeded, the maximum tradable amount,
\* whether one of the pools of the route is empty, and whether a step of a
\* trade would fail (PoolLiquidity cannot pay what its entries promise).
Market == [price: Amounts, tradable: Amounts, dry: BOOLEAN, broken: BOOLEAN]

-----------------------------------------------------------------------------
Init ==
  /\ height = 1
  /\ phase = "tx"
  /\ pending = {}
  /\ orders = <<>>
  /\ nextIndex = 0
  /\ pool = [d \in Denoms |-> 0]
  /\ failure = "none"
  /\ unclaimed = [d \in Denoms |-> 0]
  /\ paidTwice = [d \in Denoms |-> 0]
  /\ unbooked = [d \in Denoms |-> 0]

InTx == ~halted /\ phase = "tx" /\ height <= LastTxHeight

Credit(p, d, a) == [p EXCEPT ![d] = @ + a]
Debit(p, d, a) == [p EXCEPT ![d] = @ - a]

\* calculateBlockEnd: the requested life is capped by the parameter.
BlockEnd(blocks) == height + (IF blocks > MaxOrderLife THEN MaxOrderLife
                                                       ELSE blocks)

AddOrder(u, d, amount, tradeAmount, blocks, interval, incomplete) ==
  /\ InTx
  /\ amount > 0
  /\ nextIndex < MaxOrders
  /\ pool' = Credit(pool, d, amount)
  /\ nextIndex' = nextIndex + 1
  /\ orders' = With(orders, nextIndex + 1,
       [creator |-> u, from |-> d, left |-> amount,
        tradeAmount |-> tradeAmount, interval |-> interval,
        nextExec |-> height, blockEnd |-> BlockEnd(blocks),
        incomplete |-> incomplete])
  /\ UNCHANGED <<height, phase, pending, failure, history>>

\* Faulty: the new amount is collected, the old one is not paid back.
UpdateOrderKeepingEscrow(u, i, amount, tradeAmount) ==
  /\ InTx
  /\ i \in DOMAIN orders
  /\ orders[i].creator = u
  /\ pool' = Credit(pool, orders[i].from, amount)
  /\ orders' = With(orders, i, [orders[i] EXCEPT !.left = amount,
                                                 !.tradeAmount = tradeAmount])
  /\ UNCHANGED <<height, phase, pending, nextIndex, failure, history>>

\* UpdateOrder pays the escrow back and collects the new amount; the life of
\* the order and its next execution stay as they are.
UpdateOrder(u, i, amount, tradeAmount) ==
  /\ InTx
  /\ i \in DOMAIN orders
  /\ orders[i].creator = u
  /\ orders[i].left <= pool[orders[i].from]
  /\ pool' = Credit(Debit(pool, orders[i].from, orders[i].left),
                    orders[i].from, amount)
  /\ orders' = With(orders, i, [orders[i] EXCEPT !.left = amount,
                                                 !.tradeAmount = tradeAmount])
  /\ UNCHANGED <<height, phase, pending, nextIndex, failure, history>>

RemoveOrder(u, i) ==
  /\ InTx
  /\ i \in DOMAIN orders
  /\ orders[i].creator = u
  /\ orders[i].left <= pool[orders[i].from]
  /\ pool' = Debit(pool, orders[i].from, orders[i].left)
  /\ orders' = Without(orders, {i})
  /\ UNCHANGED <<height, phase, pending, nextIndex, failure, history>>

OrdersOf(u) == {i \in DOMAIN orders : orders[i].creator = u}

\* RemoveOrders deletes the orders of its sender and pays nothing back.
RemoveOrders(u) ==
  /\ InTx
  /\ OrdersOf(u) # {}
  /\ orders' = Without(orders, OrdersOf(u))
  /\ unclaimed' = [d \in Denoms |-> unclaimed[d] + Escrow(Only(orders, OrdersOf(u)), d)]
  /\ UNCHANGED <<height, phase, pending, nextIndex, pool, failure, paidTwice,
                 unbooked>>

-----------------------------------------------------------------------------
(* The EndBlocker: ExecuteOrders takes every order of the book once.       *)

\* The order is due.  An expired order is not left out: the loop goes on with
\* the copy that it has just removed.
Due(o) == height >= o.nextExec

\* Faulty: the comparison is the wrong way round, and orders that are due are not
\* looked at, expired or not.
BeginWithWaitingOrders ==
  /\ ~halted
  /\ phase = "tx"
  /\ height < MaxHeight
  /\ phase' = "end"
  /\ pending' = {i \in DOMAIN orders : height < orders[i].nextExec}
  /\ UNCHANGED <<height, orders, nextIndex, pool, failure, history>>

BeginExecuteOrders ==
  /\ ~halted
  /\ phase = "tx"
  /\ height < MaxHeight
  /\ phase' = "end"
  /\ pending' = DOMAIN orders
  /\ UNCHANGED <<height, orders, nextIndex, pool, failure, history>>

NextBlock ==
  /\ ~halted
  /\ phase = "end"
  /\ pending = {}
  /\ phase' = "tx"
  /\ height' = height + 1
  /\ UNCHANGED <<pending, orders, nextIndex, pool, failure, history>>

Expired(o) == height > o.blockEnd

\* The coins ExecuteOrders pays back before it looks at the order again.
Refund(o) == IF Expired(o) THEN o.left ELSE 0

Smaller(a, b) == IF a < b THEN a ELSE b

\* Faulty: the amount is not capped by what is left of the order.
AskedAmountUncapped(o, m) ==
  IF o.tradeAmount > 0 THEN Smaller(m.price, o.tradeAmount) ELSE m.price

\* executeOrder: the amount it asks ExecuteTrade to trade.
AskedAmount(o, m) ==
  LET amount == Smaller(o.left, m.price)
  IN IF o.tradeAmount > 0 THEN Smaller(amount, o.tradeAmount) ELSE amount

\* ExecuteTrade lowers the amount to the maximum tradable amount if the order
\* accepts an incomplete trade.
GivenAmount(o, m) ==
  IF m.tradable < AskedAmount(o, m) /\ m.tradable > 0 /\ o.incomplete
    THEN m.tradable ELSE AskedAmount(o, m)

\* The order keeps waiting: the price is not reached, nothing is left,
\* ErrNotEnoughLiquidity or ErrTradeAmountTooSmall.
Waits(o, m) ==
  \/ Smaller(o.left, m.price) = 0
  \/ m.tradable < GivenAmount(o, m)
  \/ GivenAmount(o, m) < MinTradeAmount

\* Faulty: the balance is read before the refund of the expired order.
ShortBeforeRefund(o, m) == pool[o.from] < GivenAmount(o, m)

\* PoolOrders cannot pay what ExecuteTrade asks for: ErrNotEnoughFunds, which
\* executeOrder hands on.
Short(o, m) == pool[o.from] - Refund(o) < GivenAmount(o, m)

Refundable(o) == Refund(o) <= pool[o.from]

Trades(o, m) == Due(o) /\ ~Waits(o, m)

\* The round of the loop that trades nothing: only the expiry check may have
\* had an effect.  An empty pool is ErrNotEnoughLiquidity to an order that
\* accepts no incomplete trade.
SkipOrder(i, m) ==
  LET o == orders[i]
  IN /\ Refundable(o)
     /\ \/ ~Trades(o, m)
        \/ ~Short(o, m) /\ m.dry /\ ~o.incomplete
     /\ pool' = Debit(pool, o.from, Refund(o))
     /\ orders' = IF Expired(o) THEN Without(orders, {i}) ELSE orders
     /\ UNCHANGED <<failure, history>>

\* ExecuteTrade gives "given" coins.  When the order sells the base currency,
\* the first trade step moves all of them and the order books what the second
\* step used; otherwise exactly the used coins move.
Sent(o, given, used) == IF o.from = Base THEN given ELSE used

Executed(o, used) == [o EXCEPT !.left = @ - used,
                               !.nextExec = height + o.interval]

\* The store after a trade.  A trade that used nothing leaves the order as the
\* expiry check left it; otherwise SetOrder writes the order, expired or not,
\* and a fully executed order is removed.
AfterTrade(i, used) ==
  LET o == orders[i]
  IN IF used > 0 /\ used < o.left
       THEN With(orders, i, Executed(o, used))
       ELSE IF used > 0 \/ Expired(o) THEN Without(orders, {i}) ELSE orders

TradeOrder(i, m, used) ==
  LET o == orders[i]
      sent == Sent(o, GivenAmount(o, m), used)
  IN /\ Refundable(o)
     /\ Trades(o, m)
     /\ ~Short(o, m)
     /\ ~m.dry
     /\ ~m.broken
     /\ used <= GivenAmount(o, m)
     /\ pool' = Debit(pool, o.from, Refund(o) + sent)
     /\ orders' = AfterTrade(i, used)
     /\ paidTwice' = Credit(paidTwice, o.from, IF used > 0 THEN Refund(o) ELSE 0)
     /\ unbooked' = Credit(unbooked, o.from, sent - used)
     /\ UNCHANGED <<failure, unclaimed>>

\* Why the round of an order fails, in the order of the code: the refund is not
\* covered, ExecuteTrade finds PoolOrders short, an empty pool gives an order
\* that accepts incomplete trades a nil amount and no error, which is a panic,
\* or ExecuteTradeStep returns an error, which executeOrder hands on.
FailsWith(o, m, cause) ==
  \/ cause = "refund" /\ ~Refundable(o)
  \/ /\ Refundable(o)
     /\ Trades(o, m)
     /\ \/ cause = "funds" /\ Short(o, m)
        \/ cause = "nil amount" /\ ~Short(o, m) /\ m.dry /\ o.incomplete
        \/ cause = "trade step" /\ ~Short(o, m) /\ ~m.dry /\ m.broken

FailOrder(i, m) ==
  /\ \E cause \in Failures :
       FailsWith(orders[i], m, cause) /\ failure' = cause
  /\ UNCHANGED <<orders, pool, history>>

\* One round of the loop.
ExecuteOrder(i) ==
  /\ ~halted
  /\ phase = "end"
  /\ i \in pending
  /\ pending' = pending \ {i}
  /\ \E m \in Market : \/ SkipOrder(i, m)
                       \/ \E used \in Amounts : TradeOrder(i, m, used)
                       \/ FailOrder(i, m)
  /\ UNCHANGED <<height, phase, nextIndex>>

ExecuteOrders == \E i \in pending : ExecuteOrder(i)

-----------------------------------------------------------------------------
Transaction ==
  \E u \in Users :
    \/ \E d \in Denoms, amount \in Amounts, tradeAmount \in TradeAmounts,
          blocks \in Lives, interval \in Intervals, incomplete \in BOOLEAN :
         AddOrder(u, d, amount, tradeAmount, blocks, interval, incomplete)
    \/ \E i \in DOMAIN orders, amount \in Amounts,
          tradeAmount \in TradeAmounts : UpdateOrder(u, i, amount, tradeAmount)
    \/ \E i \in DOMAIN orders : RemoveOrder(u, i)
    \/ RemoveOrders(u)

EndBlock == BeginExecuteOrders \/ ExecuteOrders \/ NextBlock

Next == Transaction \/ EndBlock

Spec == Init /\ [][Next]_vars

\* Blocks keep coming; nobody has to send a transaction.
FairSpec == Spec /\ WF_vars(EndBlock)

-----------------------------------------------------------------------------
\* The variables hold what the store and the bank can hold; every index of the
\* book was handed out by SetOrder.
TypeOK ==
  /\ height \in 1..MaxHeight
  /\ phase \in {"tx", "end"}
  /\ nextIndex \in 0..MaxOrders
  /\ orders \in [DOMAIN orders -> Order]
  /\ DOMAIN orders \subseteq 1..nextIndex
  /\ pending \subseteq DOMAIN orders
  /\ pool \in [Denoms -> Nat]
  /\ failure \in Failures \cup {"none"}
  /\ unclaimed \in [Denoms -> Nat]
  /\ paidTwice \in [Denoms -> Nat]
  /\ unbooked \in [Denoms -> Nat]

\* checkOrderPoolBalanced without its tolerance: PoolOrders holds the coins of
\* the book.  Exactly three things drive them apart, each by what it left
\* behind: RemoveOrders keeps the coins of the orders it deletes, an expired
\* order that still trades is paid twice, and a sale of the base currency can
\* give more to the trade than the order books.
EscrowAccounting ==
  \A d \in Denoms :
    pool[d] + paidTwice[d] + unbooked[d]
      = Escrow(orders, d) + unclaimed[d]

\* No coins have been paid out of PoolOrders that are still owed to an order.
Solvent == \A d \in Denoms : paidTwice[d] = 0 /\ unbooked[d] = 0

\* While PoolOrders is solvent, it is short for no live order, whatever order
\* the book is walked in and whatever was traded before it in the same block:
\* no refund fails, and the order that stops the chain had expired and asked
\* for the coins it had just got back, or it accepts incomplete trades and met
\* an empty pool, or the liquidity pools failed its trade.
FailsOnlyOn ==
  [][(halted' /\ ~halted /\ Solvent)
       => \A i \in pending \ pending' :
            \/ failure' = "funds" /\ Expired(orders[i])
            \/ failure' = "nil amount" /\ orders[i].incomplete
            \/ failure' = "trade step"]_vars

\* Once the transactions stop, every order leaves the book for good, by trading
\* or by expiry, unless the chain stops: an expired order that trades on is
\* written back, but never forever.
BookDrains == <>[](orders = <<>> \/ halted)

-----------------------------------------------------------------------------
(* What the code base says of the order book and the order book does not   *)
(* keep.                                                                   *)

\* checkOrderPoolBalanced: PoolOrders and the book differ by at most one coin
\* in each denom.
OrderPoolBalanced ==
  \A d \in Denoms : /\ pool[d] - Escrow(orders, d) <= 1
                    /\ Escrow(orders, d) - pool[d] <= 1

\* calculateBlockEnd: BlockEnd is the last block an order can be alive in, so
\* the book that a block leaves behind holds no order of an earlier BlockEnd.
DeadAfterBlockEnd ==
  (phase = "tx" /\ height > 1)
    => \A i \in DOMAIN orders : orders[i].blockEnd >= height - 1
=============================================================================
