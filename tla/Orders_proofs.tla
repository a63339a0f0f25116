---------------------------- MODULE Orders_proofs ----------------------------
(***************************************************************************)
(* The order book keeps its types, and PoolOrders is accounted for to the  *)
(* last coin, for every number of users, denoms, orders and blocks.        *)
(***************************************************************************)
EXTENDS Orders, Sums_proofs

\* Transactions find no loop of ExecuteOrders under way, and the loop runs
\* below the last block only.
PhaseOK ==
  /\ phase = "tx" => pending = {}
  /\ phase = "end" => height < MaxHeight

\* The inductive invariant of the types.
TInv == TypeOK /\ PhaseOK

\* The book is finite, and so is what it escrows.
LEMMA EscrowType ==
  ASSUME NEW S, IsFiniteSet(S), NEW os \in [S -> Order], NEW d
  PROVE  Escrow(os, d) \in Nat
<1> DEFINE f == [i \in DOMAIN os |-> LeftIn(os[i], d)]
<1>1. f \in [S -> Nat]
  BY DEF LeftIn, Order
<1> QED
  BY <1>1, SumType DEF Escrow

\* Writing one order changes the escrow by that order alone.
LEMMA EscrowWith ==
  ASSUME NEW S, IsFiniteSet(S), NEW os \in [S -> Order], NEW d, NEW i,
         NEW o \in Order
  PROVE  /\ Escrow(Without(os, {i}), d) \in Nat
         /\ Escrow(With(os, i, o), d)
              = Escrow(Without(os, {i}), d) + LeftIn(o, d)
<1> DEFINE f == [j \in DOMAIN os |-> LeftIn(os[j], d)]
           g == [j \in DOMAIN With(os, i, o) |-> LeftIn(With(os, i, o)[j], d)]
           h == [j \in DOMAIN Without(os, {i})
                   |-> LeftIn(Without(os, {i})[j], d)]
<1>1. f \in [S -> Nat] /\ LeftIn(o, d) \in Nat
  BY DEF LeftIn, Order
<1>2. g = With(f, i, LeftIn(o, d))
  BY DEF With
<1>3. h = Without(f, {i})
  BY DEF Without
<1>4. /\ SumOf(Without(f, {i})) \in Nat
      /\ SumOf(With(f, i, LeftIn(o, d)))
           = SumOf(Without(f, {i})) + LeftIn(o, d)
  BY <1>1, SumWith
<1> QED
  BY <1>2, <1>3, <1>4 DEF Escrow

\* Removing one order takes its coins off the escrow.
LEMMA EscrowWithout ==
  ASSUME NEW S, IsFiniteSet(S), NEW os \in [S -> Order], NEW d, NEW i \in S
  PROVE  /\ Escrow(Without(os, {i}), d) \in Nat
         /\ Escrow(os, d) = Escrow(Without(os, {i}), d) + LeftIn(os[i], d)
<1>1. With(os, i, os[i]) = os
  BY DEF With
<1> QED
  BY <1>1, EscrowWith

\* Removing the orders of A takes their escrow off.
LEMMA EscrowSplit ==
  ASSUME NEW S, IsFiniteSet(S), NEW os \in [S -> Order], NEW d,
         NEW A \in SUBSET S
  PROVE  /\ Escrow(Without(os, A), d) \in Nat
         /\ Escrow(Only(os, A), d) \in Nat
         /\ Escrow(os, d) = Escrow(Without(os, A), d) + Escrow(Only(os, A), d)
<1> DEFINE f == [j \in DOMAIN os |-> LeftIn(os[j], d)]
           g == [j \in DOMAIN Without(os, A) |-> LeftIn(Without(os, A)[j], d)]
           h == [j \in DOMAIN Only(os, A) |-> LeftIn(Only(os, A)[j], d)]
<1>1. f \in [S -> Nat]
  BY DEF LeftIn, Order
<1>2. g = Without(f, A)
  BY DEF Without
<1>3. h = Only(f, A)
  BY DEF Only
<1>4. /\ SumOf(Without(f, A)) \in Nat
      /\ SumOf(Only(f, A)) \in Nat
      /\ SumOf(f) = SumOf(Without(f, A)) + SumOf(Only(f, A))
  BY <1>1, SumSplit
<1> QED
  BY <1>2, <1>3, <1>4 DEF Escrow

-----------------------------------------------------------------------------
\* The book has at most nextIndex orders.
LEMMA BookFinite == TypeOK => IsFiniteSet(DOMAIN orders)
<1> SUFFICES ASSUME TypeOK PROVE IsFiniteSet(DOMAIN orders)
  OBVIOUS
<1>1. nextIndex \in Int
  BY OrdersAssumption DEF TypeOK
<1>2. IsFiniteSet(1..nextIndex)
  BY <1>1, FS_Interval
<1> QED
  BY <1>2, FS_Subset DEF TypeOK

\* A trade gives no more than the order has left, and at least what it uses.
LEMMA GivenBounds ==
  ASSUME NEW o \in Order, NEW m \in Market, ~Waits(o, m),
         MaxAmount \in Nat
  PROVE  GivenAmount(o, m) \in Nat /\ GivenAmount(o, m) <= o.left
BY DEF Order, Market, Amounts, Waits, GivenAmount, AskedAmount, Smaller

\* Orders with a new amount, or with a new amount and execution block.
LEMMA OrderUpdates ==
  ASSUME NEW o \in Order, NEW left \in Nat, NEW n \in Nat
  PROVE  /\ [o EXCEPT !.left = left, !.tradeAmount = n] \in Order
         /\ [o EXCEPT !.left = left, !.nextExec = n] \in Order
         /\ [o EXCEPT !.left = left, !.tradeAmount = n].left = left
         /\ [o EXCEPT !.left = left, !.nextExec = n].left = left
         /\ [o EXCEPT !.left = left, !.tradeAmount = n].from = o.from
         /\ [o EXCEPT !.left = left, !.nextExec = n].from = o.from
BY DEF Order

\* Every transaction keeps the types.
LEMMA TransactionType == TInv /\ Transaction => TInv'
<1> SUFFICES ASSUME TInv, Transaction PROVE TInv'
  OBVIOUS
<1> USE OrdersAssumption DEF TInv, PhaseOK, InTx, history
<1>1. IsFiniteSet(DOMAIN orders)
  BY BookFinite
<1>2. ASSUME NEW u \in Users, NEW d \in Denoms, NEW amount \in Amounts,
             NEW tradeAmount \in TradeAmounts, NEW blocks \in Lives,
             NEW interval \in Intervals, NEW incomplete \in BOOLEAN,
             AddOrder(u, d, amount, tradeAmount, blocks, interval, incomplete)
      PROVE  TInv'
  <2> DEFINE o == [creator |-> u, from |-> d, left |-> amount,
                   tradeAmount |-> tradeAmount, interval |-> interval,
                   nextExec |-> height, blockEnd |-> BlockEnd(blocks),
                   incomplete |-> incomplete]
  <2>1. o \in Order
    BY DEF TypeOK, Order, Amounts, BlockEnd
  <2>2. /\ orders' \in [DOMAIN orders' -> Order]
        /\ DOMAIN orders' \subseteq 1..nextIndex'
    BY <1>2, <2>1 DEF AddOrder, TypeOK, With
  <2>3. pool' \in [Denoms -> Nat]
    BY <1>2 DEF AddOrder, TypeOK, Credit, Amounts
  <2> QED
    BY <1>2, <2>2, <2>3 DEF AddOrder, TypeOK
<1>3. ASSUME NEW u \in Users, NEW i \in DOMAIN orders, NEW amount \in Amounts,
             NEW tradeAmount \in TradeAmounts,
             UpdateOrder(u, i, amount, tradeAmount)
      PROVE  TInv'
  <2>1. orders[i] \in Order
    BY DEF TypeOK
  <2>2. [orders[i] EXCEPT !.left = amount, !.tradeAmount = tradeAmount]
          \in Order
    <3>1. amount \in Nat /\ tradeAmount \in Nat
      BY DEF Amounts
    <3> QED
      BY <2>1, <3>1, OrderUpdates, Zenon
  <2>3. orders' \in [DOMAIN orders -> Order] /\ DOMAIN orders' = DOMAIN orders
    BY <1>3, <2>2 DEF UpdateOrder, TypeOK, With
  <2>4. pool' \in [Denoms -> Nat]
    BY <1>3, <2>1 DEF UpdateOrder, TypeOK, Credit, Debit, Order, Amounts
  <2> QED
    BY <1>3, <2>3, <2>4 DEF UpdateOrder, TypeOK
<1>4. ASSUME NEW u \in Users, NEW i \in DOMAIN orders, RemoveOrder(u, i)
      PROVE  TInv'
  <2>1. pool' \in [Denoms -> Nat]
    BY <1>4 DEF RemoveOrder, TypeOK, Debit, Order
  <2>2. orders' \in [DOMAIN orders' -> Order] /\ DOMAIN orders' \subseteq DOMAIN orders
    BY <1>4 DEF RemoveOrder, TypeOK, Without
  <2> QED
    BY <1>4, <2>1, <2>2 DEF RemoveOrder, TypeOK
<1>5. ASSUME NEW u \in Users, RemoveOrders(u)
      PROVE  TInv'
  <2>1. orders' \in [DOMAIN orders' -> Order] /\ DOMAIN orders' \subseteq DOMAIN orders
    BY <1>5 DEF RemoveOrders, TypeOK, Without
  <2>2. OrdersOf(u) \in SUBSET DOMAIN orders
    BY DEF OrdersOf
  <2>3. \A d \in Denoms : Escrow(Only(orders, OrdersOf(u)), d) \in Nat
    BY <1>1, <2>2, EscrowSplit DEF TypeOK
  <2>4. unclaimed' \in [Denoms -> Nat]
    BY <1>5, <2>3 DEF RemoveOrders, TypeOK
  <2> QED
    BY <1>5, <2>1, <2>4 DEF RemoveOrders, TypeOK
<1> QED
  BY <1>2, <1>3, <1>4, <1>5 DEF Transaction

\* Every step of the EndBlocker keeps the types.
LEMMA EndBlockType == TInv /\ EndBlock => TInv'
<1> SUFFICES ASSUME TInv, EndBlock PROVE TInv'
  OBVIOUS
<1> USE OrdersAssumption DEF TInv, PhaseOK, history
<1>1. CASE BeginExecuteOrders
  BY <1>1 DEF BeginExecuteOrders, TypeOK
<1>2. CASE NextBlock
  BY <1>2 DEF NextBlock, TypeOK
<1>3. ASSUME NEW i \in pending, ExecuteOrder(i) PROVE TInv'
  <2> DEFINE o == orders[i]
  <2>1. /\ o \in Order /\ o.from \in Denoms
        /\ Refund(o) \in Nat /\ pool[o.from] \in Nat
    BY <1>3 DEF TypeOK, Order, Refund
  <2>2. ASSUME NEW m \in Market, SkipOrder(i, m) PROVE TInv'
    <3>1. pool' \in [Denoms -> Nat]
      BY <2>1, <2>2 DEF SkipOrder, TypeOK, Debit, Refundable
    <3>2. /\ orders' \in [DOMAIN orders' -> Order]
          /\ DOMAIN orders' \subseteq DOMAIN orders
          /\ DOMAIN orders \ {i} \subseteq DOMAIN orders'
      BY <2>2 DEF SkipOrder, TypeOK, Without
    <3> QED
      BY <1>3, <2>2, <3>1, <3>2 DEF ExecuteOrder, SkipOrder, TypeOK
  <2>3. ASSUME NEW m \in Market, NEW used \in Amounts, TradeOrder(i, m, used)
        PROVE  TInv'
    <3> DEFINE given == GivenAmount(o, m)
               sent == Sent(o, given, used)
    <3>1. /\ given \in Nat /\ given <= o.left
          /\ used \in Nat /\ used <= given
      BY <2>1, <2>3, GivenBounds DEF TradeOrder, Trades, Amounts
    <3>2. sent \in Nat /\ sent <= given /\ sent - used \in Nat
      BY <3>1 DEF Sent
    <3>3. pool[o.from] - (Refund(o) + sent) \in Nat
      BY <2>1, <2>3, <3>1, <3>2 DEF TradeOrder, Short
    <3>4. pool' \in [Denoms -> Nat]
      BY <2>1, <2>3, <3>3 DEF TradeOrder, TypeOK, Debit
    <3>5. /\ paidTwice' \in [Denoms -> Nat]
          /\ unbooked' \in [Denoms -> Nat]
      BY <2>1, <2>3, <3>2 DEF TradeOrder, TypeOK, Credit
    <3>6. used < o.left => Executed(o, used) \in Order
      <4>1. height + o.interval \in Nat
        BY <2>1 DEF Order, TypeOK
      <4>2. used < o.left => o.left - used \in Nat
        BY <2>1, <3>1 DEF Order
      <4> QED
        BY <2>1, <4>1, <4>2, OrderUpdates DEF Executed
    <3>7. /\ orders' \in [DOMAIN orders' -> Order]
          /\ DOMAIN orders' \subseteq DOMAIN orders
          /\ DOMAIN orders \ {i} \subseteq DOMAIN orders'
      BY <1>3, <2>3, <3>6 DEF TradeOrder, AfterTrade, TypeOK, With, Without
    <3> QED
      BY <1>3, <2>3, <3>4, <3>5, <3>7 DEF ExecuteOrder, TradeOrder, TypeOK
  <2>4. ASSUME NEW m \in Market, FailOrder(i, m) PROVE TInv'
    BY <1>3, <2>4 DEF ExecuteOrder, FailOrder, TypeOK
  <2> QED
    BY <1>3, <2>2, <2>3, <2>4 DEF ExecuteOrder
<1> QED
  BY <1>1, <1>2, <1>3 DEF EndBlock, ExecuteOrders

\* The first block starts in the invariant.
LEMMA OrdersInit == Init => TInv
<1> SUFFICES ASSUME Init PROVE TInv
  OBVIOUS
<1>1. DOMAIN orders = {}
  BY DEF Init
<1>2. orders \in [DOMAIN orders -> Order]
  BY <1>1 DEF Init
<1>3. DOMAIN orders \subseteq 1..nextIndex
  BY <1>1
<1>4. 1 \in 1..MaxHeight /\ 0 \in 0..MaxOrders /\ 0 \in Nat
  BY OrdersAssumption
<1>5. height \in 1..MaxHeight /\ nextIndex \in 0..MaxOrders
  BY <1>4 DEF Init
<1> QED
  BY <1>2, <1>3, <1>4, <1>5 DEF Init, TInv, PhaseOK, TypeOK

\* Every step of the order book keeps it.
LEMMA OrdersStep == TInv /\ [Next]_vars => TInv'
<1>1. TInv /\ UNCHANGED vars => TInv'
  BY DEF TInv, TypeOK, PhaseOK, vars
<1> QED
  BY <1>1, TransactionType, EndBlockType DEF Next

\* The variables of the order book keep their types: in particular no balance
\* of PoolOrders and no order's remaining amount ever becomes negative.
THEOREM OrdersTypeCorrect == Spec => []TypeOK
<1>1. TInv => TypeOK
  BY DEF TInv
<1> QED
  BY <1>1, OrdersInit, OrdersStep, PTL DEF Spec

-----------------------------------------------------------------------------
\* The accounting of one denom, and its inductive invariant.
Account(d) ==
  pool[d] + paidTwice[d] + unbooked[d] = Escrow(orders, d) + unclaimed[d]

EInv == TInv /\ EscrowAccounting

\* Every transaction keeps the accounts.
LEMMA TransactionAccounts == EInv /\ Transaction => EscrowAccounting'
<1> SUFFICES ASSUME EInv, Transaction, NEW e \in Denoms PROVE Account(e)'
  BY DEF EscrowAccounting, Account
<1> USE OrdersAssumption DEF InTx, history
<1>1. IsFiniteSet(DOMAIN orders) /\ orders \in [DOMAIN orders -> Order]
  BY BookFinite DEF EInv, TInv, TypeOK
<1>2. /\ Account(e)
      /\ pool[e] \in Nat /\ paidTwice[e] \in Nat
      /\ unbooked[e] \in Nat /\ unclaimed[e] \in Nat
      /\ pool \in [Denoms -> Nat]
  BY DEF EInv, TInv, EscrowAccounting, Account, TypeOK
<1>3. Escrow(orders, e) \in Nat
  BY <1>1, EscrowType
<1>4. ASSUME NEW u \in Users, NEW d \in Denoms, NEW amount \in Amounts,
             NEW tradeAmount \in TradeAmounts, NEW blocks \in Lives,
             NEW interval \in Intervals, NEW incomplete \in BOOLEAN,
             AddOrder(u, d, amount, tradeAmount, blocks, interval, incomplete)
      PROVE  Account(e)'
  <2> DEFINE i == nextIndex + 1
             o == [creator |-> u, from |-> d, left |-> amount,
                   tradeAmount |-> tradeAmount, interval |-> interval,
                   nextExec |-> height, blockEnd |-> BlockEnd(blocks),
                   incomplete |-> incomplete]
  <2>1. o \in Order /\ LeftIn(o, e) = (IF d = e THEN amount ELSE 0)
    BY DEF EInv, TInv, TypeOK, Order, Amounts, BlockEnd, LeftIn
  <2>2. i \notin DOMAIN orders
    BY DEF EInv, TInv, TypeOK
  <2>3. Without(orders, {i}) = orders
    BY <1>1, <2>2 DEF Without
  <2>4. Escrow(With(orders, i, o), e) = Escrow(orders, e) + LeftIn(o, e)
    BY <1>1, <2>1, <2>3, EscrowWith
  <2>5. pool'[e] = pool[e] + (IF d = e THEN amount ELSE 0)
    BY <1>2, <1>4 DEF AddOrder, Credit, Amounts
  <2>6. amount \in Nat
    BY DEF Amounts
  <2>7. orders' = With(orders, i, o)
    BY <1>4 DEF AddOrder
  <2> QED
    BY <1>2, <1>3, <1>4, <2>1, <2>4, <2>5, <2>6, <2>7 DEF AddOrder, Account
<1>5. ASSUME NEW u \in Users, NEW i \in DOMAIN orders, NEW amount \in Amounts,
             NEW tradeAmount \in TradeAmounts,
             UpdateOrder(u, i, amount, tradeAmount)
      PROVE  Account(e)'
  <2> DEFINE o == orders[i]
             n == [o EXCEPT !.left = amount, !.tradeAmount = tradeAmount]
  <2>1. amount \in Nat /\ tradeAmount \in Nat
    BY DEF Amounts
  <2>2. o \in Order /\ o.from \in Denoms /\ o.left \in Nat
    BY <1>1 DEF Order
  <2>3. n \in Order /\ n.left = amount /\ n.from = o.from
    BY <2>1, <2>2 DEF Order
  <2> HIDE DEF n
  <2>4. /\ Escrow(Without(orders, {i}), e) \in Nat
        /\ Escrow(With(orders, i, n), e)
             = Escrow(Without(orders, {i}), e) + LeftIn(n, e)
        /\ Escrow(orders, e) = Escrow(Without(orders, {i}), e) + LeftIn(o, e)
    BY <1>1, <2>3, EscrowWith, EscrowWithout
  <2>5. pool'[e] = IF o.from = e THEN pool[e] - o.left + amount ELSE pool[e]
    BY <1>2, <1>5, <2>1, <2>2 DEF UpdateOrder, Credit, Debit
  <2>6. orders' = With(orders, i, n)
    BY <1>5 DEF UpdateOrder, n
  <2> QED
    <3>1. /\ paidTwice' = paidTwice /\ unbooked' = unbooked
          /\ unclaimed' = unclaimed
      BY <1>5 DEF UpdateOrder
    <3> QED
      BY <1>2, <1>3, <2>1, <2>2, <2>3, <2>4, <2>5, <2>6, <3>1
         DEF Account, LeftIn
<1>6. ASSUME NEW u \in Users, NEW i \in DOMAIN orders, RemoveOrder(u, i)
      PROVE  Account(e)'
  <2> DEFINE o == orders[i]
  <2>1. o \in Order /\ o.from \in Denoms /\ o.left \in Nat
    BY <1>1 DEF Order
  <2>2. /\ Escrow(Without(orders, {i}), e) \in Nat
        /\ Escrow(orders, e) = Escrow(Without(orders, {i}), e) + LeftIn(o, e)
    BY <1>1, EscrowWithout
  <2>3. pool'[e] = IF o.from = e THEN pool[e] - o.left ELSE pool[e]
    BY <1>2, <1>6, <2>1 DEF RemoveOrder, Debit
  <2> QED
    BY <1>2, <1>3, <1>6, <2>1, <2>2, <2>3 DEF RemoveOrder, Account, LeftIn
<1>7. ASSUME NEW u \in Users, RemoveOrders(u)
      PROVE  Account(e)'
  <2>1. OrdersOf(u) \in SUBSET DOMAIN orders
    BY DEF OrdersOf
  <2>2. /\ Escrow(Without(orders, OrdersOf(u)), e) \in Nat
        /\ Escrow(Only(orders, OrdersOf(u)), e) \in Nat
        /\ Escrow(orders, e) = Escrow(Without(orders, OrdersOf(u)), e)
                                 + Escrow(Only(orders, OrdersOf(u)), e)
    BY <1>1, <2>1, EscrowSplit
  <2>3. unclaimed'[e] = unclaimed[e] + Escrow(Only(orders, OrdersOf(u)), e)
    BY <1>7 DEF RemoveOrders
  <2> QED
    BY <1>2, <1>3, <1>7, <2>2, <2>3 DEF RemoveOrders, Account
<1> QED
  BY <1>4, <1>5, <1>6, <1>7 DEF Transaction

\* Every step of the EndBlocker keeps the accounts.
LEMMA EndBlockAccounts == EInv /\ EndBlock => EscrowAccounting'
<1> SUFFICES ASSUME EInv, EndBlock, NEW e \in Denoms PROVE Account(e)'
  BY DEF EscrowAccounting, Account
<1> USE OrdersAssumption DEF history
<1>1. IsFiniteSet(DOMAIN orders) /\ orders \in [DOMAIN orders -> Order]
  BY BookFinite DEF EInv, TInv, TypeOK
<1>2. /\ Account(e)
      /\ pool[e] \in Nat /\ paidTwice[e] \in Nat
      /\ unbooked[e] \in Nat /\ unclaimed[e] \in Nat
      /\ pool \in [Denoms -> Nat]
      /\ paidTwice \in [Denoms -> Nat] /\ unbooked \in [Denoms -> Nat]
  BY DEF EInv, TInv, EscrowAccounting, Account, TypeOK
<1>3. Escrow(orders, e) \in Nat
  BY <1>1, EscrowType
<1>4. CASE BeginExecuteOrders \/ NextBlock
  BY <1>2, <1>4 DEF BeginExecuteOrders, NextBlock, Account
<1>5. ASSUME NEW i \in pending, ExecuteOrder(i) PROVE Account(e)'
  <2> DEFINE o == orders[i]
  <2>1. /\ i \in DOMAIN orders /\ o \in Order /\ o.from \in Denoms
        /\ o.left \in Nat /\ Refund(o) \in {0, o.left}
        /\ Refund(o) = IF Expired(o) THEN o.left ELSE 0
    BY <1>1, <1>5 DEF EInv, TInv, TypeOK, Order, Refund
  <2>2. /\ Escrow(Without(orders, {i}), e) \in Nat
        /\ Escrow(orders, e) = Escrow(Without(orders, {i}), e) + LeftIn(o, e)
    BY <1>1, <2>1, EscrowWithout
  <2>3. ASSUME NEW m \in Market, SkipOrder(i, m) PROVE Account(e)'
    <3>1. pool'[e] = IF o.from = e THEN pool[e] - Refund(o) ELSE pool[e]
      BY <1>2, <2>1, <2>3 DEF SkipOrder, Debit
    <3>2. orders' = IF Expired(o) THEN Without(orders, {i}) ELSE orders
      BY <2>3 DEF SkipOrder
    <3> QED
      BY <1>2, <1>3, <2>1, <2>2, <2>3, <3>1, <3>2
         DEF SkipOrder, Account, LeftIn
  <2>4. ASSUME NEW m \in Market, NEW used \in Amounts, TradeOrder(i, m, used)
        PROVE  Account(e)'
    <3> DEFINE given == GivenAmount(o, m)
               sent == Sent(o, given, used)
               n == Executed(o, used)
    <3>1. /\ given \in Nat /\ given <= o.left
          /\ used \in Nat /\ used <= given
      BY <2>1, <2>4, GivenBounds DEF TradeOrder, Trades, Amounts
    <3>2. sent \in Nat /\ sent - used \in Nat
      BY <3>1 DEF Sent
    <3> HIDE DEF given, sent
    <3>3. pool'[e] = IF o.from = e THEN pool[e] - (Refund(o) + sent) ELSE pool[e]
      BY <1>2, <2>1, <2>4, <3>2 DEF TradeOrder, Debit, given, sent
    <3>4. unbooked'[e] = IF o.from = e THEN unbooked[e] + (sent - used)
                                       ELSE unbooked[e]
      BY <1>2, <2>1, <2>4, <3>2 DEF TradeOrder, Credit, given, sent
    <3>5. paidTwice'[e] = IF o.from = e /\ used > 0
                            THEN paidTwice[e] + Refund(o) ELSE paidTwice[e]
      BY <1>2, <2>1, <2>4 DEF TradeOrder, Credit
    <3>6. used < o.left => /\ n \in Order
                           /\ n.from = o.from
                           /\ n.left = o.left - used
      <4>1. height + o.interval \in Nat
        BY <2>1 DEF EInv, TInv, Order, TypeOK
      <4>2. used < o.left => o.left - used \in Nat
        BY <2>1, <3>1
      <4> QED
        BY <2>1, <4>1, <4>2 DEF Executed, Order
    <3> HIDE DEF n
    <3>7. used < o.left =>
            Escrow(With(orders, i, n), e)
              = Escrow(Without(orders, {i}), e) + LeftIn(n, e)
      BY <1>1, <3>6, EscrowWith
    <3>8. orders' = IF used > 0 /\ used < o.left
                      THEN With(orders, i, n)
                      ELSE IF used > 0 \/ Expired(o) THEN Without(orders, {i})
                                                     ELSE orders
      BY <2>4 DEF TradeOrder, AfterTrade, n
    <3>9. unclaimed' = unclaimed
      BY <2>4 DEF TradeOrder
    <3>10. CASE used > 0 /\ used < o.left
      BY <1>2, <1>3, <2>1, <2>2, <3>1, <3>2, <3>3, <3>4, <3>5, <3>6, <3>7,
         <3>8, <3>9, <3>10 DEF Account, LeftIn
    <3>11. CASE used > 0 /\ ~(used < o.left)
      BY <1>2, <1>3, <2>1, <2>2, <3>1, <3>2, <3>3, <3>4, <3>5, <3>8, <3>9,
         <3>11 DEF Account, LeftIn
    <3>12. CASE used = 0
      BY <1>2, <1>3, <2>1, <2>2, <3>2, <3>3, <3>4, <3>5, <3>8, <3>9, <3>12
         DEF Account, LeftIn
    <3> QED
      BY <3>1, <3>10, <3>11, <3>12
  <2>5. ASSUME NEW m \in Market, FailOrder(i, m) PROVE Account(e)'
    BY <1>2, <2>5 DEF FailOrder, Account
  <2> QED
    BY <1>5, <2>3, <2>4, <2>5 DEF ExecuteOrder
<1> QED
  BY <1>4, <1>5 DEF EndBlock, ExecuteOrders

\* The accounts are an inductive invariant.
LEMMA AccountsInvariant == Spec => []EInv
<1>1. Init => EInv
  <2> SUFFICES ASSUME Init PROVE EInv
    OBVIOUS
  <2>1. TInv
    BY OrdersInit
  <2>2. \A d \in Denoms : Escrow(orders, d) = 0
    BY SumZero DEF Init, Escrow
  <2> QED
    BY <2>1, <2>2 DEF Init, EInv, EscrowAccounting
<1>2. EInv /\ [Next]_vars => EInv'
  <2>1. EInv /\ UNCHANGED vars => EscrowAccounting'
    BY DEF EInv, EscrowAccounting, vars
  <2>2. EInv /\ [Next]_vars => TInv'
    BY OrdersStep DEF EInv
  <2> QED
    BY <2>1, <2>2, TransactionAccounts, EndBlockAccounts DEF Next, EInv
<1> QED
  BY <1>1, <1>2, PTL DEF Spec

\* PoolOrders is accounted for: it differs from the coins of the book by
\* exactly what RemoveOrders left behind, what expired orders were paid twice
\* and what trades of the base currency took without booking it.
THEOREM OrdersEscrow == Spec => []EscrowAccounting
<1>1. EInv => EscrowAccounting
  BY DEF EInv
<1> QED
  BY <1>1, AccountsInvariant, PTL

\* The action of FailsOnlyOn.
Cause(o) ==
  \/ failure' = "funds" /\ Expired(o)
  \/ failure' = "nil amount" /\ o.incomplete
  \/ failure' = "trade step"

FailsOnlyOnStep ==
  (halted' /\ ~halted /\ Solvent) => \A i \in pending \ pending' : Cause(orders[i])

\* A solvent PoolOrders covers every live order, and the refund of every other.
LEMMA Covered ==
  ASSUME EInv, Solvent, NEW i \in pending, NEW m \in Market
  PROVE  /\ Refundable(orders[i])
         /\ Trades(orders[i], m) /\ Short(orders[i], m) => Expired(orders[i])
<1> USE OrdersAssumption
<1> DEFINE o == orders[i]
<1>1. IsFiniteSet(DOMAIN orders) /\ orders \in [DOMAIN orders -> Order]
  BY BookFinite DEF EInv, TInv, TypeOK
<1>2. i \in DOMAIN orders /\ o \in Order /\ o.from \in Denoms /\ o.left \in Nat
  BY <1>1 DEF EInv, TInv, TypeOK, Order
<1>3. /\ Escrow(Without(orders, {i}), o.from) \in Nat
      /\ Escrow(orders, o.from) = Escrow(Without(orders, {i}), o.from) + o.left
  BY <1>1, <1>2, EscrowWithout DEF LeftIn
<1>4. /\ pool[o.from] \in Nat /\ unclaimed[o.from] \in Nat
      /\ pool[o.from] = Escrow(orders, o.from) + unclaimed[o.from]
  BY <1>2 DEF EInv, TInv, TypeOK, EscrowAccounting, Solvent
<1>5. o.left <= pool[o.from]
  BY <1>2, <1>3, <1>4
<1>6. Refundable(o)
  BY <1>2, <1>4, <1>5 DEF Refundable, Refund
<1>7. ASSUME Trades(o, m), Short(o, m), ~Expired(o) PROVE FALSE
  <2>1. GivenAmount(o, m) \in Nat /\ GivenAmount(o, m) <= o.left
    BY <1>2, <1>7, GivenBounds DEF Trades
  <2> QED
    BY <1>2, <1>4, <1>5, <1>7, <2>1 DEF Short, Refund
<1> QED
  BY <1>6, <1>7

\* Only a round of ExecuteOrders stops the chain, and its order is the one that
\* is no longer pending.
LEMMA FailureCause == EInv /\ [Next]_vars => FailsOnlyOnStep
<1> SUFFICES ASSUME EInv, [Next]_vars, halted', ~halted, Solvent,
                    NEW j \in pending \ pending'
             PROVE  Cause(orders[j])
  BY DEF FailsOnlyOnStep
<1>1. failure' # failure
  BY DEF halted
<1>2. PICK i \in pending, m \in Market : FailOrder(i, m) /\ pending' = pending \ {i}
  <2>1. ~Transaction
    BY <1>1 DEF Transaction, AddOrder, UpdateOrder, RemoveOrder, RemoveOrders
  <2>2. ~BeginExecuteOrders /\ ~NextBlock /\ ~UNCHANGED vars
    BY <1>1 DEF BeginExecuteOrders, NextBlock, vars
  <2>3. PICK i \in pending : ExecuteOrder(i)
    BY <2>1, <2>2 DEF Next, EndBlock, ExecuteOrders
  <2>4. \A m \in Market, used \in Amounts : ~TradeOrder(i, m, used)
    BY <1>1 DEF TradeOrder
  <2>5. \A m \in Market : ~SkipOrder(i, m)
    BY <1>1 DEF SkipOrder
  <2> QED
    BY <2>3, <2>4, <2>5 DEF ExecuteOrder
<1>3. j = i
  BY <1>2
<1>4. /\ Refundable(orders[i])
      /\ Trades(orders[i], m) /\ Short(orders[i], m) => Expired(orders[i])
  BY <1>2, Covered
<1>5. PICK cause \in Failures : FailsWith(orders[i], m, cause) /\ failure' = cause
  BY <1>2 DEF FailOrder
<1> QED
  BY <1>3, <1>4, <1>5 DEF FailsWith, Cause

\* PoolOrders can be short for an expired order only while it owes nothing
\* twice: a live order stops the chain by a nil amount or a failed trade step.
THEOREM OrdersFailure == Spec => FailsOnlyOn
<1>1. EInv /\ [Next]_vars => [FailsOnlyOnStep]_vars
  BY FailureCause
<1> QED
  BY <1>1, AccountsInvariant, PTL DEF Spec, FailsOnlyOn, FailsOnlyOnStep, Cause
=============================================================================
