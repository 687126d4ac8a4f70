---------------------------- MODULE LedgerProofs ----------------------------
(* Invariants of Ledger for every value of the constants. *)
EXTENDS Ledger, OrderRulesProofs, FiniteSetTheorems

-----------------------------------------------------------------------------
(* What a request does to the orders and trades, in three forms *)

\* Only order o changes among the orders.
OnlyOrder(d, e, o) == e.orders = [d.orders EXCEPT ![o] = e.orders[o]]

\* Order o comes into being, pending on a listed stock.
OpensOrder(d, e, o) ==
    /\ o \in OrderIds
    /\ d.orders[o] = NoOrder
    /\ OnlyOrder(d, e, o)
    /\ e.orders[o] \in Order
    /\ e.orders[o].status = "PENDING"
    /\ Listed(d, e.orders[o].symbol)
    /\ e.trades = d.trades

\* Order o is cancelled.
DropsOrder(d, e, o) ==
    /\ o \in OrderIds
    /\ d.orders[o].status = "PENDING"
    /\ e.orders = [d.orders EXCEPT ![o] = [d.orders[o] EXCEPT !.status = "CANCELLED"]]
    /\ e.trades = d.trades

\* What a trade owes to the order it settles.
Settles(trade, order) ==
    /\ trade.user = order.user /\ trade.symbol = order.symbol
    /\ trade.side = order.side /\ trade.quantity = order.quantity
    /\ order.type = "LIMIT" => ShouldExecute(order, trade.executionPrice)

\* Order o, pending or new on a listed stock, is settled by one more trade.
FillsOrder(d, e, o) ==
    /\ o \in OrderIds
    /\ \/ /\ d.orders[o] = NoOrder
          /\ Listed(d, e.orders[o].symbol)
       \/ /\ d.orders[o].status = "PENDING"
          /\ e.orders[o] = [d.orders[o] EXCEPT !.status = "EXECUTED"]
    /\ OnlyOrder(d, e, o)
    /\ e.orders[o] \in Order
    /\ e.orders[o].status = "EXECUTED"
    /\ \E trade \in Trade :
           /\ Settles(trade, e.orders[o])
           /\ e.trades = [d.trades EXCEPT ![o] = Append(d.trades[o], trade)]

LEMMA CreateBuyOpens ==
    ASSUME NEW d \in Database, NEW op \in CreateBuyRequest, CanCreateBuy(d, op)
    PROVE  /\ OpensOrder(d, CreateBuy(d, op), op.order)
           /\ CreateBuy(d, op).positions = d.positions
           /\ CreateBuy(d, op).stocks = d.stocks
<1> DEFINE e == CreateBuy(d, op)
           order == NewOrder(op, "BUY", "LIMIT", op.limitPrice, "PENDING", Reservation(op))
<1>1. /\ e = [d EXCEPT !.users = e.users, !.orders = e.orders]
      /\ e.orders = [d.orders EXCEPT ![op.order] = order]
  BY CreateBuyEffect
<1>2. e \in Database
  BY CreateBuyTypeOK
<1>3. /\ op.order \in OrderIds /\ d.orders[op.order] = NoOrder
      /\ Listed(d, op.symbol)
  BY DEF CreateBuyRequest, CanCreateBuy
<1>4. order.status = "PENDING" /\ order.symbol = op.symbol
  BY DEF NewOrder
<1> HIDE DEF e, order
<1>5. e.trades = d.trades /\ e.positions = d.positions /\ e.stocks = d.stocks
  BY <1>1 DEF Database
<1>6. e.orders[op.order] = order
  BY <1>1, <1>3 DEF Database
<1>7. order \in Order
  BY <1>2, <1>3, <1>4, <1>6 DEF Database, NoOrder
<1>8. OpensOrder(d, e, op.order)
  BY <1>1, <1>3, <1>4, <1>5, <1>6, <1>7 DEF OpensOrder, OnlyOrder
<1>9. QED
  BY <1>5, <1>8 DEF e

LEMMA CreateSellOpens ==
    ASSUME NEW d \in Database, NEW op \in CreateSellRequest, CanCreateSell(d, op)
    PROVE  /\ OpensOrder(d, CreateSell(d, op), op.order)
           /\ CreateSell(d, op).stocks = d.stocks
<1> DEFINE e == CreateSell(d, op)
           order == NewOrder(op, "SELL", "LIMIT", op.limitPrice, "PENDING", 0)
<1>1. /\ e = [d EXCEPT !.positions = e.positions, !.orders = e.orders]
      /\ e.orders = [d.orders EXCEPT ![op.order] = order]
  BY CreateSellEffect
<1>2. e \in Database
  BY CreateSellTypeOK
<1>3. /\ op.order \in OrderIds /\ d.orders[op.order] = NoOrder
      /\ Listed(d, op.symbol)
  BY DEF CreateSellRequest, CanCreateSell
<1>4. order.status = "PENDING" /\ order.symbol = op.symbol
  BY DEF NewOrder
<1> HIDE DEF e, order
<1>5. e.trades = d.trades /\ e.stocks = d.stocks
  BY <1>1 DEF Database
<1>6. e.orders[op.order] = order
  BY <1>1, <1>3 DEF Database
<1>7. order \in Order
  BY <1>2, <1>3, <1>4, <1>6 DEF Database, NoOrder
<1>8. OpensOrder(d, e, op.order)
  BY <1>1, <1>3, <1>4, <1>5, <1>6, <1>7 DEF OpensOrder, OnlyOrder
<1>9. QED
  BY <1>5, <1>8 DEF e

LEMMA CancelledDrops ==
    ASSUME NEW d \in Database, NEW op, op.order \in OrderIds,
           d.orders[op.order].status = "PENDING",
           NEW e, Cancelled(d, e, op)
    PROVE  DropsOrder(d, e, op.order) /\ e.stocks = d.stocks
<1>1. /\ e = [d EXCEPT !.users = e.users, !.positions = e.positions,
                       !.orders = e.orders]
      /\ e.orders = [d.orders EXCEPT ![op.order] =
                        [d.orders[op.order] EXCEPT !.status = "CANCELLED"]]
  BY DEF Cancelled
<1>2. e.trades = d.trades /\ e.stocks = d.stocks
  BY <1>1 DEF Database
<1>3. QED
  BY <1>1, <1>2 DEF DropsOrder

LEMMA FilledFills ==
    ASSUME NEW d \in Database, NEW op \in ExecuteRequest, CanExecute(d, op),
           NEW e, Filled(d, e, op)
    PROVE  FillsOrder(d, e, op.order) /\ e.stocks = d.stocks
<1> DEFINE order == d.orders[op.order]
           filled == [order EXCEPT !.status = "EXECUTED"]
           trade == NewTrade(order.user, order.symbol, order.side, order.quantity, op)
<1>1. /\ op.order \in OrderIds /\ order.status = "PENDING"
      /\ ShouldExecute(order, op.price) /\ order \in Order
  BY DEF CanExecute, ExecuteRequest, Database, NoOrder
<1>2. /\ e = [d EXCEPT !.users = e.users, !.positions = e.positions,
                       !.orders = e.orders, !.trades = e.trades]
      /\ e.orders = [d.orders EXCEPT ![op.order] = filled]
      /\ e.trades = [d.trades EXCEPT ![op.order] = Append(d.trades[op.order], trade)]
  BY DEF Filled
<1>3. trade \in Trade
  BY <1>1, NewTradeType DEF Order, ExecuteRequest
<1>4. filled \in Order /\ filled.status = "EXECUTED"
  BY <1>1 DEF Order
<1>5. Settles(trade, filled)
  BY <1>1 DEF Settles, NewTrade, ShouldExecute, Order
<1> HIDE DEF order, filled, trade
<1>6. e.stocks = d.stocks
  BY <1>2 DEF Database
<1>7. e.orders[op.order] = filled
  BY <1>1, <1>2 DEF Database
<1>8. FillsOrder(d, e, op.order)
  BY <1>1, <1>2, <1>3, <1>4, <1>5, <1>7 DEF FillsOrder, OnlyOrder, order, filled
<1>9. QED
  BY <1>6, <1>8

LEMMA MarketBuyFills ==
    ASSUME NEW d \in Database, NEW op \in MarketRequest, CanMarketBuy(d, op)
    PROVE  /\ FillsOrder(d, MarketBuy(d, op), op.order)
           /\ MarketBuy(d, op).stocks = d.stocks
<1> DEFINE e == MarketBuy(d, op)
           order == NewOrder(op, "BUY", "MARKET", 0, "EXECUTED", 0)
           trade == NewTrade(op.user, op.symbol, "BUY", op.quantity, op)
<1>1. /\ op.order \in OrderIds /\ d.orders[op.order] = NoOrder
      /\ Listed(d, op.symbol)
  BY DEF CanMarketBuy, MarketRequest
<1>2. /\ e = [d EXCEPT !.users = e.users, !.positions = e.positions,
                       !.orders = e.orders, !.trades = e.trades]
      /\ e.orders = [d.orders EXCEPT ![op.order] = order]
      /\ e.trades = [d.trades EXCEPT ![op.order] = Append(d.trades[op.order], trade)]
  BY MarketBuyEffect
<1>3. trade \in Trade
  BY NewTradeType DEF MarketRequest
<1>4. /\ order \in Order /\ order.status = "EXECUTED" /\ order.symbol = op.symbol
  BY DEF NewOrder, Order, MarketRequest
<1>5. Settles(trade, order)
  BY DEF Settles, NewTrade, NewOrder
<1> HIDE DEF e, order, trade
<1>6. e.stocks = d.stocks
  BY <1>2 DEF Database
<1>7. e.orders[op.order] = order
  BY <1>1, <1>2 DEF Database
<1>8. FillsOrder(d, e, op.order)
  BY <1>1, <1>2, <1>3, <1>4, <1>5, <1>7 DEF FillsOrder, OnlyOrder
<1>9. QED
  BY <1>6, <1>8 DEF e

LEMMA MarketSellFills ==
    ASSUME NEW d \in Database, NEW op \in MarketRequest, CanMarketSell(d, op)
    PROVE  /\ FillsOrder(d, MarketSell(d, op), op.order)
           /\ MarketSell(d, op).stocks = d.stocks
<1> DEFINE e == MarketSell(d, op)
           order == NewOrder(op, "SELL", "MARKET", 0, "EXECUTED", 0)
           trade == NewTrade(op.user, op.symbol, "SELL", op.quantity, op)
<1>1. /\ op.order \in OrderIds /\ d.orders[op.order] = NoOrder
      /\ Listed(d, op.symbol)
  BY DEF CanMarketSell, MarketRequest
<1>2. /\ e = [d EXCEPT !.users = e.users, !.positions = e.positions,
                       !.orders = e.orders, !.trades = e.trades]
      /\ e.orders = [d.orders EXCEPT ![op.order] = order]
      /\ e.trades = [d.trades EXCEPT ![op.order] = Append(d.trades[op.order], trade)]
  BY MarketSellEffect
<1>3. trade \in Trade
  BY NewTradeType DEF MarketRequest
<1>4. /\ order \in Order /\ order.status = "EXECUTED" /\ order.symbol = op.symbol
  BY DEF NewOrder, Order, MarketRequest
<1>5. Settles(trade, order)
  BY DEF Settles, NewTrade, NewOrder
<1> HIDE DEF e, order, trade
<1>6. e.stocks = d.stocks
  BY <1>2 DEF Database
<1>7. e.orders[op.order] = order
  BY <1>1, <1>2 DEF Database
<1>8. FillsOrder(d, e, op.order)
  BY <1>1, <1>2, <1>3, <1>4, <1>5, <1>7 DEF FillsOrder, OnlyOrder
<1>9. QED
  BY <1>6, <1>8 DEF e

-----------------------------------------------------------------------------
(* Executed orders and their trades *)

\* An executed order has one trade and the trade settles it; no other has any.
Settled(d) ==
    \A o \in OrderIds :
        /\ d.orders[o].status = "EXECUTED" =>
               \E trade \in Trade :
                   d.trades[o] = <<trade>> /\ Settles(trade, d.orders[o])
        /\ d.orders[o].status # "EXECUTED" => d.trades[o] = <<>>

LEMMA OpensSettled ==
    ASSUME NEW d \in Database, NEW e, NEW o, OpensOrder(d, e, o), Settled(d)
    PROVE  Settled(e)
<1>1. d.orders[o].status # "EXECUTED" /\ e.orders[o].status # "EXECUTED"
  BY DEF OpensOrder, NoOrder
<1>2. \A p \in OrderIds : p # o => e.orders[p] = d.orders[p]
  BY DEF OpensOrder, OnlyOrder, Database
<1>3. e.trades = d.trades /\ d.trades[o] = <<>>
  BY <1>1 DEF OpensOrder, Settled
<1>4. QED
  BY <1>1, <1>2, <1>3 DEF Settled

LEMMA DropsSettled ==
    ASSUME NEW d \in Database, NEW e, NEW o, DropsOrder(d, e, o), Settled(d)
    PROVE  Settled(e)
<1>1. d.orders[o] \in Order
  BY DEF DropsOrder, Database, NoOrder
<1>2. e.orders[o].status = "CANCELLED"
  BY <1>1 DEF DropsOrder, Database, Order
<1>3. QED
  BY <1>2 DEF DropsOrder, Settled, Database

LEMMA FillsSettled ==
    ASSUME NEW d \in Database, NEW e, NEW o, FillsOrder(d, e, o), Settled(d)
    PROVE  Settled(e)
<1>1. d.orders[o].status # "EXECUTED"
  BY DEF FillsOrder, NoOrder
<1>2. d.trades[o] = <<>>
  BY <1>1 DEF Settled, FillsOrder
<1>3. PICK trade \in Trade :
          /\ Settles(trade, e.orders[o])
          /\ e.trades = [d.trades EXCEPT ![o] = Append(d.trades[o], trade)]
  BY DEF FillsOrder
<1>4. e.trades[o] = <<trade>>
  BY <1>2, <1>3 DEF FillsOrder, Database
<1>5. e.orders[o].status = "EXECUTED" /\ e.orders = [d.orders EXCEPT ![o] = e.orders[o]]
  BY DEF FillsOrder, OnlyOrder
<1>6. ASSUME NEW p \in OrderIds, p # o
      PROVE  e.orders[p] = d.orders[p] /\ e.trades[p] = d.trades[p]
  BY <1>3, <1>5, <1>6 DEF Database
<1>7. ASSUME NEW p \in OrderIds
      PROVE  /\ e.orders[p].status = "EXECUTED" =>
                    \E t \in Trade : e.trades[p] = <<t>> /\ Settles(t, e.orders[p])
             /\ e.orders[p].status # "EXECUTED" => e.trades[p] = <<>>
  <2>1. CASE p = o
    BY <1>3, <1>4, <1>5, <2>1
  <2>2. CASE p # o
    BY <1>6, <2>2 DEF Settled
  <2>3. QED
    BY <2>1, <2>2
<1>8. QED
  BY <1>7 DEF Settled

-----------------------------------------------------------------------------
(* Reserved shares are held *)

Covered(d) ==
    \A h \in Users \X Symbols :
        d.positions[h].reservedQuantity <= d.positions[h].quantity

\* One position changes, and keeps its reservation within what it holds.
LEMMA OnePositionCovered ==
    ASSUME NEW d \in Database, Covered(d), NEW e, NEW h \in Users \X Symbols,
           NEW position \in Position,
           position.reservedQuantity <= position.quantity,
           e.positions = [d.positions EXCEPT ![h] = position]
    PROVE  Covered(e)
BY DEF Covered, Database

LEMMA CreateSellCovered ==
    ASSUME NEW d \in Database, NEW op \in CreateSellRequest, CanCreateSell(d, op),
           Covered(d)
    PROVE  Covered(CreateSell(d, op))
<1> DEFINE e == CreateSell(d, op)
           h == <<op.user, op.symbol>>
           position == d.positions[h]
<1>1. h \in Users \X Symbols /\ op.quantity \in Nat
  BY OrderRulesAssumption DEF CreateSellRequest
<1>2. position \in Position /\ Free(position) >= op.quantity
  BY <1>1 DEF Database, CanCreateSell
<1>3. e.positions = [d.positions EXCEPT ![h] = Moved(position, 0, op.quantity)]
  BY CreateSellEffect
<1> HIDE DEF e, h, position
<1>4. /\ Moved(position, 0, op.quantity) \in Position
      /\ Moved(position, 0, op.quantity).reservedQuantity
            <= Moved(position, 0, op.quantity).quantity
  BY <1>1, <1>2 DEF Moved, Position, Free
<1>5. Covered(e)
  BY <1>1, <1>3, <1>4, OnePositionCovered
<1>6. QED
  BY <1>5 DEF e

LEMMA CancelledCovered ==
    ASSUME NEW d \in Database, NEW op, op.order \in OrderIds,
           d.orders[op.order].status = "PENDING",
           NEW e, Cancelled(d, e, op), Covered(d)
    PROVE  Covered(e)
<1> DEFINE order == d.orders[op.order]
           h == <<order.user, order.symbol>>
           position == d.positions[h]
<1>1. order \in Order
  BY DEF Database, NoOrder
<1>2. h \in Users \X Symbols /\ order.quantity \in Nat
  BY <1>1, OrderRulesAssumption DEF Order
<1>3. position \in Position /\ position.reservedQuantity <= position.quantity
  BY <1>2 DEF Database, Covered
<1>4. \/ e.positions = d.positions
      \/ e.positions = [d.positions EXCEPT ![h] = ReleaseShares(position, order)]
  BY DEF Cancelled
<1> HIDE DEF order, h, position
<1>5. /\ ReleaseShares(position, order) \in Position
      /\ ReleaseShares(position, order).reservedQuantity
            <= ReleaseShares(position, order).quantity
  BY <1>2, <1>3 DEF ReleaseShares, AtLeastZero, Position
<1>6. CASE e.positions = d.positions
  BY <1>6 DEF Covered
<1>7. CASE e.positions = [d.positions EXCEPT ![h] = ReleaseShares(position, order)]
  BY <1>2, <1>5, <1>7, OnePositionCovered
<1>8. QED
  BY <1>4, <1>6, <1>7

LEMMA FilledCovered ==
    ASSUME NEW d \in Database, NEW op \in ExecuteRequest,
           d.orders[op.order].status = "PENDING",
           NEW e, Filled(d, e, op), Covered(d)
    PROVE  Covered(e)
<1> DEFINE order == d.orders[op.order]
           h == <<order.user, order.symbol>>
           position == d.positions[h]
           bought == Bought(position, order.quantity, op.price)
           sold == Sold(ReleaseShares(position, order), order.quantity)
<1>1. order \in Order
  BY DEF Database, NoOrder, ExecuteRequest
<1>2. /\ h \in Users \X Symbols
      /\ order.quantity \in Nat /\ order.quantity \in Quantities /\ op.price \in Prices
  BY <1>1, OrderRulesAssumption DEF Order, ExecuteRequest
<1>3. position \in Position /\ position.reservedQuantity <= position.quantity
  BY <1>2 DEF Database, Covered
<1>4. \/ e.positions = [d.positions EXCEPT ![h] = bought]
      \/ /\ position.quantity >= order.quantity
         /\ position.reservedQuantity >= order.quantity
         /\ e.positions = [d.positions EXCEPT ![h] = sold]
  BY DEF Filled, FilledBuy, FilledSell
<1> HIDE DEF order, h, position
<1>5. CASE e.positions = [d.positions EXCEPT ![h] = bought]
  <2>1. /\ bought \in Position
        /\ bought.reservedQuantity = position.reservedQuantity
        /\ bought.quantity = position.quantity + order.quantity
    BY <1>2, <1>3, BoughtType
  <2> HIDE DEF bought
  <2>2. bought.reservedQuantity <= bought.quantity
    BY <1>2, <1>3, <2>1 DEF Position
  <2>3. QED
    BY <1>2, <1>5, <2>1, <2>2, OnePositionCovered
<1>6. CASE /\ position.quantity >= order.quantity
           /\ position.reservedQuantity >= order.quantity
           /\ e.positions = [d.positions EXCEPT ![h] = sold]
  <2>1. sold \in Position /\ sold.reservedQuantity <= sold.quantity
    BY <1>2, <1>3, <1>6
    DEF Sold, Moved, NoPosition, ReleaseShares, AtLeastZero, Position
  <2>2. QED
    BY <1>2, <1>6, <2>1, OnePositionCovered
<1>7. QED
  BY <1>4, <1>5, <1>6

LEMMA MarketBuyCovered ==
    ASSUME NEW d \in Database, NEW op \in MarketRequest, Covered(d)
    PROVE  Covered(MarketBuy(d, op))
<1> DEFINE e == MarketBuy(d, op)
           h == <<op.user, op.symbol>>
           position == d.positions[h]
           bought == Bought(position, op.quantity, op.price)
<1>1. /\ h \in Users \X Symbols
      /\ op.quantity \in Nat /\ op.quantity \in Quantities /\ op.price \in Prices
  BY OrderRulesAssumption DEF MarketRequest
<1>2. position \in Position /\ position.reservedQuantity <= position.quantity
  BY <1>1 DEF Database, Covered
<1>3. e.positions = [d.positions EXCEPT ![h] = bought]
  BY MarketBuyEffect
<1> HIDE DEF e, h, position
<1>4. /\ bought \in Position
      /\ bought.reservedQuantity = position.reservedQuantity
      /\ bought.quantity = position.quantity + op.quantity
  BY <1>1, <1>2, BoughtType
<1> HIDE DEF bought
<1>5. bought.reservedQuantity <= bought.quantity
  BY <1>1, <1>2, <1>4 DEF Position
<1>6. Covered(e)
  BY <1>1, <1>3, <1>4, <1>5, OnePositionCovered
<1>7. QED
  BY <1>6 DEF e

LEMMA MarketSellCovered ==
    ASSUME NEW d \in Database, NEW op \in MarketRequest, CanMarketSell(d, op),
           Covered(d)
    PROVE  Covered(MarketSell(d, op))
<1> DEFINE e == MarketSell(d, op)
           h == <<op.user, op.symbol>>
           position == d.positions[h]
           sold == Sold(position, op.quantity)
<1>1. h \in Users \X Symbols /\ op.quantity \in Nat
  BY OrderRulesAssumption DEF MarketRequest
<1>2. position \in Position /\ Free(position) >= op.quantity
  BY <1>1 DEF Database, CanMarketSell
<1>3. e.positions = [d.positions EXCEPT ![h] = sold]
  BY MarketSellEffect
<1> HIDE DEF e, h, position
<1>4. sold \in Position /\ sold.reservedQuantity <= sold.quantity
  BY <1>1, <1>2 DEF Sold, Moved, NoPosition, Position, Free
<1>5. Covered(e)
  BY <1>1, <1>3, <1>4, OnePositionCovered
<1>6. QED
  BY <1>5 DEF e

-----------------------------------------------------------------------------
(* References to listed stocks *)

Referenced(d) == \A s \in Symbols : HasReferences(d, s) => Listed(d, s)

\* A position holds shares only if it did before or its stock is listed.
HoldsListed(d, e) ==
    \A u \in Users, s \in Symbols :
        e.positions[<<u, s>>].quantity > 0 =>
            d.positions[<<u, s>>].quantity > 0 \/ Listed(d, s)

LEMMA OrderStepReferenced ==
    ASSUME NEW d \in Database, NEW e, NEW o, Settled(d), Referenced(d),
           OpensOrder(d, e, o) \/ DropsOrder(d, e, o) \/ FillsOrder(d, e, o),
           HoldsListed(d, e), e.stocks = d.stocks
    PROVE  Referenced(e)
<1> SUFFICES ASSUME NEW s \in Symbols, HasReferences(e, s)
             PROVE  Listed(d, s)
  BY DEF Referenced, Listed
<1>1. CASE \E p \in OrderIds : e.orders[p].status = "PENDING" /\ e.orders[p].symbol = s
  <2>1. PICK p \in OrderIds : e.orders[p].status = "PENDING" /\ e.orders[p].symbol = s
    BY <1>1
  <2>2. CASE e.orders[p] = d.orders[p]
    BY <2>1, <2>2 DEF Referenced, HasReferences
  <2>3. CASE e.orders[p] # d.orders[p]
    <3>1. p = o
      BY <2>3 DEF OpensOrder, DropsOrder, FillsOrder, OnlyOrder, Database
    <3>2. ~DropsOrder(d, e, o)
      <4>1. d.orders[o] \in Order \cup {NoOrder} 
        BY <3>1 DEF Database
      <4>2. QED
        BY <2>1, <3>1, <4>1 DEF DropsOrder, Database, Order, NoOrder
    <3>3. ~FillsOrder(d, e, o)
      BY <2>1, <3>1 DEF FillsOrder
    <3>4. QED
      BY <2>1, <3>1, <3>2, <3>3 DEF OpensOrder
  <2>4. QED
    BY <2>2, <2>3
<1>2. CASE \E u \in Users : e.positions[<<u, s>>].quantity > 0
  BY <1>2 DEF HoldsListed, Referenced, HasReferences
<1>3. CASE \E p \in OrderIds : \E i \in 1..Len(e.trades[p]) : e.trades[p][i].symbol = s
  <2>1. PICK p \in OrderIds : \E i \in 1..Len(e.trades[p]) : e.trades[p][i].symbol = s
    BY <1>3
  <2>2. CASE e.trades[p] = d.trades[p]
    BY <2>1, <2>2 DEF Referenced, HasReferences
  <2>3. CASE e.trades[p] # d.trades[p]
    <3>1. FillsOrder(d, e, o) /\ p = o
      BY <2>3 DEF OpensOrder, DropsOrder, FillsOrder, Database
    <3>2. PICK trade \in Trade :
              /\ Settles(trade, e.orders[o])
              /\ e.trades = [d.trades EXCEPT ![o] = Append(d.trades[o], trade)]
      BY <3>1 DEF FillsOrder
    <3>3. d.trades[o] = <<>>
      BY <3>1 DEF FillsOrder, Settled, NoOrder
    <3>4. e.trades[o] = <<trade>>
      BY <3>1, <3>2, <3>3 DEF Database
    <3>5. e.orders[o].symbol = s
      BY <2>1, <3>1, <3>2, <3>4 DEF Settles
    <3>6. CASE d.orders[o] = NoOrder
      BY <3>1, <3>5, <3>6 DEF FillsOrder, NoOrder
    <3>7. CASE d.orders[o].status = "PENDING"
      <4>1. d.orders[o].symbol = s
        <5>1. d.orders[o] \in Order
          BY <3>1, <3>7 DEF Database, NoOrder
        <5>2. QED
          BY <3>1, <3>5, <3>7, <5>1 DEF FillsOrder, NoOrder, Order
      <4>2. QED
        BY <3>1, <3>7, <4>1 DEF Referenced, HasReferences
    <3>8. QED
      BY <3>1, <3>6, <3>7 DEF FillsOrder
  <2>4. QED
    BY <2>2, <2>3
<1>4. QED
  BY <1>1, <1>2, <1>3 DEF HasReferences

LEMMA StockReferenced ==
    ASSUME NEW d \in Database, NEW op \in StockRequest, Referenced(d)
    PROVE  /\ Referenced(CreateStock(d, op))
           /\ CanDeleteStock(d, op) => Referenced(DeleteStock(d, op))
<1>1. op.symbol \in Symbols
  BY DEF StockRequest
<1>2. ASSUME NEW e, NEW s \in Symbols, e.orders = d.orders,
             e.positions = d.positions, e.trades = d.trades
      PROVE  HasReferences(e, s) = HasReferences(d, s)
  BY <1>2 DEF HasReferences
<1>3. ASSUME NEW e \in {CreateStock(d, op), DeleteStock(d, op)}
      PROVE  e.orders = d.orders /\ e.positions = d.positions /\ e.trades = d.trades
  BY DEF CreateStock, DeleteStock, Database
<1>4. ASSUME NEW s \in Symbols
      PROVE  /\ Listed(d, s) => Listed(CreateStock(d, op), s)
             /\ Listed(d, s) /\ s # op.symbol => Listed(DeleteStock(d, op), s)
  BY <1>1 DEF Listed, CreateStock, DeleteStock, Database
<1>5. Referenced(CreateStock(d, op))
  BY <1>2, <1>3, <1>4 DEF Referenced
<1>6. ASSUME CanDeleteStock(d, op)
      PROVE  Referenced(DeleteStock(d, op))
  BY <1>2, <1>3, <1>4, <1>6 DEF Referenced, CanDeleteStock
<1>7. QED
  BY <1>5, <1>6

\* One position changes: it only loses shares, or its stock is listed.
LEMMA OnePositionHolds ==
    ASSUME NEW d \in Database, NEW e, NEW u \in Users, NEW s \in Symbols,
           NEW position \in Position,
           position.quantity > 0 =>
               d.positions[<<u, s>>].quantity > 0 \/ Listed(d, s),
           e.positions = [d.positions EXCEPT ![<<u, s>>] = position]
    PROVE  HoldsListed(d, e)
<1> SUFFICES ASSUME NEW v \in Users, NEW t \in Symbols,
                    e.positions[<<v, t>>].quantity > 0
             PROVE  d.positions[<<v, t>>].quantity > 0 \/ Listed(d, t)
  BY DEF HoldsListed
<1>1. CASE <<v, t>> = <<u, s>>
  BY <1>1 DEF Database
<1>2. CASE <<v, t>> # <<u, s>>
  BY <1>2 DEF Database
<1>3. QED
  BY <1>1, <1>2

LEMMA CreateSellHolds ==
    ASSUME NEW d \in Database, NEW op \in CreateSellRequest
    PROVE  HoldsListed(d, CreateSell(d, op))
<1> DEFINE e == CreateSell(d, op)
           position == d.positions[<<op.user, op.symbol>>]
           moved == Moved(position, 0, op.quantity)
<1>1. op.user \in Users /\ op.symbol \in Symbols /\ op.quantity \in Nat
  BY OrderRulesAssumption DEF CreateSellRequest
<1>2. position \in Position
  BY <1>1 DEF Database
<1>3. moved \in Position /\ moved.quantity = position.quantity
  BY <1>1, <1>2 DEF Moved, Position
<1>4. e.positions = [d.positions EXCEPT ![<<op.user, op.symbol>>] = moved]
  BY CreateSellEffect
<1> HIDE DEF e, moved
<1>5. HoldsListed(d, e)
  BY <1>1, <1>3, <1>4, OnePositionHolds
<1>6. QED
  BY <1>5 DEF e

LEMMA CancelledHolds ==
    ASSUME NEW d \in Database, NEW op, op.order \in OrderIds,
           d.orders[op.order].status = "PENDING",
           NEW e, Cancelled(d, e, op)
    PROVE  HoldsListed(d, e)
<1> DEFINE order == d.orders[op.order]
           position == d.positions[<<order.user, order.symbol>>]
           released == ReleaseShares(position, order)
<1>1. order \in Order
  BY DEF Database, NoOrder
<1>2. order.user \in Users /\ order.symbol \in Symbols /\ order.quantity \in Nat
  BY <1>1, OrderRulesAssumption DEF Order
<1>3. position \in Position
  BY <1>2 DEF Database
<1>4. released \in Position /\ released.quantity = position.quantity
  BY <1>2, <1>3 DEF ReleaseShares, AtLeastZero, Position
<1>5. \/ e.positions = d.positions
      \/ e.positions = [d.positions EXCEPT ![<<order.user, order.symbol>>] = released]
  BY DEF Cancelled
<1> HIDE DEF order, released
<1>6. CASE e.positions = d.positions
  BY <1>6 DEF HoldsListed
<1>7. CASE e.positions = [d.positions EXCEPT ![<<order.user, order.symbol>>] = released]
  BY <1>2, <1>4, <1>7, OnePositionHolds
<1>8. QED
  BY <1>5, <1>6, <1>7

LEMMA FilledHolds ==
    ASSUME NEW d \in Database, NEW op \in ExecuteRequest,
           d.orders[op.order].status = "PENDING",
           NEW e, Filled(d, e, op), Referenced(d)
    PROVE  HoldsListed(d, e)
<1> DEFINE order == d.orders[op.order]
           position == d.positions[<<order.user, order.symbol>>]
           bought == Bought(position, order.quantity, op.price)
           sold == Sold(ReleaseShares(position, order), order.quantity)
<1>1. op.order \in OrderIds /\ order \in Order
  BY DEF Database, NoOrder, ExecuteRequest
<1>2. order.user \in Users /\ order.symbol \in Symbols /\ order.quantity \in Nat
  BY <1>1, OrderRulesAssumption DEF Order
<1>3. position \in Position
  BY <1>2 DEF Database
<1>4. Listed(d, order.symbol)
  BY <1>1, <1>2 DEF Referenced, HasReferences
<1>5. bought \in Position
  BY <1>1, <1>3, BoughtType DEF Order, ExecuteRequest
<1>6. sold \in Position
  BY <1>1, <1>2, <1>3, PositionTypes
<1>7. \/ e.positions = [d.positions EXCEPT ![<<order.user, order.symbol>>] = bought]
      \/ e.positions = [d.positions EXCEPT ![<<order.user, order.symbol>>] = sold]
  BY DEF Filled, FilledBuy, FilledSell
<1> HIDE DEF order, bought, sold
<1>8. QED
  BY <1>2, <1>4, <1>5, <1>6, <1>7, OnePositionHolds

LEMMA MarketHolds ==
    ASSUME NEW d \in Database, NEW op \in MarketRequest, Listed(d, op.symbol)
    PROVE  HoldsListed(d, MarketBuy(d, op)) /\ HoldsListed(d, MarketSell(d, op))
<1> DEFINE buy == MarketBuy(d, op)
           sell == MarketSell(d, op)
           position == d.positions[<<op.user, op.symbol>>]
           bought == Bought(position, op.quantity, op.price)
           sold == Sold(position, op.quantity)
<1>1. /\ op.user \in Users /\ op.symbol \in Symbols
      /\ op.quantity \in Nat /\ op.quantity \in Quantities /\ op.price \in Prices
  BY OrderRulesAssumption DEF MarketRequest
<1>2. position \in Position
  BY <1>1 DEF Database
<1>3. bought \in Position /\ sold \in Position
  BY <1>1, <1>2, BoughtType DEF Moved, Sold, NoPosition, Position
<1>4. /\ buy.positions = [d.positions EXCEPT ![<<op.user, op.symbol>>] = bought]
      /\ sell.positions = [d.positions EXCEPT ![<<op.user, op.symbol>>] = sold]
  BY MarketBuyEffect, MarketSellEffect
<1> HIDE DEF buy, sell, bought, sold
<1>5. HoldsListed(d, buy)
  BY <1>1, <1>3, <1>4, OnePositionHolds
<1>6. HoldsListed(d, sell)
  BY <1>1, <1>3, <1>4, OnePositionHolds
<1>7. QED
  BY <1>5, <1>6 DEF buy, sell

-----------------------------------------------------------------------------
(* The inductive invariant *)

\* LimitRespected and OneTradePerExecution follow from Settled; ReferencesListed
\* needs it too, because a trade refers to the stock of its order.
LedgerInvariant ==
    TypeOK /\ Settled(db) /\ Covered(db) /\ Referenced(db)

LEMMA InitialInvariant == Init => LedgerInvariant
<1> SUFFICES ASSUME Init PROVE LedgerInvariant
  OBVIOUS
<1>1. TypeOK
  BY InitialTypeOK DEF Init, TypeOK
<1>2. Settled(db)
  BY DEF Init, InitialDatabase, Settled, NoOrder
<1>3. Covered(db)
  BY DEF Init, InitialDatabase, Covered, NoPosition
<1>4. Referenced(db)
  <2>1. /\ \A o \in OrderIds : db.orders[o].status # "PENDING" /\ db.trades[o] = <<>>
        /\ \A u \in Users, s \in Symbols : db.positions[<<u, s>>].quantity = 0
    BY DEF Init, InitialDatabase, NoOrder, NoPosition
  <2>2. ASSUME NEW o \in OrderIds, NEW i \in 1..Len(db.trades[o])
        PROVE  FALSE
    BY <2>1, <2>2
  <2>3. ASSUME NEW s \in Symbols
        PROVE  ~HasReferences(db, s)
    <3>1. ASSUME NEW u \in Users
          PROVE  ~(db.positions[<<u, s>>].quantity > 0)
      <4>1. db.positions[<<u, s>>].quantity = 0
        BY <2>1, Zenon
      <4>2. QED
        BY <4>1
    <3>2. QED
      BY <2>1, <2>2, <3>1, Zenon DEF HasReferences
  <2>4. QED
    BY <2>3 DEF Referenced
<1>5. QED
  BY <1>1, <1>2, <1>3, <1>4 DEF LedgerInvariant

LEMMA InvariantStep == LedgerInvariant /\ [Next]_db => LedgerInvariant'
<1> SUFFICES ASSUME LedgerInvariant, [Next]_db
             PROVE  LedgerInvariant'
  OBVIOUS
<1>1. /\ db \in Database /\ Settled(db) /\ Covered(db) /\ Referenced(db)
  BY DEF LedgerInvariant, TypeOK
<1> SUFFICES db' \in Database /\ Settled(db') /\ Covered(db') /\ Referenced(db')
  BY DEF LedgerInvariant, TypeOK, Settled, Covered, Referenced
<1>2. CASE CreateBuyOrder
  <2>1. PICK op \in CreateBuyRequest : CanCreateBuy(db, op) /\ db' = CreateBuy(db, op)
    BY <1>2 DEF CreateBuyOrder
  <2>2. db' \in Database
    BY <1>1, <2>1, CreateBuyTypeOK
  <2>3. OpensOrder(db, db', op.order) /\ db'.positions = db.positions /\ db'.stocks = db.stocks
    BY <1>1, <2>1, CreateBuyOpens
  <2>4. Settled(db')
    BY <1>1, <2>3, OpensSettled
  <2>5. Covered(db') /\ HoldsListed(db, db')
    BY <1>1, <2>3 DEF Covered, HoldsListed
  <2>6. Referenced(db')
    BY <1>1, <2>3, <2>5, OrderStepReferenced
  <2>7. QED
    BY <2>2, <2>4, <2>5, <2>6
<1>3. CASE CreateSellOrder
  <2>1. PICK op \in CreateSellRequest : CanCreateSell(db, op) /\ db' = CreateSell(db, op)
    BY <1>3 DEF CreateSellOrder
  <2>2. db' \in Database
    BY <1>1, <2>1, CreateSellTypeOK
  <2>3. OpensOrder(db, db', op.order) /\ db'.stocks = db.stocks
    BY <1>1, <2>1, CreateSellOpens
  <2>4. Settled(db')
    BY <1>1, <2>3, OpensSettled
  <2>5. Covered(db') /\ HoldsListed(db, db')
    BY <1>1, <2>1, CreateSellCovered, CreateSellHolds
  <2>6. Referenced(db')
    BY <1>1, <2>3, <2>5, OrderStepReferenced
  <2>7. QED
    BY <2>2, <2>4, <2>5, <2>6
<1>4. ASSUME NEW op, op.order \in OrderIds, db.orders[op.order].status = "PENDING",
             Cancelled(db, db', op)
      PROVE  Settled(db') /\ Covered(db') /\ Referenced(db')
  <2>1. DropsOrder(db, db', op.order) /\ db'.stocks = db.stocks
    BY <1>1, <1>4, CancelledDrops
  <2>2. Settled(db')
    BY <1>1, <2>1, DropsSettled
  <2>3. Covered(db') /\ HoldsListed(db, db')
    BY <1>1, <1>4, CancelledCovered, CancelledHolds
  <2>4. QED
    BY <1>1, <2>1, <2>2, <2>3, OrderStepReferenced
<1>5. CASE Cancel
  <2>1. PICK op \in CancelRequest : CanCancel(db, op) /\ db' = CancelOrder(db, op)
    BY <1>5 DEF Cancel
  <2>2. db' \in Database /\ op.order \in OrderIds
    BY <1>1, <2>1, CancelTypeOK DEF CancelRequest
  <2>3. \/ db' = db
        \/ db.orders[op.order].status = "PENDING" /\ Cancelled(db, db', op)
    BY <1>1, <2>1, CancelEffect
  <2>4. QED
    BY <1>1, <1>4, <2>2, <2>3
<1>6. CASE Execute
  <2>1. PICK op \in ExecuteRequest : CanExecute(db, op) /\ db' = ExecuteOrder(db, op)
    BY <1>6 DEF Execute
  <2>2. db' \in Database /\ op.order \in OrderIds /\ db.orders[op.order].status = "PENDING"
    BY <1>1, <2>1, ExecuteTypeOK DEF ExecuteRequest, CanExecute
  <2>3. CASE Cancelled(db, db', op)
    BY <1>4, <2>2, <2>3
  <2>4. CASE Filled(db, db', op)
    <3>1. FillsOrder(db, db', op.order) /\ db'.stocks = db.stocks
      BY <1>1, <2>1, <2>4, FilledFills
    <3>2. Settled(db')
      BY <1>1, <3>1, FillsSettled
    <3>3. Covered(db') /\ HoldsListed(db, db')
      BY <1>1, <2>2, <2>4, FilledCovered, FilledHolds
    <3>4. Referenced(db')
      BY <1>1, <3>1, <3>3, OrderStepReferenced
    <3>5. QED
      BY <2>2, <3>2, <3>3, <3>4
  <2>5. QED
    BY <1>1, <2>1, <2>3, <2>4, ExecuteEffect
<1>7. CASE BuyAtMarket
  <2>1. PICK op \in MarketRequest : CanMarketBuy(db, op) /\ db' = MarketBuy(db, op)
    BY <1>7 DEF BuyAtMarket
  <2>2. db' \in Database
    BY <1>1, <2>1, MarketBuyTypeOK
  <2>3. FillsOrder(db, db', op.order) /\ db'.stocks = db.stocks
    BY <1>1, <2>1, MarketBuyFills
  <2>4. Settled(db')
    BY <1>1, <2>3, FillsSettled
  <2>5. Covered(db') /\ HoldsListed(db, db')
    BY <1>1, <2>1, MarketBuyCovered, MarketHolds DEF CanMarketBuy
  <2>6. Referenced(db')
    BY <1>1, <2>3, <2>5, OrderStepReferenced
  <2>7. QED
    BY <2>2, <2>4, <2>5, <2>6
<1>8. CASE SellAtMarket
  <2>1. PICK op \in MarketRequest : CanMarketSell(db, op) /\ db' = MarketSell(db, op)
    BY <1>8 DEF SellAtMarket
  <2>2. db' \in Database
    BY <1>1, <2>1, MarketSellTypeOK
  <2>3. FillsOrder(db, db', op.order) /\ db'.stocks = db.stocks
    BY <1>1, <2>1, MarketSellFills
  <2>4. Settled(db')
    BY <1>1, <2>3, FillsSettled
  <2>5. Covered(db') /\ HoldsListed(db, db')
    BY <1>1, <2>1, MarketSellCovered, MarketHolds DEF CanMarketSell
  <2>6. Referenced(db')
    BY <1>1, <2>3, <2>5, OrderStepReferenced
  <2>7. QED
    BY <2>2, <2>4, <2>5, <2>6
<1>9. CASE List \/ Delist
  <2>1. PICK op \in StockRequest : \/ db' = CreateStock(db, op)
                                   \/ CanDeleteStock(db, op) /\ db' = DeleteStock(db, op)
    BY <1>9 DEF List, Delist
  <2>2. db' \in Database /\ Referenced(db')
    BY <1>1, <2>1, StockTypeOK, StockReferenced
  <2>3. db'.orders = db.orders /\ db'.trades = db.trades /\ db'.positions = db.positions
    BY <1>1, <2>1 DEF CreateStock, DeleteStock, Database
  <2>4. Settled(db') /\ Covered(db')
    BY <1>1, <2>3 DEF Settled, Covered
  <2>5. QED
    BY <2>2, <2>4
<1>10. CASE UNCHANGED db
  BY <1>1, <1>10
<1>11. QED
  BY <1>2, <1>3, <1>5, <1>6, <1>7, <1>8, <1>9, <1>10 DEF Next

LEMMA Invariance == Spec => []LedgerInvariant
BY InitialInvariant, InvariantStep, PTL DEF Spec

-----------------------------------------------------------------------------
(* Theorems *)

\* The ledger never leaves its schema: no sequence of requests drives a
\* balance, a reservation or a position below zero, whatever the prices,
\* rates and number of users, symbols and orders.
THEOREM LedgerTypeOK == Spec => []TypeOK
<1>1. LedgerInvariant => TypeOK
  BY DEF LedgerInvariant
<1>2. QED
  BY <1>1, Invariance, PTL

\* No sequence of limit orders, market orders, cancellations and executions
\* reserves more shares of a position than it holds.
THEOREM LedgerSharesCovered == Spec => []SharesCovered
<1>1. LedgerInvariant => SharesCovered
  BY DEF LedgerInvariant, Covered, SharesCovered
<1>2. QED
  BY <1>1, Invariance, PTL

\* An order is executed by exactly one trade, which matches it: executeOrder
\* reads the status again before it settles an order.
THEOREM LedgerOneTrade == Spec => []OneTradePerExecution
<1>1. LedgerInvariant => OneTradePerExecution
  <2> SUFFICES ASSUME LedgerInvariant, NEW o \in OrderIds
               PROVE  LET order == db.orders[o] IN
                      IF order.status = "EXECUTED"
                      THEN /\ Len(db.trades[o]) = 1
                           /\ db.trades[o][1].user = order.user
                           /\ db.trades[o][1].symbol = order.symbol
                           /\ db.trades[o][1].side = order.side
                           /\ db.trades[o][1].quantity = order.quantity
                      ELSE db.trades[o] = <<>>
    BY DEF OneTradePerExecution
  <2>1. CASE db.orders[o].status = "EXECUTED"
    <3>1. PICK trade \in Trade :
              db.trades[o] = <<trade>> /\ Settles(trade, db.orders[o])
      BY <2>1 DEF LedgerInvariant, Settled
    <3>2. QED
      BY <2>1, <3>1 DEF Settles
  <2>2. CASE db.orders[o].status # "EXECUTED"
    BY <2>2 DEF LedgerInvariant, Settled
  <2>3. QED
    BY <2>1, <2>2
<1>2. QED
  BY <1>1, Invariance, PTL

\* No limit order is ever settled at a price worse than its limit.
THEOREM LedgerLimitRespected == Spec => []LimitRespected
<1>1. LedgerInvariant => LimitRespected
  <2> SUFFICES ASSUME LedgerInvariant, NEW o \in OrderIds,
                      NEW i \in 1..Len(db.trades[o]),
                      db.orders[o].type = "LIMIT"
               PROVE  IF db.orders[o].side = "BUY"
                      THEN db.trades[o][i].executionPrice <= db.orders[o].limitPrice
                      ELSE db.trades[o][i].executionPrice >= db.orders[o].limitPrice
    BY DEF LimitRespected
  <2>1. db.orders[o].status = "EXECUTED"
    BY DEF LedgerInvariant, Settled
  <2>2. PICK trade \in Trade :
            db.trades[o] = <<trade>> /\ Settles(trade, db.orders[o])
    BY <2>1 DEF LedgerInvariant, Settled
  <2>3. db.trades[o][i] = trade
    BY <2>2
  <2>4. QED
    BY <2>2, <2>3 DEF Settles, ShouldExecute
<1>2. QED
  BY <1>1, Invariance, PTL

\* deleteStock never removes a stock that an order, a position or a trade
\* refers to.
THEOREM LedgerReferencesListed == Spec => []ReferencesListed
<1>1. LedgerInvariant => ReferencesListed
  BY DEF LedgerInvariant, Referenced, ReferencesListed
<1>2. QED
  BY <1>1, Invariance, PTL

LEMMA RecordSteps ==
    ASSUME db \in Database, Next
    PROVE  \/ db'.orders = db.orders /\ db'.trades = db.trades
           \/ \E o \in OrderIds : \/ OpensOrder(db, db', o)
                                  \/ DropsOrder(db, db', o)
                                  \/ FillsOrder(db, db', o)
<1>1. CASE CreateBuyOrder
  BY <1>1, CreateBuyOpens DEF CreateBuyOrder, CreateBuyRequest
<1>2. CASE CreateSellOrder
  BY <1>2, CreateSellOpens DEF CreateSellOrder, CreateSellRequest
<1>3. CASE Cancel
  <2>1. PICK op \in CancelRequest : CanCancel(db, op) /\ db' = CancelOrder(db, op)
    BY <1>3 DEF Cancel
  <2>2. CASE db' = db
    BY <2>2
  <2>3. CASE db.orders[op.order].status = "PENDING" /\ Cancelled(db, db', op)
    BY <2>3, CancelledDrops DEF CancelRequest
  <2>4. QED
    BY <2>1, <2>2, <2>3, CancelEffect
<1>4. CASE Execute
  <2>1. PICK op \in ExecuteRequest : CanExecute(db, op) /\ db' = ExecuteOrder(db, op)
    BY <1>4 DEF Execute
  <2>2. op.order \in OrderIds /\ db.orders[op.order].status = "PENDING"
    BY <2>1 DEF ExecuteRequest, CanExecute
  <2>3. CASE Cancelled(db, db', op)
    BY <2>2, <2>3, CancelledDrops
  <2>4. CASE Filled(db, db', op)
    BY <2>1, <2>2, <2>4, FilledFills
  <2>5. QED
    BY <2>1, <2>3, <2>4, ExecuteEffect
<1>5. CASE BuyAtMarket
  BY <1>5, MarketBuyFills DEF BuyAtMarket, MarketRequest
<1>6. CASE SellAtMarket
  BY <1>6, MarketSellFills DEF SellAtMarket, MarketRequest
<1>7. CASE List \/ Delist
  BY <1>7 DEF List, Delist, CreateStock, DeleteStock, Database
<1>8. QED
  BY <1>1, <1>2, <1>3, <1>4, <1>5, <1>6, <1>7 DEF Next

\* An executed or cancelled order never changes again, and a pending one only
\* by being closed.
THEOREM LedgerClosedOrdersStay == Spec => ClosedOrdersStay
<1> DEFINE Stays(o) ==
      /\ db.orders[o].status \in {"EXECUTED", "CANCELLED"} =>
             db'.orders[o] = db.orders[o]
      /\ db.orders[o].status = "PENDING" =>
             \E st \in {"PENDING", "EXECUTED", "CANCELLED"} :
                 db'.orders[o] = [db.orders[o] EXCEPT !.status = st]
<1>1. ASSUME LedgerInvariant, Next, NEW p \in OrderIds
      PROVE  Stays(p)
  <2>1. db \in Database /\ Settled(db)
    BY <1>1 DEF LedgerInvariant, TypeOK
  <2>2. db.orders[p] \in Order \cup {NoOrder}
    BY <2>1 DEF Database
  <2>3. CASE db'.orders[p] = db.orders[p]
    <3>1. db.orders[p].status = "PENDING" =>
              db.orders[p] = [db.orders[p] EXCEPT !.status = "PENDING"]
      BY <2>2 DEF Order, NoOrder
    <3>2. QED
      BY <2>3, <3>1
  <2>4. CASE db'.orders[p] # db.orders[p]
    <3>1. PICK o \in OrderIds : \/ OpensOrder(db, db', o)
                                \/ DropsOrder(db, db', o)
                                \/ FillsOrder(db, db', o)
      BY <1>1, <2>1, <2>4, RecordSteps
    <3>2. o = p
      BY <2>1, <2>4, <3>1
      DEF OpensOrder, DropsOrder, FillsOrder, OnlyOrder, Database
    <3>3. CASE OpensOrder(db, db', p)
      BY <3>3 DEF OpensOrder, NoOrder
    <3>4. CASE DropsOrder(db, db', p)
      BY <2>1, <3>4 DEF DropsOrder, Database
    <3>5. CASE FillsOrder(db, db', p)
      BY <3>5 DEF FillsOrder, NoOrder
    <3>6. QED
      BY <3>1, <3>2, <3>3, <3>4, <3>5
  <2>5. QED
    BY <2>3, <2>4
<1>2. LedgerInvariant /\ [Next]_db => [\A o \in OrderIds : Stays(o)]_db
  BY <1>1
<1>3. QED
  BY <1>2, Invariance, PTL DEF Spec, ClosedOrdersStay
-----------------------------------------------------------------------------
(***************************************************************************)
(* Facts about SumFunctionOnSet and SumFunction of the module Functions:   *)
(* the sum over a finite set may be taken in any order, so it changes by   *)
(* what one of its terms changes.                                          *)
(*                                                                         *)
(* The proofs are by induction on finite sets, in the form of a minimal    *)
(* counterexample: the induction theorems of the library have an operator  *)
(* for a parameter, WFMin has none.                                        *)
(***************************************************************************)

\* A nonempty set of subsets of a finite set has a minimal one.
LEMMA MinimalSubset ==
    ASSUME NEW S, IsFiniteSet(S), NEW Bad \in SUBSET (SUBSET S), Bad # {}
    PROVE  \E T \in Bad : \A U \in Bad : U \subseteq T => U = T
<1>1. IsWellFoundedOn(StrictSubsetOrdering(S), FiniteSubsetsOf(S))
  BY FS_StrictSubsetOrderingWellFounded
<1>2. FiniteSubsetsOf(S) = SUBSET S
  BY FS_FiniteSubsetsOfFinite
<1>3. \E T \in Bad : \A U \in Bad : ~ (<<U, T>> \in StrictSubsetOrdering(S))
  BY <1>1, <1>2, WFMin
<1>4. QED
  BY <1>3 DEF StrictSubsetOrdering

-----------------------------------------------------------------------------
(* The recursion by which the sum is defined has one solution *)

Pick(S) == CHOOSE x \in S : TRUE

\* f[T] is the sum of w over T, for the subsets T of S.
Sums(w, f, S) ==
    f = [T \in SUBSET S |-> IF T = {} THEN 0 ELSE w[Pick(T)] + f[T \ {Pick(T)}]]

LEMMA SumDefinition ==
    \A w, S : SumFunctionOnSet(w, S) = (CHOOSE f : Sums(w, f, S))[S]
BY DEF Sums, Pick, SumFunctionOnSet, FoldFunctionOnSet, MapThenFoldSet

LEMMA SumsAgree ==
    ASSUME NEW S, IsFiniteSet(S), NEW T \in SUBSET S, NEW w, NEW f, NEW g,
           Sums(w, f, S), Sums(w, g, T)
    PROVE  f[T] = g[T]
<1> DEFINE Bad == {U \in SUBSET T : f[U] # g[U]}
<1>1. SUFFICES ASSUME Bad # {} PROVE FALSE
  OBVIOUS
<1>2. IsFiniteSet(T)
  BY FS_Subset
<1>3. PICK U \in Bad : \A V \in Bad : V \subseteq U => V = U
  <2>1. Bad \in SUBSET (SUBSET T)
    OBVIOUS
  <2> HIDE DEF Bad
  <2>2. QED
    BY <1>1, <1>2, <2>1, MinimalSubset
<1>4. U \subseteq T /\ U \subseteq S /\ f[U] # g[U]
  OBVIOUS
<1>5. CASE U = {}
  BY <1>4, <1>5 DEF Sums
<1>6. CASE U # {}
  <2>1. Pick(U) \in U
    BY <1>6 DEF Pick
  <2>2. f[U \ {Pick(U)}] = g[U \ {Pick(U)}]
    BY <1>3, <1>4, <2>1
  <2>3. f[U] = w[Pick(U)] + f[U \ {Pick(U)}]
    BY <1>4, <1>6 DEF Sums
  <2>4. g[U] = w[Pick(U)] + g[U \ {Pick(U)}]
    BY <1>4, <1>6 DEF Sums
  <2>5. QED
    BY <1>4, <2>2, <2>3, <2>4
<1>7. QED
  BY <1>5, <1>6

LEMMA SumsExist ==
    ASSUME NEW S, IsFiniteSet(S), NEW w
    PROVE  \E f : Sums(w, f, S)
<1> DEFINE Bad == {U \in SUBSET S : ~ \E f : Sums(w, f, U)}
<1>1. SUFFICES ASSUME Bad # {} PROVE FALSE
  OBVIOUS
<1>2. PICK U \in Bad : \A V \in Bad : V \subseteq U => V = U
  <2>1. Bad \in SUBSET (SUBSET S)
    OBVIOUS
  <2> HIDE DEF Bad
  <2>2. QED
    BY <1>1, <2>1, MinimalSubset
<1>3. U \subseteq S /\ ~ \E f : Sums(w, f, U)
  OBVIOUS
<1> DEFINE sums(V) == CHOOSE f : Sums(w, f, V)
<1>4. ASSUME NEW V \in SUBSET U, V # U
      PROVE  Sums(w, sums(V), V)
  <2>1. \E f : Sums(w, f, V)
    BY <1>2, <1>3, <1>4
  <2>2. QED
    BY <2>1
<1> HIDE DEF sums
<1> DEFINE f == [T \in SUBSET U |->
                   IF T = {} THEN 0
                   ELSE w[Pick(T)] + sums(T \ {Pick(T)})[T \ {Pick(T)}]]
<1>5. ASSUME NEW V \in SUBSET U, V # U
      PROVE  f[V] = sums(V)[V]
  <2>1. Sums(w, sums(V), V)
    BY <1>4, <1>5
  <2>2. CASE V = {}
    BY <2>1, <2>2 DEF Sums
  <2>3. CASE V # {}
    <3> DEFINE W == V \ {Pick(V)}
    <3>1. Pick(V) \in V
      BY <2>3 DEF Pick
    <3>2. W \in SUBSET V /\ W \in SUBSET U /\ W # U
      BY <3>1
    <3>3. f[V] = w[Pick(V)] + sums(W)[W]
      BY <2>3
    <3>4. sums(V)[V] = w[Pick(V)] + sums(V)[W]
      BY <2>1, <2>3 DEF Sums
    <3> HIDE DEF W
    <3>5. Sums(w, sums(W), W) /\ IsFiniteSet(V)
      BY <1>3, <1>4, <3>2, FS_Subset
    <3>6. sums(V)[W] = sums(W)[W]
      BY <2>1, <3>2, <3>5, SumsAgree
    <3>7. QED
      BY <3>3, <3>4, <3>6
  <2>4. QED
    BY <2>2, <2>3
<1>6. Sums(w, f, U)
  <2> DEFINE g == [T \in SUBSET U |->
                     IF T = {} THEN 0 ELSE w[Pick(T)] + f[T \ {Pick(T)}]]
  <2>1. ASSUME NEW T \in SUBSET U
        PROVE  f[T] = g[T]
    <3>1. CASE T = {}
      BY <3>1
    <3>2. CASE T # {}
      <4>1. Pick(T) \in T
        BY <3>2 DEF Pick
      <4>2. f[T \ {Pick(T)}] = sums(T \ {Pick(T)})[T \ {Pick(T)}]
        BY <1>5, <4>1
      <4>3. QED
        BY <3>2, <4>2
    <3>3. QED
      BY <3>1, <3>2
  <2>2. f = g
    BY <2>1
  <2>3. QED
    BY <2>2 DEF Sums
<1>7. QED
  BY <1>3, <1>6

\* The sum takes one element, the chosen one, after the other.
LEMMA SumOfChosen ==
    ASSUME NEW S, IsFiniteSet(S), NEW w
    PROVE  /\ SumFunctionOnSet(w, {}) = 0
           /\ S # {} => SumFunctionOnSet(w, S) =
                          w[Pick(S)] + SumFunctionOnSet(w, S \ {Pick(S)})
<1> DEFINE sums(V) == CHOOSE f : Sums(w, f, V)
<1>1. ASSUME NEW V, IsFiniteSet(V)
      PROVE  Sums(w, sums(V), V)
  BY <1>1, SumsExist
<1>2. ASSUME NEW V
      PROVE  SumFunctionOnSet(w, V) = sums(V)[V]
  BY SumDefinition
<1> HIDE DEF sums
<1>3. SumFunctionOnSet(w, {}) = 0
  BY <1>1, <1>2, FS_EmptySet DEF Sums
<1>4. ASSUME S # {}
      PROVE  SumFunctionOnSet(w, S) =
               w[Pick(S)] + SumFunctionOnSet(w, S \ {Pick(S)})
  <2> DEFINE T == S \ {Pick(S)}
  <2>1. IsFiniteSet(T) /\ T \in SUBSET S
    BY FS_RemoveElement
  <2> HIDE DEF T
  <2>2. sums(S)[T] = sums(T)[T]
    BY <1>1, <2>1, SumsAgree
  <2>3. sums(S)[S] = w[Pick(S)] + sums(S)[T]
    BY <1>1, <1>4 DEF Sums, T
  <2>4. QED
    BY <1>2, <2>2, <2>3 DEF T
<1>5. QED
  BY <1>3, <1>4

-----------------------------------------------------------------------------
(* Sums of integers over finite sets *)

LEMMA SumInt ==
    ASSUME NEW S, IsFiniteSet(S), NEW w, \A x \in S : w[x] \in Int
    PROVE  SumFunctionOnSet(w, S) \in Int
<1> DEFINE Bad == {U \in SUBSET S : SumFunctionOnSet(w, U) \notin Int}
<1>1. SUFFICES ASSUME Bad # {} PROVE FALSE
  OBVIOUS
<1>2. PICK U \in Bad : \A V \in Bad : V \subseteq U => V = U
  <2>1. Bad \in SUBSET (SUBSET S)
    OBVIOUS
  <2> HIDE DEF Bad
  <2>2. QED
    BY <1>1, <2>1, MinimalSubset
<1>3. U \in SUBSET S /\ SumFunctionOnSet(w, U) \notin Int /\ IsFiniteSet(U)
  BY FS_Subset
<1>4. U # {}
  BY <1>3, SumOfChosen
<1>5. Pick(U) \in U
  BY <1>4 DEF Pick
<1>6. SumFunctionOnSet(w, U \ {Pick(U)}) \in Int
  BY <1>2, <1>3, <1>5
<1>7. SumFunctionOnSet(w, U) = w[Pick(U)] + SumFunctionOnSet(w, U \ {Pick(U)})
  BY <1>3, <1>4, SumOfChosen
<1>8. w[Pick(U)] \in Int
  BY <1>3, <1>5
<1>9. QED
  BY <1>3, <1>6, <1>7, <1>8

\* Any element may be the one that is taken.
LEMMA SumRemove ==
    ASSUME NEW S, IsFiniteSet(S), NEW w, \A y \in S : w[y] \in Int, NEW x \in S
    PROVE  SumFunctionOnSet(w, S) = w[x] + SumFunctionOnSet(w, S \ {x})
<1> DEFINE Sum(U) == SumFunctionOnSet(w, U)
           Bad == {U \in SUBSET S : \E y \in U : Sum(U) # w[y] + Sum(U \ {y})}
<1> HIDE DEF Sum
<1>1. SUFFICES ASSUME Bad # {} PROVE FALSE
  BY DEF Sum
<1>2. PICK U \in Bad : \A V \in Bad : V \subseteq U => V = U
  <2>1. Bad \in SUBSET (SUBSET S)
    OBVIOUS
  <2> HIDE DEF Bad
  <2>2. QED
    BY <1>1, <2>1, MinimalSubset
<1>3. PICK y \in U : U \in SUBSET S /\ Sum(U) # w[y] + Sum(U \ {y})
  OBVIOUS
<1> DEFINE z == Pick(U)
<1>4. z \in U
  BY <1>3 DEF Pick
<1>5. IsFiniteSet(U) /\ Sum(U) = w[z] + Sum(U \ {z})
  <2>1. IsFiniteSet(U)
    BY <1>3, FS_Subset
  <2>2. QED
    BY <1>4, <2>1, SumOfChosen DEF Sum
<1>6. y # z
  BY <1>3, <1>5
<1> HIDE DEF z
<1> DEFINE rest == (U \ {y}) \ {z}
<1>7. rest = (U \ {z}) \ {y}
  OBVIOUS
<1>8. Sum(U \ {z}) = w[y] + Sum(rest)
  <2>1. U \ {z} \notin Bad /\ y \in U \ {z} /\ U \ {z} \in SUBSET S
    BY <1>2, <1>3, <1>4, <1>6
  <2>2. QED
    BY <1>7, <2>1
<1>9. Sum(U \ {y}) = w[z] + Sum(rest)
  <2>1. U \ {y} \notin Bad /\ z \in U \ {y} /\ U \ {y} \in SUBSET S
    BY <1>2, <1>3, <1>4, <1>6
  <2>2. QED
    BY <2>1
<1>10. w[y] \in Int /\ w[z] \in Int /\ Sum(rest) \in Int
  <2>1. rest \in SUBSET S
    BY <1>3
  <2>2. IsFiniteSet(rest) /\ \A u \in rest : w[u] \in Int
    BY <2>1, FS_Subset
  <2>3. Sum(rest) \in Int
    <3> HIDE DEF rest
    <3>1. QED
      BY <2>2, SumInt DEF Sum
  <2>4. QED
    BY <1>3, <1>4, <2>3
<1> HIDE DEF rest, Bad
<1>11. QED
  BY <1>3, <1>5, <1>8, <1>9, <1>10

\* A term that is zero adds nothing: T may leave it out.
LEMMA SumSupport ==
    ASSUME NEW S, IsFiniteSet(S), NEW w, NEW v, NEW T \in SUBSET S,
           \A x \in T : w[x] = v[x],
           \A x \in S : v[x] \in Int,
           \A x \in S \ T : v[x] = 0
    PROVE  SumFunctionOnSet(w, T) = SumFunctionOnSet(v, S)
<1> DEFINE Same(U) == SumFunctionOnSet(w, U \cap T) = SumFunctionOnSet(v, U)
           Bad == {U \in SUBSET S : ~Same(U)}
<1> HIDE DEF Same
<1>1. SUFFICES ASSUME Bad # {} PROVE FALSE
  <2>1. S \cap T = T
    OBVIOUS
  <2>3. QED
    BY <2>1 DEF Same
<1>2. PICK U \in Bad : \A V \in Bad : V \subseteq U => V = U
  <2>1. Bad \in SUBSET (SUBSET S)
    OBVIOUS
  <2> HIDE DEF Bad
  <2>2. QED
    BY <1>1, <2>1, MinimalSubset
<1>3. U \in SUBSET S /\ IsFiniteSet(U) /\ IsFiniteSet(U \cap T) /\ ~Same(U)
  <2>1. U \in SUBSET S /\ ~Same(U)
    OBVIOUS
  <2>2. IsFiniteSet(U) /\ U \cap T \in SUBSET U
    BY <2>1, FS_Subset
  <2>3. IsFiniteSet(U \cap T)
    BY <2>2, FS_Subset
  <2>4. QED
    BY <2>1, <2>2, <2>3
<1>4. PICK y \in U : TRUE
  <2>1. CASE U = {}
    <3>1. U \cap T = {}
      BY <2>1
    <3>2. Same(U)
      BY <1>3, <2>1, <3>1, SumOfChosen DEF Same
    <3>3. QED
      BY <1>3, <3>2
  <2>2. QED
    BY <2>1
<1> DEFINE V == U \ {y}
<1>5. /\ IsFiniteSet(V)
      /\ \A x \in U : v[x] \in Int
      /\ \A x \in V : v[x] \in Int
      /\ \A x \in U \cap T : w[x] \in Int
  BY <1>3, FS_RemoveElement
<1>6. Same(V)
  BY <1>2, <1>3, <1>4
<1>7. SumFunctionOnSet(v, U) = v[y] + SumFunctionOnSet(v, V)
  BY <1>3, <1>4, <1>5, SumRemove
<1>8. CASE y \in T
  <2>1. V \cap T = (U \cap T) \ {y} /\ y \in U \cap T /\ w[y] = v[y]
    BY <1>4, <1>8
  <2>2. SumFunctionOnSet(w, U \cap T) = w[y] + SumFunctionOnSet(w, (U \cap T) \ {y})
    BY <1>3, <1>5, <2>1, SumRemove
  <2>3. QED
    BY <1>3, <1>6, <1>7, <2>1, <2>2 DEF Same
<1>9. CASE y \notin T
  <2>1. V \cap T = U \cap T /\ v[y] = 0
    BY <1>3, <1>4, <1>9
  <2>2. SumFunctionOnSet(v, V) \in Int
    <3> HIDE DEF V
    <3>1. QED
      BY <1>5, SumInt
  <2>3. SumFunctionOnSet(v, U) = SumFunctionOnSet(v, V)
    BY <1>7, <2>1, <2>2
  <2>4. SumFunctionOnSet(w, U \cap T) = SumFunctionOnSet(v, V)
    BY <1>6, <2>1 DEF Same
  <2>5. QED
    BY <1>3, <2>3, <2>4 DEF Same
<1>10. QED
  BY <1>8, <1>9

LEMMA SumSame ==
    ASSUME NEW S, IsFiniteSet(S), NEW w, NEW v,
           \A x \in S : w[x] = v[x] /\ v[x] \in Int
    PROVE  SumFunctionOnSet(w, S) = SumFunctionOnSet(v, S)
BY SumSupport

\* When one term changes, the sum changes by as much.
LEMMA SumChange ==
    ASSUME NEW S, IsFiniteSet(S), NEW w \in [S -> Int], NEW v \in [S -> Int],
           NEW x \in S, \A y \in S \ {x} : w[y] = v[y]
    PROVE  SumFunctionOnSet(v, S) = SumFunctionOnSet(w, S) - w[x] + v[x]
<1>1. IsFiniteSet(S \ {x})
  BY FS_RemoveElement
<1>2. SumFunctionOnSet(w, S \ {x}) = SumFunctionOnSet(v, S \ {x})
  BY <1>1, SumSame
<1>3. SumFunctionOnSet(w, S \ {x}) \in Int
  BY <1>1, SumInt
<1>4. /\ SumFunctionOnSet(w, S) = w[x] + SumFunctionOnSet(w, S \ {x})
      /\ SumFunctionOnSet(v, S) = v[x] + SumFunctionOnSet(v, S \ {x})
  BY SumRemove
<1>5. QED
  BY <1>2, <1>3, <1>4

\* A sum of natural numbers is one, and no term exceeds it.
LEMMA SumNat ==
    ASSUME NEW S, IsFiniteSet(S), NEW w, \A x \in S : w[x] \in Nat
    PROVE  /\ SumFunctionOnSet(w, S) \in Nat
           /\ \A x \in S : w[x] <= SumFunctionOnSet(w, S)
<1> DEFINE Bad == {U \in SUBSET S : SumFunctionOnSet(w, U) \notin Nat}
<1>1. Bad = {}
  <2>1. SUFFICES ASSUME Bad # {} PROVE FALSE
    OBVIOUS
  <2>2. PICK U \in Bad : \A V \in Bad : V \subseteq U => V = U
    <3>1. Bad \in SUBSET (SUBSET S)
      OBVIOUS
    <3> HIDE DEF Bad
    <3>2. QED
      BY <2>1, <3>1, MinimalSubset
  <2>3. U \in SUBSET S /\ SumFunctionOnSet(w, U) \notin Nat /\ IsFiniteSet(U)
    BY FS_Subset
  <2>4. U # {}
    BY <2>3, SumOfChosen
  <2>5. Pick(U) \in U
    BY <2>4 DEF Pick
  <2>6. SumFunctionOnSet(w, U \ {Pick(U)}) \in Nat
    BY <2>2, <2>3, <2>5
  <2>7. SumFunctionOnSet(w, U) = w[Pick(U)] + SumFunctionOnSet(w, U \ {Pick(U)})
    BY <2>3, <2>4, SumOfChosen
  <2>8. w[Pick(U)] \in Nat
    BY <2>3, <2>5
  <2>9. QED
    BY <2>3, <2>6, <2>7, <2>8
<1>2. ASSUME NEW x \in S
      PROVE  w[x] <= SumFunctionOnSet(w, S)
  <2>1. SumFunctionOnSet(w, S \ {x}) \in Nat
    BY <1>1
  <2>2. SumFunctionOnSet(w, S) = w[x] + SumFunctionOnSet(w, S \ {x})
    BY SumRemove
  <2>3. QED
    BY <2>1, <2>2
<1>3. QED
  BY <1>1, <1>2

\* The terms may be renamed.
LEMMA SumImage ==
    ASSUME NEW S, IsFiniteSet(S), NEW f,
           \A x, y \in S : f[x] = f[y] => x = y,
           NEW w, \A x \in S : w[f[x]] \in Int
    PROVE  SumFunctionOnSet(w, {f[x] : x \in S}) =
             SumFunctionOnSet([x \in S |-> w[f[x]]], S)
<1> DEFINE Image(U) == {f[x] : x \in U}
           v == [x \in S |-> w[f[x]]]
           Same(U) == SumFunctionOnSet(w, Image(U)) = SumFunctionOnSet(v, U)
           Bad == {U \in SUBSET S : ~Same(U)}
<1>1. ASSUME NEW U \in SUBSET S
      PROVE  IsFiniteSet(U) /\ IsFiniteSet(Image(U))
  <2> DEFINE g == [x \in U |-> f[x]]
  <2>1. g \in Surjection(U, Image(U))
    BY DEF Surjection
  <2>2. IsFiniteSet(U)
    BY FS_Subset
  <2> HIDE DEF g
  <2>3. QED
    BY <2>1, <2>2, FS_Surjection
<1> HIDE DEF Same
<1>2. SUFFICES ASSUME Bad # {} PROVE FALSE
  BY DEF Same
<1>3. PICK U \in Bad : \A V \in Bad : V \subseteq U => V = U
  <2>1. Bad \in SUBSET (SUBSET S)
    OBVIOUS
  <2> HIDE DEF Bad
  <2>2. QED
    BY <1>2, <2>1, MinimalSubset
<1>4. U \in SUBSET S /\ ~Same(U)
  OBVIOUS
<1>5. PICK y \in U : TRUE
  <2>1. CASE U = {}
    <3>1. Image(U) = {}
      BY <2>1
    <3> HIDE DEF Image
    <3>2. Same(U)
      BY <1>1, <1>4, <2>1, <3>1, SumOfChosen DEF Same
    <3>3. QED
      BY <1>4, <3>2
  <2>2. QED
    BY <2>1
<1>6. Same(U \ {y})
  BY <1>3, <1>4, <1>5
<1>7. Image(U \ {y}) = Image(U) \ {f[y]} /\ f[y] \in Image(U)
  BY <1>4, <1>5
<1>8. /\ \A z \in Image(U) : w[z] \in Int
      /\ \A x \in U : v[x] \in Int
      /\ v[y] = w[f[y]]
  BY <1>4, <1>5
<1> HIDE DEF Image, v
<1>9. SumFunctionOnSet(w, Image(U)) = w[f[y]] + SumFunctionOnSet(w, Image(U) \ {f[y]})
  BY <1>1, <1>4, <1>7, <1>8, SumRemove
<1>10. SumFunctionOnSet(v, U) = v[y] + SumFunctionOnSet(v, U \ {y})
  BY <1>1, <1>4, <1>5, <1>8, SumRemove
<1>11. QED
  BY <1>4, <1>6, <1>7, <1>8, <1>9, <1>10 DEF Same

-----------------------------------------------------------------------------
(***************************************************************************)
(* The books: what is reserved is what the pending orders reserved, and    *)
(* what a user owns is what the executed orders left him with.  Each is a  *)
(* sum with one term for each order.                                       *)
(***************************************************************************)

\* The share of order o in the reserved balance of u, in the shares reserved
\* in position h, in the shares of h and in the money of u.
ReservedFor(d, u, o) ==
    LET order == d.orders[o]
    IN  IF order.status = "PENDING" /\ order.user = u /\ order.side = "BUY"
        THEN order.reservedAmount ELSE 0

SharesReservedFor(d, h, o) ==
    LET order == d.orders[o]
    IN  IF order.status = "PENDING" /\ <<order.user, order.symbol>> = h /\ order.side = "SELL"
        THEN order.quantity ELSE 0

SharesFrom(d, h, o) ==
    LET order == d.orders[o]
    IN  IF order.status = "EXECUTED" /\ <<order.user, order.symbol>> = h
        THEN IF order.side = "BUY" THEN order.quantity ELSE -order.quantity
        ELSE 0

CashFrom(d, u, o) ==
    LET order == d.orders[o]
    IN  IF order.status = "EXECUTED" /\ order.user = u
        THEN IF order.side = "BUY" THEN -d.trades[o][1].netAmount
                                   ELSE d.trades[o][1].netAmount
        ELSE 0

Reserved(d, u) == SumFunctionOnSet([o \in OrderIds |-> ReservedFor(d, u, o)], OrderIds)

SharesReserved(d, h) ==
    SumFunctionOnSet([o \in OrderIds |-> SharesReservedFor(d, h, o)], OrderIds)

SharesHeld(d, h) == SumFunctionOnSet([o \in OrderIds |-> SharesFrom(d, h, o)], OrderIds)

CashEarned(d, u) == SumFunctionOnSet([o \in OrderIds |-> CashFrom(d, u, o)], OrderIds)

Books(d) ==
    /\ \A u \in Users : d.users[u].reservedBalance = Reserved(d, u)
    /\ \A h \in Users \X Symbols : d.positions[h].reservedQuantity = SharesReserved(d, h)
    /\ \A h \in Users \X Symbols : d.positions[h].quantity = SharesHeld(d, h)
    /\ FxRates = {InClp} =>
         \A u \in Users : Money(d, u) = InitialBalance + CashEarned(d, u)

LEMMA OrderIdsFinite == IsFiniteSet(OrderIds)
BY FS_Interval, OrderRulesAssumption DEF OrderIds

LEMMA TermTypes ==
    ASSUME NEW d \in Database, Settled(d), NEW o \in OrderIds
    PROVE  /\ \A u \in Users : ReservedFor(d, u, o) \in Nat /\ CashFrom(d, u, o) \in Int
           /\ \A h \in Users \X Symbols :
                  SharesReservedFor(d, h, o) \in Nat /\ SharesFrom(d, h, o) \in Int
<1>1. d.orders[o] \in Order \cup {NoOrder}
  BY DEF Database
<1>2. CASE d.orders[o] = NoOrder
  BY <1>2 DEF NoOrder, ReservedFor, CashFrom, SharesReservedFor, SharesFrom
<1>3. CASE d.orders[o] \in Order
  <2>1. d.orders[o].reservedAmount \in Nat /\ d.orders[o].quantity \in Nat
    BY <1>3, OrderRulesAssumption DEF Order
  <2>2. d.orders[o].status = "EXECUTED" => d.trades[o][1].netAmount \in Nat
    BY DEF Settled, Trade
  <2>3. QED
    BY <2>1, <2>2 DEF ReservedFor, CashFrom, SharesReservedFor, SharesFrom
<1>4. QED
  BY <1>1, <1>2, <1>3

LEMMA SumTypes ==
    ASSUME NEW d \in Database, Settled(d)
    PROVE  /\ \A u \in Users :
                  /\ Reserved(d, u) \in Nat /\ CashEarned(d, u) \in Int
                  /\ \A o \in OrderIds : ReservedFor(d, u, o) <= Reserved(d, u)
           /\ \A h \in Users \X Symbols :
                  /\ SharesReserved(d, h) \in Nat /\ SharesHeld(d, h) \in Int
                  /\ \A o \in OrderIds : SharesReservedFor(d, h, o) <= SharesReserved(d, h)
<1>1. ASSUME NEW u \in Users
      PROVE  /\ Reserved(d, u) \in Nat
             /\ \A o \in OrderIds : ReservedFor(d, u, o) <= Reserved(d, u)
  <2> DEFINE w == [o \in OrderIds |-> ReservedFor(d, u, o)]
  <2>1. \A o \in OrderIds : w[o] \in Nat
    BY TermTypes
  <2>2. /\ SumFunctionOnSet(w, OrderIds) \in Nat
        /\ \A o \in OrderIds : w[o] <= SumFunctionOnSet(w, OrderIds)
    <3> HIDE DEF w
    <3>1. QED
      BY <2>1, OrderIdsFinite, SumNat
  <2>3. QED
    BY <2>2 DEF Reserved
<1>2. ASSUME NEW u \in Users
      PROVE  CashEarned(d, u) \in Int
  <2> DEFINE w == [o \in OrderIds |-> CashFrom(d, u, o)]
  <2>1. \A o \in OrderIds : w[o] \in Int
    BY TermTypes
  <2>2. SumFunctionOnSet(w, OrderIds) \in Int
    <3> HIDE DEF w
    <3>1. QED
      BY <2>1, OrderIdsFinite, SumInt
  <2>3. QED
    BY <2>2 DEF CashEarned
<1>3. ASSUME NEW h \in Users \X Symbols
      PROVE  /\ SharesReserved(d, h) \in Nat
             /\ \A o \in OrderIds : SharesReservedFor(d, h, o) <= SharesReserved(d, h)
  <2> DEFINE w == [o \in OrderIds |-> SharesReservedFor(d, h, o)]
  <2>1. \A o \in OrderIds : w[o] \in Nat
    BY TermTypes
  <2>2. /\ SumFunctionOnSet(w, OrderIds) \in Nat
        /\ \A o \in OrderIds : w[o] <= SumFunctionOnSet(w, OrderIds)
    <3> HIDE DEF w
    <3>1. QED
      BY <2>1, OrderIdsFinite, SumNat
  <2>3. QED
    BY <2>2 DEF SharesReserved
<1>4. ASSUME NEW h \in Users \X Symbols
      PROVE  SharesHeld(d, h) \in Int
  <2> DEFINE w == [o \in OrderIds |-> SharesFrom(d, h, o)]
  <2>1. \A o \in OrderIds : w[o] \in Int
    BY TermTypes
  <2>2. SumFunctionOnSet(w, OrderIds) \in Int
    <3> HIDE DEF w
    <3>1. QED
      BY <2>1, OrderIdsFinite, SumInt
  <2>3. QED
    BY <2>2 DEF SharesHeld
<1>5. QED
  BY <1>1, <1>2, <1>3, <1>4

\* Only order p changes.
OnlyChanged(d, e, p) ==
    \A o \in OrderIds \ {p} : e.orders[o] = d.orders[o] /\ e.trades[o] = d.trades[o]

LEMMA SumsMove ==
    ASSUME NEW d \in Database, NEW e \in Database, Settled(d), Settled(e),
           NEW p \in OrderIds, OnlyChanged(d, e, p)
    PROVE  /\ \A u \in Users :
                /\ Reserved(e, u) = Reserved(d, u) - ReservedFor(d, u, p) + ReservedFor(e, u, p)
                /\ CashEarned(e, u) = CashEarned(d, u) - CashFrom(d, u, p) + CashFrom(e, u, p)
           /\ \A h \in Users \X Symbols :
                /\ SharesReserved(e, h) = SharesReserved(d, h)
                     - SharesReservedFor(d, h, p) + SharesReservedFor(e, h, p)
                /\ SharesHeld(e, h) = SharesHeld(d, h) - SharesFrom(d, h, p) + SharesFrom(e, h, p)
<1>1. ASSUME NEW u \in Users
      PROVE  Reserved(e, u) = Reserved(d, u) - ReservedFor(d, u, p) + ReservedFor(e, u, p)
  <2> DEFINE w == [o \in OrderIds |-> ReservedFor(d, u, o)]
             v == [o \in OrderIds |-> ReservedFor(e, u, o)]
  <2>1. /\ w \in [OrderIds -> Int] /\ v \in [OrderIds -> Int]
        /\ \A o \in OrderIds \ {p} : w[o] = v[o]
    BY TermTypes DEF OnlyChanged, ReservedFor
  <2>2. SumFunctionOnSet(v, OrderIds) = SumFunctionOnSet(w, OrderIds) - w[p] + v[p]
    <3> HIDE DEF w, v
    <3>1. QED
      BY <2>1, OrderIdsFinite, SumChange
  <2>3. QED
    BY <2>2 DEF Reserved
<1>2. ASSUME NEW u \in Users
      PROVE  CashEarned(e, u) = CashEarned(d, u) - CashFrom(d, u, p) + CashFrom(e, u, p)
  <2> DEFINE w == [o \in OrderIds |-> CashFrom(d, u, o)]
             v == [o \in OrderIds |-> CashFrom(e, u, o)]
  <2>1. /\ w \in [OrderIds -> Int] /\ v \in [OrderIds -> Int]
        /\ \A o \in OrderIds \ {p} : w[o] = v[o]
    BY TermTypes DEF OnlyChanged, CashFrom
  <2>2. SumFunctionOnSet(v, OrderIds) = SumFunctionOnSet(w, OrderIds) - w[p] + v[p]
    <3> HIDE DEF w, v
    <3>1. QED
      BY <2>1, OrderIdsFinite, SumChange
  <2>3. QED
    BY <2>2 DEF CashEarned
<1>3. ASSUME NEW h \in Users \X Symbols
      PROVE  SharesReserved(e, h) = SharesReserved(d, h)
               - SharesReservedFor(d, h, p) + SharesReservedFor(e, h, p)
  <2> DEFINE w == [o \in OrderIds |-> SharesReservedFor(d, h, o)]
             v == [o \in OrderIds |-> SharesReservedFor(e, h, o)]
  <2>1. /\ w \in [OrderIds -> Int] /\ v \in [OrderIds -> Int]
        /\ \A o \in OrderIds \ {p} : w[o] = v[o]
    BY TermTypes DEF OnlyChanged, SharesReservedFor
  <2>2. SumFunctionOnSet(v, OrderIds) = SumFunctionOnSet(w, OrderIds) - w[p] + v[p]
    <3> HIDE DEF w, v
    <3>1. QED
      BY <2>1, OrderIdsFinite, SumChange
  <2>3. QED
    BY <2>2 DEF SharesReserved
<1>4. ASSUME NEW h \in Users \X Symbols
      PROVE  SharesHeld(e, h) = SharesHeld(d, h) - SharesFrom(d, h, p) + SharesFrom(e, h, p)
  <2> DEFINE w == [o \in OrderIds |-> SharesFrom(d, h, o)]
             v == [o \in OrderIds |-> SharesFrom(e, h, o)]
  <2>1. /\ w \in [OrderIds -> Int] /\ v \in [OrderIds -> Int]
        /\ \A o \in OrderIds \ {p} : w[o] = v[o]
    BY TermTypes DEF OnlyChanged, SharesFrom
  <2>2. SumFunctionOnSet(v, OrderIds) = SumFunctionOnSet(w, OrderIds) - w[p] + v[p]
    <3> HIDE DEF w, v
    <3>1. QED
      BY <2>1, OrderIdsFinite, SumChange
  <2>3. QED
    BY <2>2 DEF SharesHeld
<1>5. QED
  BY <1>1, <1>2, <1>3, <1>4

\* What order p changes in the accounts is what its terms change in the books.
Booked(d, e, p) ==
    /\ \A u \in Users : e.users[u].reservedBalance =
           d.users[u].reservedBalance - ReservedFor(d, u, p) + ReservedFor(e, u, p)
    /\ \A h \in Users \X Symbols :
           /\ e.positions[h].reservedQuantity = d.positions[h].reservedQuantity
                - SharesReservedFor(d, h, p) + SharesReservedFor(e, h, p)
           /\ e.positions[h].quantity =
                d.positions[h].quantity - SharesFrom(d, h, p) + SharesFrom(e, h, p)
    /\ FxRates = {InClp} =>
         \A u \in Users : Money(e, u) = Money(d, u) - CashFrom(d, u, p) + CashFrom(e, u, p)

LEMMA BooksKept ==
    ASSUME NEW d \in Database, NEW e \in Database, Settled(d), Settled(e), Books(d),
           NEW p \in OrderIds, OnlyChanged(d, e, p), Booked(d, e, p)
    PROVE  Books(e)
<1>1. ASSUME NEW u \in Users
      PROVE  e.users[u].reservedBalance = Reserved(e, u)
  <2>1. Reserved(e, u) = Reserved(d, u) - ReservedFor(d, u, p) + ReservedFor(e, u, p)
    BY SumsMove
  <2>2. QED
    BY <2>1 DEF Books, Booked
<1>2. ASSUME NEW h \in Users \X Symbols
      PROVE  /\ e.positions[h].reservedQuantity = SharesReserved(e, h)
             /\ e.positions[h].quantity = SharesHeld(e, h)
  <2>1. /\ SharesReserved(e, h) = SharesReserved(d, h)
             - SharesReservedFor(d, h, p) + SharesReservedFor(e, h, p)
        /\ SharesHeld(e, h) = SharesHeld(d, h) - SharesFrom(d, h, p) + SharesFrom(e, h, p)
    BY SumsMove
  <2>2. QED
    BY <2>1 DEF Books, Booked
<1>3. ASSUME FxRates = {InClp}, NEW u \in Users
      PROVE  Money(e, u) = InitialBalance + CashEarned(e, u)
  <2>1. Money(e, u) = Money(d, u) - CashFrom(d, u, p) + CashFrom(e, u, p)
    BY <1>3 DEF Booked
  <2>2. Money(d, u) = InitialBalance + CashEarned(d, u)
    BY <1>3 DEF Books
  <2>3. CashEarned(e, u) = CashEarned(d, u) - CashFrom(d, u, p) + CashFrom(e, u, p)
    BY SumsMove
  <2>4. /\ CashEarned(d, u) \in Int /\ CashFrom(d, u, p) \in Int /\ CashFrom(e, u, p) \in Int
        /\ InitialBalance \in Int
    BY SumTypes, TermTypes, OrderRulesAssumption
  <2>5. QED
    BY <2>1, <2>2, <2>3, <2>4
<1>4. QED
  BY <1>1, <1>2, <1>3 DEF Books

\* Only user v and his position in s change.
Touches(d, e, v, s) ==
    /\ \A u \in Users \ {v} : e.users[u] = d.users[u]
    /\ \A h \in (Users \X Symbols) \ {<<v, s>>} : e.positions[h] = d.positions[h]

\* The order is absent or one of v on s.
OrderOf(order, v, s) == order = NoOrder \/ (order.user = v /\ order.symbol = s)

\* Booked, for the user and the position of the order alone.
BookedFor(d, e, p, v, s) ==
    LET h == <<v, s>> IN
    /\ e.users[v].reservedBalance =
           d.users[v].reservedBalance - ReservedFor(d, v, p) + ReservedFor(e, v, p)
    /\ e.positions[h].reservedQuantity = d.positions[h].reservedQuantity
           - SharesReservedFor(d, h, p) + SharesReservedFor(e, h, p)
    /\ e.positions[h].quantity =
           d.positions[h].quantity - SharesFrom(d, h, p) + SharesFrom(e, h, p)
    /\ FxRates = {InClp} => Money(e, v) = Money(d, v) - CashFrom(d, v, p) + CashFrom(e, v, p)

LEMMA OneAccountBooked ==
    ASSUME NEW d \in Database, NEW e \in Database, NEW p \in OrderIds,
           NEW v \in Users, NEW s \in Symbols, Touches(d, e, v, s),
           OrderOf(d.orders[p], v, s), OrderOf(e.orders[p], v, s),
           BookedFor(d, e, p, v, s)
    PROVE  Booked(d, e, p)
<1>1. ASSUME NEW u \in Users
      PROVE  /\ e.users[u].reservedBalance =
                  d.users[u].reservedBalance - ReservedFor(d, u, p) + ReservedFor(e, u, p)
             /\ FxRates = {InClp} =>
                  Money(e, u) = Money(d, u) - CashFrom(d, u, p) + CashFrom(e, u, p)
  <2>1. CASE u = v
    BY <2>1 DEF BookedFor
  <2>2. CASE u # v
    <3>1. /\ ReservedFor(d, u, p) = 0 /\ ReservedFor(e, u, p) = 0
          /\ CashFrom(d, u, p) = 0 /\ CashFrom(e, u, p) = 0
      BY <2>2 DEF OrderOf, NoOrder, ReservedFor, CashFrom
    <3>2. e.users[u] = d.users[u]
      BY <2>2 DEF Touches
    <3>3. d.users[u].reservedBalance \in Int /\ Money(d, u) \in Int
      BY DEF Database, User, Money
    <3>4. Money(e, u) = Money(d, u)
      BY <3>2 DEF Money
    <3>5. QED
      BY <3>1, <3>2, <3>3, <3>4
  <2>3. QED
    BY <2>1, <2>2
<1>2. ASSUME NEW h \in Users \X Symbols
      PROVE  /\ e.positions[h].reservedQuantity = d.positions[h].reservedQuantity
                  - SharesReservedFor(d, h, p) + SharesReservedFor(e, h, p)
             /\ e.positions[h].quantity =
                  d.positions[h].quantity - SharesFrom(d, h, p) + SharesFrom(e, h, p)
  <2>1. CASE h = <<v, s>>
    BY <2>1 DEF BookedFor
  <2>2. CASE h # <<v, s>>
    <3>1. /\ SharesReservedFor(d, h, p) = 0 /\ SharesReservedFor(e, h, p) = 0
          /\ SharesFrom(d, h, p) = 0 /\ SharesFrom(e, h, p) = 0
      BY <2>2 DEF OrderOf, NoOrder, SharesReservedFor, SharesFrom
    <3>2. e.positions[h] = d.positions[h]
      BY <2>2 DEF Touches
    <3>3. d.positions[h].reservedQuantity \in Int /\ d.positions[h].quantity \in Int
      BY DEF Database, Position
    <3>4. QED
      BY <3>1, <3>2, <3>3
  <2>3. QED
    BY <2>1, <2>2
<1>3. QED
  BY <1>1, <1>2 DEF Booked

\* The terms of an order that is absent, pending or cancelled, and executed.
LEMMA AbsentTerms ==
    ASSUME NEW d, NEW p, NEW v, NEW h,
           d.orders[p].status \notin {"PENDING", "EXECUTED"}
    PROVE  /\ ReservedFor(d, v, p) = 0 /\ CashFrom(d, v, p) = 0
           /\ SharesReservedFor(d, h, p) = 0 /\ SharesFrom(d, h, p) = 0
BY DEF ReservedFor, CashFrom, SharesReservedFor, SharesFrom

LEMMA PendingTerms ==
    ASSUME NEW d, NEW p, NEW v, NEW s, d.orders[p].status = "PENDING",
           d.orders[p].user = v, d.orders[p].symbol = s
    PROVE  /\ ReservedFor(d, v, p) =
                IF d.orders[p].side = "BUY" THEN d.orders[p].reservedAmount ELSE 0
           /\ SharesReservedFor(d, <<v, s>>, p) =
                IF d.orders[p].side = "SELL" THEN d.orders[p].quantity ELSE 0
           /\ CashFrom(d, v, p) = 0 /\ SharesFrom(d, <<v, s>>, p) = 0
BY DEF ReservedFor, CashFrom, SharesReservedFor, SharesFrom

LEMMA ExecutedTerms ==
    ASSUME NEW d, NEW p, NEW v, NEW s, d.orders[p].status = "EXECUTED",
           d.orders[p].user = v, d.orders[p].symbol = s
    PROVE  /\ ReservedFor(d, v, p) = 0 /\ SharesReservedFor(d, <<v, s>>, p) = 0
           /\ CashFrom(d, v, p) = IF d.orders[p].side = "BUY"
                                  THEN -d.trades[p][1].netAmount
                                  ELSE d.trades[p][1].netAmount
           /\ SharesFrom(d, <<v, s>>, p) = IF d.orders[p].side = "BUY"
                                           THEN d.orders[p].quantity
                                           ELSE -d.orders[p].quantity
BY DEF ReservedFor, CashFrom, SharesReservedFor, SharesFrom

LEMMA CreateBuyBooked ==
    ASSUME NEW d \in Database, NEW op \in CreateBuyRequest, CanCreateBuy(d, op)
    PROVE  Booked(d, CreateBuy(d, op), op.order) /\ OnlyChanged(d, CreateBuy(d, op), op.order)
<1> DEFINE e == CreateBuy(d, op)
           amount == Reservation(op)
           order == NewOrder(op, "BUY", "LIMIT", op.limitPrice, "PENDING", amount)
           h == <<op.user, op.symbol>>
           user == d.users[op.user]
<1>1. /\ e = [d EXCEPT !.users = e.users, !.orders = e.orders]
      /\ e.users = [d.users EXCEPT ![op.user] = Adjusted(user, -amount, amount)]
      /\ e.orders = [d.orders EXCEPT ![op.order] = order]
  BY CreateBuyEffect
<1>2. /\ op.order \in OrderIds /\ op.user \in Users /\ op.symbol \in Symbols
      /\ h \in Users \X Symbols
      /\ d.orders[op.order] = NoOrder /\ amount \in Nat
  BY ReservationNat DEF CreateBuyRequest, CanCreateBuy
<1>3. /\ order.status = "PENDING" /\ order.side = "BUY" /\ order.user = op.user
      /\ order.symbol = op.symbol /\ order.reservedAmount = amount
  BY DEF NewOrder
<1>4. e \in Database
  BY CreateBuyTypeOK
<1> HIDE DEF e, amount, order, h, user
<1>5. /\ e.positions = d.positions /\ e.trades = d.trades /\ e.orders[op.order] = order
      /\ e.users[op.user] = Adjusted(user, -amount, amount)
      /\ \A u \in Users \ {op.user} : e.users[u] = d.users[u]
  BY <1>1, <1>2 DEF Database
<1>6. /\ ReservedFor(d, op.user, op.order) = 0 /\ CashFrom(d, op.user, op.order) = 0
      /\ SharesReservedFor(d, h, op.order) = 0 /\ SharesFrom(d, h, op.order) = 0
  BY <1>2, AbsentTerms DEF NoOrder
<1>7. /\ ReservedFor(e, op.user, op.order) = amount /\ CashFrom(e, op.user, op.order) = 0
      /\ SharesReservedFor(e, h, op.order) = 0 /\ SharesFrom(e, h, op.order) = 0
  BY <1>3, <1>5, PendingTerms DEF h
<1>8. /\ d.positions[h].reservedQuantity \in Int /\ d.positions[h].quantity \in Int
      /\ user.reservedBalance \in Int /\ user.availableBalance \in Int
  BY <1>2 DEF Database, Position, User, user
<1>9. /\ e.users[op.user].reservedBalance = user.reservedBalance + amount
      /\ e.users[op.user].availableBalance = user.availableBalance - amount
  BY <1>2, <1>5, <1>8 DEF Adjusted
<1>10. Money(e, op.user) = Money(d, op.user) /\ Money(d, op.user) \in Int
  BY <1>2, <1>8, <1>9 DEF Money, user
<1>11. BookedFor(d, e, op.order, op.user, op.symbol)
  BY <1>2, <1>5, <1>6, <1>7, <1>8, <1>9, <1>10 DEF BookedFor, h, user
<1>12. Touches(d, e, op.user, op.symbol)
  BY <1>5 DEF Touches
<1>13. OrderOf(d.orders[op.order], op.user, op.symbol) /\ OrderOf(e.orders[op.order], op.user, op.symbol)
  BY <1>2, <1>3, <1>5 DEF OrderOf
<1>14. Booked(d, e, op.order)
  BY <1>2, <1>4, <1>11, <1>12, <1>13, OneAccountBooked
<1>15. OnlyChanged(d, e, op.order)
  BY <1>1, <1>5 DEF OnlyChanged, Database
<1>16. QED
  BY <1>14, <1>15 DEF e

LEMMA CreateSellBooked ==
    ASSUME NEW d \in Database, NEW op \in CreateSellRequest, CanCreateSell(d, op)
    PROVE  Booked(d, CreateSell(d, op), op.order) /\ OnlyChanged(d, CreateSell(d, op), op.order)
<1> DEFINE e == CreateSell(d, op)
           order == NewOrder(op, "SELL", "LIMIT", op.limitPrice, "PENDING", 0)
           h == <<op.user, op.symbol>>
           position == d.positions[h]
<1>1. /\ e = [d EXCEPT !.positions = e.positions, !.orders = e.orders]
      /\ e.positions = [d.positions EXCEPT ![h] = Moved(position, 0, op.quantity)]
      /\ e.orders = [d.orders EXCEPT ![op.order] = order]
  BY CreateSellEffect
<1>2. /\ op.order \in OrderIds /\ op.user \in Users /\ op.symbol \in Symbols
      /\ h \in Users \X Symbols
      /\ d.orders[op.order] = NoOrder /\ op.quantity \in Nat
  BY OrderRulesAssumption DEF CreateSellRequest, CanCreateSell
<1>3. /\ order.status = "PENDING" /\ order.side = "SELL" /\ order.user = op.user
      /\ order.symbol = op.symbol /\ order.quantity = op.quantity
  BY DEF NewOrder
<1>4. e \in Database
  BY CreateSellTypeOK
<1> HIDE DEF e, order, h, position
<1>5. /\ e.users = d.users /\ e.trades = d.trades /\ e.orders[op.order] = order
      /\ e.positions[h] = Moved(position, 0, op.quantity)
      /\ \A k \in (Users \X Symbols) \ {h} : e.positions[k] = d.positions[k]
  BY <1>1, <1>2 DEF Database
<1>6. /\ ReservedFor(d, op.user, op.order) = 0 /\ CashFrom(d, op.user, op.order) = 0
      /\ SharesReservedFor(d, h, op.order) = 0 /\ SharesFrom(d, h, op.order) = 0
  BY <1>2, AbsentTerms DEF NoOrder
<1>7. /\ ReservedFor(e, op.user, op.order) = 0 /\ CashFrom(e, op.user, op.order) = 0
      /\ SharesReservedFor(e, h, op.order) = op.quantity /\ SharesFrom(e, h, op.order) = 0
  BY <1>3, <1>5, PendingTerms DEF h
<1>8. position.reservedQuantity \in Int /\ position.quantity \in Int
  BY <1>2 DEF Database, Position, position
<1>9. /\ e.positions[h].reservedQuantity = position.reservedQuantity + op.quantity
      /\ e.positions[h].quantity = position.quantity
  BY <1>2, <1>5, <1>8 DEF Moved
<1>10. /\ d.users[op.user].reservedBalance \in Int /\ Money(d, op.user) \in Int
       /\ Money(e, op.user) = Money(d, op.user)
  BY <1>2, <1>5 DEF Money, Database, User
<1>11. BookedFor(d, e, op.order, op.user, op.symbol)
  BY <1>2, <1>5, <1>6, <1>7, <1>8, <1>9, <1>10 DEF BookedFor, h, position
<1>12. Touches(d, e, op.user, op.symbol)
  BY <1>5 DEF Touches, h
<1>13. OrderOf(d.orders[op.order], op.user, op.symbol) /\ OrderOf(e.orders[op.order], op.user, op.symbol)
  BY <1>2, <1>3, <1>5 DEF OrderOf
<1>14. Booked(d, e, op.order)
  BY <1>2, <1>4, <1>11, <1>12, <1>13, OneAccountBooked
<1>15. OnlyChanged(d, e, op.order)
  BY <1>1, <1>5 DEF OnlyChanged, Database
<1>16. QED
  BY <1>14, <1>15 DEF e

\* A cancellation gives back all the order had reserved: the books guarantee
\* that the account still reserves at least as much.
LEMMA CancelledBooked ==
    ASSUME NEW d \in Database, Settled(d), Books(d), NEW op, op.order \in OrderIds,
           d.orders[op.order].status = "PENDING",
           NEW e, Cancelled(d, e, op)
    PROVE  Booked(d, e, op.order) /\ OnlyChanged(d, e, op.order)
<1> DEFINE order == d.orders[op.order]
           v == order.user
           h == <<order.user, order.symbol>>
           user == d.users[v]
           position == d.positions[h]
           dropped == [order EXCEPT !.status = "CANCELLED"]
<1>1. order \in Order
  BY DEF Database, NoOrder
<1>2. /\ v \in Users /\ order.symbol \in Symbols /\ h \in Users \X Symbols
      /\ order.quantity \in Nat /\ order.reservedAmount \in Nat
      /\ order.side \in {"BUY", "SELL"}
  BY <1>1, OrderRulesAssumption DEF Order
<1>3. e \in Database
  BY CancelledTypeOK
<1>4. /\ dropped.status = "CANCELLED" /\ dropped.user = v
      /\ dropped.symbol = order.symbol
  BY <1>1 DEF Order
<1>5. /\ e.orders = [d.orders EXCEPT ![op.order] = dropped]
      /\ e.trades = d.trades
  BY DEF Cancelled, Database
<1>6. \/ /\ order.side = "BUY"
         /\ e.positions = d.positions
         /\ e.users = [d.users EXCEPT ![v] = ReleaseCash(user, order)]
      \/ /\ order.side = "SELL"
         /\ e.users = d.users
         /\ e.positions = [d.positions EXCEPT ![h] = ReleaseShares(position, order)]
  BY DEF Cancelled
<1>7. /\ user.reservedBalance = Reserved(d, v) /\ ReservedFor(d, v, op.order) <= Reserved(d, v)
      /\ position.reservedQuantity = SharesReserved(d, h)
      /\ SharesReservedFor(d, h, op.order) <= SharesReserved(d, h)
  BY <1>2, SumTypes DEF Books
<1>8. /\ ReservedFor(d, v, op.order) = IF order.side = "BUY" THEN order.reservedAmount ELSE 0
      /\ SharesReservedFor(d, h, op.order) = IF order.side = "SELL" THEN order.quantity ELSE 0
      /\ CashFrom(d, v, op.order) = 0 /\ SharesFrom(d, h, op.order) = 0
  BY PendingTerms
<1> HIDE DEF dropped
<1>9. e.orders[op.order] = dropped
  BY <1>5 DEF Database
<1>10. /\ ReservedFor(e, v, op.order) = 0 /\ CashFrom(e, v, op.order) = 0
       /\ SharesReservedFor(e, h, op.order) = 0 /\ SharesFrom(e, h, op.order) = 0
  BY <1>4, <1>9, AbsentTerms
<1>11. OrderOf(order, v, order.symbol) /\ OrderOf(e.orders[op.order], v, order.symbol)
  BY <1>4, <1>9 DEF OrderOf
<1>12. /\ user.availableBalance \in Nat /\ user.reservedBalance \in Nat
       /\ position.quantity \in Nat /\ position.reservedQuantity \in Nat
  BY <1>2 DEF Database, User, Position
<1> HIDE DEF order, v, h, user, position
<1>13. Touches(d, e, v, order.symbol)
  BY <1>2, <1>6 DEF Touches, Database, h, v
<1>14. /\ e.users[v].reservedBalance = user.reservedBalance - ReservedFor(d, v, op.order)
       /\ e.users[v].availableBalance = user.availableBalance + ReservedFor(d, v, op.order)
       /\ e.positions[h].reservedQuantity =
            position.reservedQuantity - SharesReservedFor(d, h, op.order)
       /\ e.positions[h].quantity = position.quantity
  <2>1. CASE order.side = "BUY"
    <3>1. e.users[v] = ReleaseCash(user, order) /\ e.positions[h] = position
      BY <1>2, <1>6, <2>1 DEF Database, position
    <3>2. /\ Lesser(user.reservedBalance, order.reservedAmount) = order.reservedAmount
      BY <1>2, <1>7, <1>8, <1>12, <2>1 DEF Lesser
    <3>3. QED
      BY <1>2, <1>8, <1>12, <2>1, <3>1, <3>2 DEF ReleaseCash, Adjusted
  <2>2. CASE order.side = "SELL"
    <3>1. e.users[v] = user /\ e.positions[h] = ReleaseShares(position, order)
      BY <1>2, <1>6, <2>2 DEF Database, user
    <3>2. position.reservedQuantity - order.quantity >= 0
      BY <1>2, <1>7, <1>8, <1>12, <2>2
    <3>3. QED
      BY <1>2, <1>8, <1>12, <2>2, <3>1, <3>2 DEF ReleaseShares, AtLeastZero
  <2>3. QED
    BY <1>2, <2>1, <2>2
<1>15. Money(e, v) = Money(d, v) /\ Money(d, v) \in Int
  BY <1>2, <1>8, <1>12, <1>14 DEF Money, user
<1>16. BookedFor(d, e, op.order, v, order.symbol)
  <2>1. ReservedFor(d, v, op.order) \in Int /\ SharesReservedFor(d, h, op.order) \in Int
    BY <1>2, <1>8
  <2>2. QED
    BY <1>8, <1>10, <1>12, <1>14, <1>15, <2>1 DEF BookedFor, h, v, user, position
<1>17. Booked(d, e, op.order)
  BY <1>2, <1>3, <1>11, <1>13, <1>16, OneAccountBooked DEF order
<1>18. OnlyChanged(d, e, op.order)
  BY <1>5 DEF OnlyChanged, Database
<1>19. QED
  BY <1>17, <1>18

\* With every stock in CLP, what an execution moves is the trade's net amount.
LEMMA NetAmounts ==
    ASSUME NEW q \in Quantities, NEW op, op.price \in Prices, op.fx \in FxRates,
           op.rate \in CommissionRates
    PROVE  /\ CostClp(q, op) \in Nat /\ ProceedsClp(q, op) \in Nat
           /\ FxRates = {InClp} =>
                \A user \in Users, symbol \in Symbols :
                  /\ CostClp(q, op) = NewTrade(user, symbol, "BUY", q, op).netAmount
                  /\ ProceedsClp(q, op) = NewTrade(user, symbol, "SELL", q, op).netAmount
<1>1. CostClp(q, op) \in Nat /\ ProceedsClp(q, op) \in Nat
  BY AmountsNat DEF CostClp, ProceedsClp
<1>2. ASSUME FxRates = {InClp}
      PROVE  GrossClp(q, op.price, op.fx) = Gross(q, op.price)
  BY <1>2 DEF GrossClp
<1>3. ASSUME NEW user \in Users, NEW symbol \in Symbols
      PROVE  /\ NewTrade(user, symbol, "BUY", q, op).netAmount = Cost(Gross(q, op.price), op.rate)
             /\ NewTrade(user, symbol, "SELL", q, op).netAmount = Proceeds(Gross(q, op.price), op.rate)
  BY DEF NewTrade
<1>4. QED
  BY <1>1, <1>2, <1>3 DEF CostClp, ProceedsClp

LEMMA FilledBuyBooked ==
    ASSUME NEW d \in Database, Settled(d), NEW op \in ExecuteRequest,
           d.orders[op.order].status = "PENDING",
           NEW e, Filled(d, e, op), FilledBuy(d, e, op)
    PROVE  BookedFor(d, e, op.order, d.orders[op.order].user, d.orders[op.order].symbol)
<1> DEFINE order == d.orders[op.order]
           v == order.user
           h == <<order.user, order.symbol>>
           user == d.users[v]
           position == d.positions[h]
           filled == [order EXCEPT !.status = "EXECUTED"]
           cost == CostClp(order.quantity, op)
           bought == Bought(position, order.quantity, op.price)
           trade == NewTrade(v, order.symbol, order.side, order.quantity, op)
<1>1. op.order \in OrderIds /\ order \in Order
  BY DEF Database, NoOrder, ExecuteRequest
<1>2. /\ v \in Users /\ order.symbol \in Symbols /\ h \in Users \X Symbols
      /\ order.quantity \in Nat /\ order.quantity \in Quantities
      /\ order.reservedAmount \in Nat
  BY <1>1, OrderRulesAssumption DEF Order
<1>3. order.side = "BUY"
  BY DEF FilledBuy
<1>4. /\ cost \in Nat
      /\ FxRates = {InClp} => trade.netAmount = cost
  BY <1>2, <1>3, NetAmounts DEF ExecuteRequest
<1>5. /\ filled.status = "EXECUTED" /\ filled.user = v /\ filled.side = "BUY"
      /\ filled.symbol = order.symbol /\ filled.quantity = order.quantity
  BY <1>1, <1>3 DEF Order
<1>6. e.trades[op.order] = <<trade>> /\ e.orders[op.order] = filled
  <2>1. d.trades[op.order] = <<>>
    BY <1>1 DEF Settled
  <2>2. /\ e.orders = [d.orders EXCEPT ![op.order] = filled]
        /\ e.trades = [d.trades EXCEPT ![op.order] = Append(d.trades[op.order], trade)]
    BY DEF Filled
  <2> HIDE DEF filled, trade
  <2>3. QED
    BY <1>1, <2>1, <2>2 DEF Database
<1>7. /\ e.users = [d.users EXCEPT ![v] =
                      Adjusted(user, order.reservedAmount - cost, -order.reservedAmount)]
      /\ e.positions = [d.positions EXCEPT ![h] = bought]
  BY DEF FilledBuy
<1>8. /\ user.availableBalance \in Nat /\ user.reservedBalance \in Nat
      /\ position.quantity \in Nat /\ position.reservedQuantity \in Nat
      /\ position \in Position
  BY <1>2 DEF Database, User, Position
<1>9. /\ bought.quantity = position.quantity + order.quantity
      /\ bought.reservedQuantity = position.reservedQuantity
  BY <1>2, <1>8, BoughtType DEF ExecuteRequest
<1> HIDE DEF filled, trade
<1>10. /\ ReservedFor(d, v, op.order) = order.reservedAmount
       /\ SharesReservedFor(d, h, op.order) = 0
       /\ CashFrom(d, v, op.order) = 0 /\ SharesFrom(d, h, op.order) = 0
  BY <1>3, PendingTerms
<1>11. /\ ReservedFor(e, v, op.order) = 0 /\ SharesReservedFor(e, h, op.order) = 0
       /\ CashFrom(e, v, op.order) = -trade.netAmount
       /\ SharesFrom(e, h, op.order) = order.quantity
  BY <1>5, <1>6, ExecutedTerms
<1> HIDE DEF order, v, h, user, position, cost, bought
<1>12. /\ e.users[v] = Adjusted(user, order.reservedAmount - cost, -order.reservedAmount)
       /\ e.positions[h] = bought
  BY <1>2, <1>7 DEF Database
<1>13. /\ e.users[v].reservedBalance = user.reservedBalance - order.reservedAmount
       /\ e.users[v].availableBalance = user.availableBalance + (order.reservedAmount - cost)
  BY <1>2, <1>8, <1>12 DEF Adjusted
<1>14. Money(e, v) = Money(d, v) - cost /\ Money(d, v) \in Int
  BY <1>2, <1>4, <1>8, <1>13 DEF Money, user
<1>15. FxRates = {InClp} => Money(e, v) = Money(d, v) - CashFrom(d, v, op.order) + CashFrom(e, v, op.order)
  BY <1>4, <1>10, <1>11, <1>14
<1>16. BookedFor(d, e, op.order, v, order.symbol)
  BY <1>2, <1>8, <1>9, <1>10, <1>11, <1>12, <1>13, <1>15 DEF BookedFor, h, v, user, position
<1>17. QED
  BY <1>16 DEF v, order

\* The position is deleted only when its last share is sold; none of its
\* shares can then be reserved for another order.
LEMMA FilledSellBooked ==
    ASSUME NEW d \in Database, Settled(d), Covered(d), NEW op \in ExecuteRequest,
           d.orders[op.order].status = "PENDING",
           NEW e, Filled(d, e, op), FilledSell(d, e, op)
    PROVE  BookedFor(d, e, op.order, d.orders[op.order].user, d.orders[op.order].symbol)
<1> DEFINE order == d.orders[op.order]
           v == order.user
           h == <<order.user, order.symbol>>
           user == d.users[v]
           position == d.positions[h]
           filled == [order EXCEPT !.status = "EXECUTED"]
           earned == ProceedsClp(order.quantity, op)
           sold == Sold(ReleaseShares(position, order), order.quantity)
           trade == NewTrade(v, order.symbol, order.side, order.quantity, op)
<1>1. op.order \in OrderIds /\ order \in Order
  BY DEF Database, NoOrder, ExecuteRequest
<1>2. /\ v \in Users /\ order.symbol \in Symbols /\ h \in Users \X Symbols
      /\ order.quantity \in Nat /\ order.quantity \in Quantities
      /\ order.reservedAmount \in Nat
  BY <1>1, OrderRulesAssumption DEF Order
<1>3. /\ order.side = "SELL"
      /\ position.quantity >= order.quantity
      /\ position.reservedQuantity >= order.quantity
  BY DEF FilledSell
<1>4. /\ earned \in Nat
      /\ FxRates = {InClp} => trade.netAmount = earned
  BY <1>2, <1>3, NetAmounts DEF ExecuteRequest
<1>5. /\ filled.status = "EXECUTED" /\ filled.user = v /\ filled.side = "SELL"
      /\ filled.symbol = order.symbol /\ filled.quantity = order.quantity
  BY <1>1, <1>3 DEF Order
<1>6. e.trades[op.order] = <<trade>> /\ e.orders[op.order] = filled
  <2>1. d.trades[op.order] = <<>>
    BY <1>1 DEF Settled
  <2>2. /\ e.orders = [d.orders EXCEPT ![op.order] = filled]
        /\ e.trades = [d.trades EXCEPT ![op.order] = Append(d.trades[op.order], trade)]
    BY DEF Filled
  <2> HIDE DEF filled, trade
  <2>3. QED
    BY <1>1, <2>1, <2>2 DEF Database
<1>7. /\ e.users = [d.users EXCEPT ![v] = Adjusted(user, earned, 0)]
      /\ e.positions = [d.positions EXCEPT ![h] = sold]
  BY DEF FilledSell
<1>8. /\ user.availableBalance \in Nat /\ user.reservedBalance \in Nat
      /\ position.quantity \in Nat /\ position.reservedQuantity \in Nat
      /\ position.reservedQuantity <= position.quantity
  BY <1>2 DEF Database, User, Position, Covered
<1>9. /\ sold.quantity = position.quantity - order.quantity
      /\ sold.reservedQuantity = position.reservedQuantity - order.quantity
  <2> HIDE DEF order, position
  <2>1. QED
    BY <1>2, <1>3, <1>8 DEF Sold, ReleaseShares, AtLeastZero, Moved, NoPosition
<1> HIDE DEF filled, trade
<1>10. /\ ReservedFor(d, v, op.order) = 0
       /\ SharesReservedFor(d, h, op.order) = order.quantity
       /\ CashFrom(d, v, op.order) = 0 /\ SharesFrom(d, h, op.order) = 0
  BY <1>3, PendingTerms
<1>11. /\ ReservedFor(e, v, op.order) = 0 /\ SharesReservedFor(e, h, op.order) = 0
       /\ CashFrom(e, v, op.order) = trade.netAmount
       /\ SharesFrom(e, h, op.order) = -order.quantity
  BY <1>5, <1>6, ExecutedTerms
<1> HIDE DEF order, v, h, user, position, earned, sold
<1>12. e.users[v] = Adjusted(user, earned, 0) /\ e.positions[h] = sold
  BY <1>2, <1>7 DEF Database
<1>13. /\ e.users[v].reservedBalance = user.reservedBalance
       /\ e.users[v].availableBalance = user.availableBalance + earned
  BY <1>4, <1>8, <1>12 DEF Adjusted
<1>14. Money(e, v) = Money(d, v) + earned /\ Money(d, v) \in Int
  BY <1>2, <1>4, <1>8, <1>13 DEF Money, user
<1>15. FxRates = {InClp} => Money(e, v) = Money(d, v) - CashFrom(d, v, op.order) + CashFrom(e, v, op.order)
  BY <1>4, <1>10, <1>11, <1>14
<1>16. BookedFor(d, e, op.order, v, order.symbol)
  BY <1>2, <1>8, <1>9, <1>10, <1>11, <1>12, <1>13, <1>15 DEF BookedFor, h, v, user, position
<1>17. QED
  BY <1>16 DEF v, order

LEMMA FilledBooked ==
    ASSUME NEW d \in Database, Settled(d), Covered(d), NEW op \in ExecuteRequest,
           d.orders[op.order].status = "PENDING",
           NEW e, Filled(d, e, op)
    PROVE  Booked(d, e, op.order) /\ OnlyChanged(d, e, op.order)
<1> DEFINE order == d.orders[op.order]
           v == order.user
           s == order.symbol
           filled == [order EXCEPT !.status = "EXECUTED"]
<1>1. op.order \in OrderIds /\ order \in Order
  BY DEF Database, NoOrder, ExecuteRequest
<1>2. v \in Users /\ s \in Symbols
  BY <1>1 DEF Order
<1>3. e \in Database
  BY FilledTypeOK
<1>4. filled.user = v /\ filled.symbol = s
  BY <1>1 DEF Order
<1>5. /\ e.orders = [d.orders EXCEPT ![op.order] = filled]
      /\ \E x : e.trades = [d.trades EXCEPT ![op.order] = x]
      /\ \E x : e.users = [d.users EXCEPT ![v] = x]
      /\ \E x : e.positions = [d.positions EXCEPT ![<<v, s>>] = x]
  BY DEF Filled, FilledBuy, FilledSell
<1>6. BookedFor(d, e, op.order, v, s)
  BY FilledBuyBooked, FilledSellBooked DEF Filled
<1> HIDE DEF order, v, s, filled
<1>7. Touches(d, e, v, s) /\ OnlyChanged(d, e, op.order)
  BY <1>2, <1>5 DEF Touches, OnlyChanged, Database
<1>8. OrderOf(order, v, s) /\ OrderOf(e.orders[op.order], v, s)
  BY <1>1, <1>4, <1>5 DEF OrderOf, Database, v, s
<1>9. Booked(d, e, op.order)
  BY <1>1, <1>2, <1>3, <1>6, <1>7, <1>8, OneAccountBooked DEF order
<1>10. QED
  BY <1>7, <1>9

LEMMA MarketBuyBooked ==
    ASSUME NEW d \in Database, Settled(d), NEW op \in MarketRequest, CanMarketBuy(d, op)
    PROVE  Booked(d, MarketBuy(d, op), op.order) /\ OnlyChanged(d, MarketBuy(d, op), op.order)
<1> DEFINE e == MarketBuy(d, op)
           v == op.user
           h == <<op.user, op.symbol>>
           user == d.users[v]
           position == d.positions[h]
           order == NewOrder(op, "BUY", "MARKET", 0, "EXECUTED", 0)
           cost == CostClp(op.quantity, op)
           bought == Bought(position, op.quantity, op.price)
           trade == NewTrade(op.user, op.symbol, "BUY", op.quantity, op)
<1>1. /\ op.order \in OrderIds /\ v \in Users /\ op.symbol \in Symbols
      /\ h \in Users \X Symbols
      /\ op.quantity \in Nat /\ d.orders[op.order] = NoOrder
  BY OrderRulesAssumption DEF MarketRequest, CanMarketBuy
<1>2. /\ cost \in Nat
      /\ FxRates = {InClp} => trade.netAmount = cost
  BY NetAmounts DEF MarketRequest
<1>3. /\ order.status = "EXECUTED" /\ order.user = v /\ order.side = "BUY"
      /\ order.symbol = op.symbol /\ order.quantity = op.quantity
  BY DEF NewOrder
<1>4. e \in Database
  BY MarketBuyTypeOK
<1>5. d.trades[op.order] = <<>>
  BY <1>1 DEF Settled, NoOrder
<1>6. /\ e = [d EXCEPT !.users = e.users, !.positions = e.positions,
                       !.orders = e.orders, !.trades = e.trades]
      /\ e.users = [d.users EXCEPT ![v] = Adjusted(user, -cost, 0)]
      /\ e.positions = [d.positions EXCEPT ![h] = bought]
      /\ e.orders = [d.orders EXCEPT ![op.order] = order]
      /\ e.trades = [d.trades EXCEPT ![op.order] = Append(d.trades[op.order], trade)]
  BY MarketBuyEffect
<1>7. /\ user.availableBalance \in Nat /\ user.reservedBalance \in Nat
      /\ position.quantity \in Nat /\ position.reservedQuantity \in Nat
      /\ position \in Position
  BY <1>1 DEF Database, User, Position
<1>8. /\ bought.quantity = position.quantity + op.quantity
      /\ bought.reservedQuantity = position.reservedQuantity
  BY <1>7, BoughtType DEF MarketRequest
<1> HIDE DEF e, v, h, user, position, order, cost, bought, trade
<1>9. /\ e.trades[op.order] = <<trade>> /\ e.orders[op.order] = order
      /\ e.users[v] = Adjusted(user, -cost, 0) /\ e.positions[h] = bought
  BY <1>1, <1>5, <1>6 DEF Database
<1>10. /\ ReservedFor(d, v, op.order) = 0 /\ CashFrom(d, v, op.order) = 0
       /\ SharesReservedFor(d, h, op.order) = 0 /\ SharesFrom(d, h, op.order) = 0
  BY <1>1, AbsentTerms DEF NoOrder
<1>11. /\ ReservedFor(e, v, op.order) = 0 /\ SharesReservedFor(e, h, op.order) = 0
       /\ CashFrom(e, v, op.order) = -trade.netAmount
       /\ SharesFrom(e, h, op.order) = op.quantity
  BY <1>3, <1>9, ExecutedTerms DEF h, v
<1>12. /\ e.users[v].reservedBalance = user.reservedBalance
       /\ e.users[v].availableBalance = user.availableBalance - cost
  BY <1>2, <1>7, <1>9 DEF Adjusted
<1>13. Money(e, v) = Money(d, v) - cost /\ Money(d, v) \in Int
  BY <1>2, <1>7, <1>12 DEF Money, user
<1>14. FxRates = {InClp} => Money(e, v) = Money(d, v) - CashFrom(d, v, op.order) + CashFrom(e, v, op.order)
  BY <1>2, <1>10, <1>11, <1>13
<1>15. BookedFor(d, e, op.order, v, op.symbol)
  BY <1>1, <1>7, <1>8, <1>9, <1>10, <1>11, <1>12, <1>14 DEF BookedFor, h, v, user, position
<1>16. Touches(d, e, v, op.symbol) /\ OnlyChanged(d, e, op.order)
  BY <1>1, <1>6 DEF Touches, OnlyChanged, Database, h, v
<1>17. OrderOf(d.orders[op.order], v, op.symbol) /\ OrderOf(e.orders[op.order], v, op.symbol)
  BY <1>1, <1>3, <1>9 DEF OrderOf
<1>18. Booked(d, e, op.order)
  BY <1>1, <1>4, <1>15, <1>16, <1>17, OneAccountBooked
<1>19. QED
  BY <1>16, <1>18 DEF e

LEMMA MarketSellBooked ==
    ASSUME NEW d \in Database, Settled(d), Covered(d), NEW op \in MarketRequest,
           CanMarketSell(d, op)
    PROVE  Booked(d, MarketSell(d, op), op.order) /\ OnlyChanged(d, MarketSell(d, op), op.order)
<1> DEFINE e == MarketSell(d, op)
           v == op.user
           h == <<op.user, op.symbol>>
           user == d.users[v]
           position == d.positions[h]
           order == NewOrder(op, "SELL", "MARKET", 0, "EXECUTED", 0)
           earned == ProceedsClp(op.quantity, op)
           sold == Sold(position, op.quantity)
           trade == NewTrade(op.user, op.symbol, "SELL", op.quantity, op)
<1>1. /\ op.order \in OrderIds /\ v \in Users /\ op.symbol \in Symbols
      /\ h \in Users \X Symbols
      /\ op.quantity \in Nat /\ d.orders[op.order] = NoOrder
      /\ Free(position) >= op.quantity
  BY OrderRulesAssumption DEF MarketRequest, CanMarketSell
<1>2. /\ earned \in Nat
      /\ FxRates = {InClp} => trade.netAmount = earned
  BY NetAmounts DEF MarketRequest
<1>3. /\ order.status = "EXECUTED" /\ order.user = v /\ order.side = "SELL"
      /\ order.symbol = op.symbol /\ order.quantity = op.quantity
  BY DEF NewOrder
<1>4. e \in Database
  BY MarketSellTypeOK
<1>5. d.trades[op.order] = <<>>
  BY <1>1 DEF Settled, NoOrder
<1>6. /\ e = [d EXCEPT !.users = e.users, !.positions = e.positions,
                       !.orders = e.orders, !.trades = e.trades]
      /\ e.users = [d.users EXCEPT ![v] = Adjusted(user, earned, 0)]
      /\ e.positions = [d.positions EXCEPT ![h] = sold]
      /\ e.orders = [d.orders EXCEPT ![op.order] = order]
      /\ e.trades = [d.trades EXCEPT ![op.order] = Append(d.trades[op.order], trade)]
  BY MarketSellEffect
<1>7. /\ user.availableBalance \in Nat /\ user.reservedBalance \in Nat
      /\ position.quantity \in Nat /\ position.reservedQuantity \in Nat
      /\ position.reservedQuantity <= position.quantity
  BY <1>1 DEF Database, User, Position, Covered
<1>8. /\ sold.quantity = position.quantity - op.quantity
      /\ sold.reservedQuantity = position.reservedQuantity
  <2> HIDE DEF position
  <2>1. QED
    BY <1>1, <1>7 DEF Sold, Moved, NoPosition, Free
<1> HIDE DEF e, v, h, user, position, order, earned, sold, trade
<1>9. /\ e.trades[op.order] = <<trade>> /\ e.orders[op.order] = order
      /\ e.users[v] = Adjusted(user, earned, 0) /\ e.positions[h] = sold
  BY <1>1, <1>5, <1>6 DEF Database
<1>10. /\ ReservedFor(d, v, op.order) = 0 /\ CashFrom(d, v, op.order) = 0
       /\ SharesReservedFor(d, h, op.order) = 0 /\ SharesFrom(d, h, op.order) = 0
  BY <1>1, AbsentTerms DEF NoOrder
<1>11. /\ ReservedFor(e, v, op.order) = 0 /\ SharesReservedFor(e, h, op.order) = 0
       /\ CashFrom(e, v, op.order) = trade.netAmount
       /\ SharesFrom(e, h, op.order) = -op.quantity
  BY <1>3, <1>9, ExecutedTerms DEF h, v
<1>12. /\ e.users[v].reservedBalance = user.reservedBalance
       /\ e.users[v].availableBalance = user.availableBalance + earned
  BY <1>2, <1>7, <1>9 DEF Adjusted
<1>13. Money(e, v) = Money(d, v) + earned /\ Money(d, v) \in Int
  BY <1>2, <1>7, <1>12 DEF Money, user
<1>14. FxRates = {InClp} => Money(e, v) = Money(d, v) - CashFrom(d, v, op.order) + CashFrom(e, v, op.order)
  BY <1>2, <1>10, <1>11, <1>13
<1>15. BookedFor(d, e, op.order, v, op.symbol)
  BY <1>1, <1>7, <1>8, <1>9, <1>10, <1>11, <1>12, <1>14 DEF BookedFor, h, v, user, position
<1>16. Touches(d, e, v, op.symbol) /\ OnlyChanged(d, e, op.order)
  BY <1>1, <1>6 DEF Touches, OnlyChanged, Database, h, v
<1>17. OrderOf(d.orders[op.order], v, op.symbol) /\ OrderOf(e.orders[op.order], v, op.symbol)
  BY <1>1, <1>3, <1>9 DEF OrderOf
<1>18. Booked(d, e, op.order)
  BY <1>1, <1>4, <1>15, <1>16, <1>17, OneAccountBooked
<1>19. QED
  BY <1>16, <1>18 DEF e

LEMMA InitialBooks == Init => Books(db)
<1> SUFFICES ASSUME Init PROVE Books(db)
  OBVIOUS
<1>1. /\ \A o \in OrderIds : db.orders[o].status = "ABSENT"
      /\ \A u \in Users : /\ db.users[u].reservedBalance = 0
                          /\ db.users[u].availableBalance = InitialBalance
      /\ \A h \in Users \X Symbols : db.positions[h] = NoPosition
  BY DEF Init, InitialDatabase, NoOrder
<1>2. ASSUME NEW w \in [OrderIds -> Int], \A o \in OrderIds : w[o] = 0
      PROVE  SumFunctionOnSet(w, OrderIds) = 0
  <2>1. SumFunctionOnSet(w, {}) = SumFunctionOnSet(w, OrderIds)
    BY <1>2, OrderIdsFinite, SumSupport
  <2>2. SumFunctionOnSet(w, {}) = 0
    BY OrderIdsFinite, SumOfChosen
  <2>3. QED
    BY <2>1, <2>2
<1>3. ASSUME NEW u \in Users
      PROVE  Reserved(db, u) = 0 /\ CashEarned(db, u) = 0
  <2> DEFINE w == [o \in OrderIds |-> ReservedFor(db, u, o)]
             v == [o \in OrderIds |-> CashFrom(db, u, o)]
  <2>1. \A o \in OrderIds : w[o] = 0 /\ v[o] = 0
    BY <1>1 DEF ReservedFor, CashFrom
  <2>2. w \in [OrderIds -> Int] /\ v \in [OrderIds -> Int]
    BY <2>1
  <2>3. SumFunctionOnSet(w, OrderIds) = 0 /\ SumFunctionOnSet(v, OrderIds) = 0
    <3> HIDE DEF w, v
    <3>1. QED
      BY <1>2, <2>1, <2>2
  <2>4. QED
    BY <2>3 DEF Reserved, CashEarned
<1>4. ASSUME NEW h \in Users \X Symbols
      PROVE  SharesReserved(db, h) = 0 /\ SharesHeld(db, h) = 0
  <2> DEFINE w == [o \in OrderIds |-> SharesReservedFor(db, h, o)]
             v == [o \in OrderIds |-> SharesFrom(db, h, o)]
  <2>1. \A o \in OrderIds : w[o] = 0 /\ v[o] = 0
    BY <1>1 DEF SharesReservedFor, SharesFrom
  <2>2. w \in [OrderIds -> Int] /\ v \in [OrderIds -> Int]
    BY <2>1
  <2>3. SumFunctionOnSet(w, OrderIds) = 0 /\ SumFunctionOnSet(v, OrderIds) = 0
    <3> HIDE DEF w, v
    <3>1. QED
      BY <1>2, <2>1, <2>2
  <2>4. QED
    BY <2>3 DEF SharesReserved, SharesHeld
<1>5. ASSUME NEW u \in Users
      PROVE  Money(db, u) = InitialBalance + CashEarned(db, u)
  BY <1>1, <1>3, OrderRulesAssumption DEF Money
<1>6. QED
  BY <1>1, <1>3, <1>4, <1>5 DEF Books, NoPosition

\* A request leaves the books, or changes one order and books it.
LEMMA StepBooked ==
    ASSUME LedgerInvariant, Books(db), Next
    PROVE  \/ \E p \in OrderIds : Booked(db, db', p) /\ OnlyChanged(db, db', p)
           \/ /\ db'.users = db.users /\ db'.positions = db.positions
              /\ db'.orders = db.orders /\ db'.trades = db.trades
<1>1. db \in Database /\ Settled(db) /\ Covered(db)
  BY DEF LedgerInvariant, TypeOK
<1>2. CASE CreateBuyOrder
  BY <1>1, <1>2, CreateBuyBooked DEF CreateBuyOrder, CreateBuyRequest
<1>3. CASE CreateSellOrder
  BY <1>1, <1>3, CreateSellBooked DEF CreateSellOrder, CreateSellRequest
<1>4. CASE Cancel
  BY <1>1, <1>4, CancelEffect, CancelledBooked DEF Cancel, CancelRequest
<1>5. CASE Execute
  <2>1. PICK op \in ExecuteRequest : CanExecute(db, op) /\ db' = ExecuteOrder(db, op)
    BY <1>5 DEF Execute
  <2>2. op.order \in OrderIds /\ db.orders[op.order].status = "PENDING"
    BY <2>1 DEF ExecuteRequest, CanExecute
  <2>3. Booked(db, db', op.order) /\ OnlyChanged(db, db', op.order)
    BY <1>1, <2>1, <2>2, ExecuteEffect, CancelledBooked, FilledBooked
  <2>4. QED
    BY <2>2, <2>3
<1>6. CASE BuyAtMarket
  BY <1>1, <1>6, MarketBuyBooked DEF BuyAtMarket, MarketRequest
<1>7. CASE SellAtMarket
  BY <1>1, <1>7, MarketSellBooked DEF SellAtMarket, MarketRequest
<1>8. CASE List \/ Delist
  BY <1>1, <1>8 DEF List, Delist, CreateStock, DeleteStock, Database
<1>9. QED
  BY <1>2, <1>3, <1>4, <1>5, <1>6, <1>7, <1>8 DEF Next

LEMMA BooksStep == LedgerInvariant /\ Books(db) /\ [Next]_db => Books(db')
<1> SUFFICES ASSUME LedgerInvariant, Books(db), [Next]_db
             PROVE  Books(db')
  OBVIOUS
<1>1. LedgerInvariant'
  BY InvariantStep
<1>2. db \in Database /\ Settled(db) /\ db' \in Database /\ Settled(db')
  BY <1>1 DEF LedgerInvariant, TypeOK, Settled
<1>3. CASE \E p \in OrderIds : Booked(db, db', p) /\ OnlyChanged(db, db', p)
  BY <1>2, <1>3, BooksKept
<1>4. CASE /\ db'.users = db.users /\ db'.positions = db.positions
           /\ db'.orders = db.orders /\ db'.trades = db.trades
  BY <1>4 DEF Books, Reserved, SharesReserved, SharesHeld, CashEarned,
              ReservedFor, SharesReservedFor, SharesFrom, CashFrom, Money
<1>5. CASE UNCHANGED db
  BY <1>5 
<1>6. QED
  BY <1>3, <1>4, <1>5, StepBooked

BooksInvariant == LedgerInvariant /\ Books(db)

LEMMA BooksInvariance == Spec => []BooksInvariant
<1>1. Init => BooksInvariant
  BY InitialInvariant, InitialBooks DEF BooksInvariant
<1>2. BooksInvariant /\ [Next]_db => BooksInvariant'
  <2>1. BooksInvariant /\ [Next]_db => LedgerInvariant' /\ Books(db')
    BY InvariantStep, BooksStep DEF BooksInvariant
  <2>2. LedgerInvariant' /\ Books(db') => BooksInvariant'
    BY DEF BooksInvariant, Books, Reserved, SharesReserved, SharesHeld, CashEarned,
           ReservedFor, SharesReservedFor, SharesFrom, CashFrom, Money
  <2>3. QED
    BY <2>1, <2>2
<1>3. QED
  BY <1>1, <1>2, PTL DEF Spec

\* Every reservation is part of its user's total.
LEMMA BooksDeliver == BooksInvariant => Deliverable(db)
<1> SUFFICES ASSUME BooksInvariant, NEW o \in OrderIds, db.orders[o].status = "PENDING"
             PROVE  LET order == db.orders[o]
                        user == db.users[order.user]
                        position == db.positions[<<order.user, order.symbol>>]
                    IN  /\ order.side = "BUY" => user.reservedBalance >= order.reservedAmount
                        /\ order.side = "SELL" =>
                               /\ position.reservedQuantity >= order.quantity
                               /\ position.quantity >= position.reservedQuantity
  BY DEF Deliverable
<1> DEFINE order == db.orders[o]
           v == order.user
           h == <<order.user, order.symbol>>
<1>1. db \in Database /\ Settled(db) /\ Covered(db) /\ Books(db)
  BY DEF BooksInvariant, LedgerInvariant, TypeOK
<1>2. order \in Order
  BY <1>1 DEF Database, NoOrder
<1>3. /\ v \in Users /\ h \in Users \X Symbols
      /\ order.reservedAmount \in Nat /\ order.quantity \in Nat
  BY <1>2, OrderRulesAssumption DEF Order
<1>4. /\ db.users[v].reservedBalance = Reserved(db, v)
      /\ ReservedFor(db, v, o) <= Reserved(db, v)
      /\ db.positions[h].reservedQuantity = SharesReserved(db, h)
      /\ SharesReservedFor(db, h, o) <= SharesReserved(db, h)
      /\ db.positions[h].reservedQuantity <= db.positions[h].quantity
  BY <1>1, <1>3, SumTypes DEF Books, Covered
<1>5. /\ ReservedFor(db, v, o) = IF order.side = "BUY" THEN order.reservedAmount ELSE 0
      /\ SharesReservedFor(db, h, o) = IF order.side = "SELL" THEN order.quantity ELSE 0
  BY PendingTerms
<1>6. db.positions[h] \in Position /\ Reserved(db, v) \in Nat /\ SharesReserved(db, h) \in Nat
  BY <1>1, <1>3, SumTypes DEF Database
<1> HIDE DEF order, v, h
<1>7. /\ order.side = "BUY" => db.users[v].reservedBalance >= order.reservedAmount
      /\ order.side = "SELL" => /\ db.positions[h].reservedQuantity >= order.quantity
                               /\ db.positions[h].quantity >= db.positions[h].reservedQuantity
  BY <1>3, <1>4, <1>5, <1>6 DEF Position
<1>8. QED
  BY <1>7 DEF order, v, h

LEMMA TotalIsSum == \A w : Total(w) = SumFunctionOnSet(w, DOMAIN w)
BY DEF Total, SumFunction, FoldFunction, SumFunctionOnSet

\* A user's reserved balance is what his pending BUY orders reserved: no
\* sequence of executions, cancellations and defensive cancellations, with
\* prices and rates moving between them, loses or doubles a reservation.
THEOREM LedgerReservedBalanceBacked == Spec => []ReservedBalanceBacked
<1>1. BooksInvariant => ReservedBalanceBacked
  <2> SUFFICES ASSUME BooksInvariant, NEW u \in Users
               PROVE  db.users[u].reservedBalance =
                        Total([o \in PendingOf(u, "BUY") |-> db.orders[o].reservedAmount])
    BY DEF ReservedBalanceBacked
  <2> DEFINE w == [o \in PendingOf(u, "BUY") |-> db.orders[o].reservedAmount]
             v == [o \in OrderIds |-> ReservedFor(db, u, o)]
  <2>1. /\ \A o \in PendingOf(u, "BUY") : w[o] = v[o]
        /\ \A o \in OrderIds \ PendingOf(u, "BUY") : v[o] = 0
        /\ PendingOf(u, "BUY") \in SUBSET OrderIds
    BY DEF PendingOf, ReservedFor
  <2>2. \A o \in OrderIds : v[o] \in Int
    BY TermTypes DEF BooksInvariant, LedgerInvariant, TypeOK
  <2>3. DOMAIN w = PendingOf(u, "BUY")
    OBVIOUS
  <2>4. Total(w) = SumFunctionOnSet(v, OrderIds)
    <3> HIDE DEF w, v
    <3>1. SumFunctionOnSet(w, PendingOf(u, "BUY")) = SumFunctionOnSet(v, OrderIds)
      BY <2>1, <2>2, OrderIdsFinite, SumSupport
    <3>2. QED
      BY <2>3, <3>1, TotalIsSum
  <2>5. db.users[u].reservedBalance = Reserved(db, u)
    BY DEF BooksInvariant, Books
  <2>6. QED
    BY <2>4, <2>5 DEF Reserved
<1>2. QED
  BY <1>1, BooksInvariance, PTL

\* The reserved shares of a position are those of the pending SELL orders on it.
THEOREM LedgerReservedSharesBacked == Spec => []ReservedSharesBacked
<1>1. BooksInvariant => ReservedSharesBacked
  <2> SUFFICES ASSUME BooksInvariant, NEW u \in Users, NEW s \in Symbols
               PROVE  db.positions[<<u, s>>].reservedQuantity =
                        Total([o \in {p \in PendingOf(u, "SELL") : db.orders[p].symbol = s}
                                 |-> db.orders[o].quantity])
    BY DEF ReservedSharesBacked
  <2> DEFINE sells == {p \in PendingOf(u, "SELL") : db.orders[p].symbol = s}
             w == [o \in sells |-> db.orders[o].quantity]
             v == [o \in OrderIds |-> SharesReservedFor(db, <<u, s>>, o)]
  <2>1. /\ \A o \in sells : w[o] = v[o]
        /\ \A o \in OrderIds \ sells : v[o] = 0
        /\ sells \in SUBSET OrderIds
    BY DEF PendingOf, SharesReservedFor
  <2>2. \A o \in OrderIds : v[o] \in Int
    BY TermTypes DEF BooksInvariant, LedgerInvariant, TypeOK
  <2>3. DOMAIN w = sells
    OBVIOUS
  <2>4. Total(w) = SumFunctionOnSet(v, OrderIds)
    <3> HIDE DEF w, v, sells
    <3>1. SumFunctionOnSet(w, sells) = SumFunctionOnSet(v, OrderIds)
      BY <2>1, <2>2, OrderIdsFinite, SumSupport
    <3>2. QED
      BY <2>3, <3>1, TotalIsSum
  <2>5. db.positions[<<u, s>>].reservedQuantity = SharesReserved(db, <<u, s>>)
    BY DEF BooksInvariant, Books
  <2>6. QED
    BY <2>4, <2>5 DEF SharesReserved
<1>2. QED
  BY <1>1, BooksInvariance, PTL

FirstTrades(E) == {<<o, 1>> : o \in E}

\* A sum over the trades of some orders is a sum over those orders, for each
\* executed order has one trade, the first of its list.
LEMMA SumOverTrades ==
    ASSUME NEW E \in SUBSET OrderIds, NEW w, DOMAIN w = FirstTrades(E),
           NEW v, \A o \in E : w[<<o, 1>>] = v[o],
           \A o \in OrderIds : v[o] \in Int,
           \A o \in OrderIds \ E : v[o] = 0
    PROVE  Total(w) = SumFunctionOnSet(v, OrderIds)
<1> DEFINE f == [o \in E |-> <<o, 1>>]
           x == [o \in E |-> w[f[o]]]
<1>1. IsFiniteSet(E)
  BY OrderIdsFinite, FS_Subset
<1>2. /\ \A o, p \in E : f[o] = f[p] => o = p
      /\ \A o \in E : w[f[o]] \in Int
      /\ \A o \in E : x[o] = v[o]
      /\ {f[o] : o \in E} = DOMAIN w
  BY DEF FirstTrades
<1> HIDE DEF f
<1>3. SumFunctionOnSet(w, {f[o] : o \in E}) = SumFunctionOnSet(x, E)
  BY <1>1, <1>2, SumImage
<1> HIDE DEF x
<1>4. SumFunctionOnSet(x, E) = SumFunctionOnSet(v, OrderIds)
  BY <1>2, OrderIdsFinite, SumSupport
<1>5. QED
  BY <1>2, <1>3, <1>4, TotalIsSum

LEMMA TradeKeys ==
    ASSUME NEW u \in Users, db \in Database, Settled(db)
    PROVE  /\ TradesOf(u) = {<<o, 1>> : o \in {p \in OrderIds :
                                 db.orders[p].status = "EXECUTED" /\ db.orders[p].user = u}}
           /\ \A o \in OrderIds : db.orders[o].status = "EXECUTED" =>
                /\ db.trades[o][1].user = db.orders[o].user
                /\ db.trades[o][1].symbol = db.orders[o].symbol
                /\ db.trades[o][1].side = db.orders[o].side
                /\ db.trades[o][1].quantity = db.orders[o].quantity
<1>1. ASSUME NEW o \in OrderIds
      PROVE  /\ db.orders[o].status = "EXECUTED" =>
                  /\ 1..Len(db.trades[o]) = {1}
                  /\ Settles(db.trades[o][1], db.orders[o])
             /\ db.orders[o].status # "EXECUTED" => 1..Len(db.trades[o]) = {}
  <2>1. CASE db.orders[o].status = "EXECUTED"
    <3>1. PICK trade \in Trade : db.trades[o] = <<trade>> /\ Settles(trade, db.orders[o])
      BY <2>1 DEF Settled
    <3>2. 1..1 = {1}
      OBVIOUS
    <3>3. QED
      BY <2>1, <3>1, <3>2
  <2>2. CASE db.orders[o].status # "EXECUTED"
    <3>1. db.trades[o] = <<>>
      BY <2>2 DEF Settled
    <3>2. QED
      BY <2>2, <3>1
  <2>3. QED
    BY <2>1, <2>2
<1>2. \A o \in OrderIds : db.orders[o].status = "EXECUTED" =>
                /\ db.trades[o][1].user = db.orders[o].user
                /\ db.trades[o][1].symbol = db.orders[o].symbol
                /\ db.trades[o][1].side = db.orders[o].side
                /\ db.trades[o][1].quantity = db.orders[o].quantity
  BY <1>1 DEF Settles
<1> DEFINE keys(o) == {<<o, i>> : i \in {j \in 1..Len(db.trades[o]) :
                                            db.trades[o][j].user = u}}
<1>3. \A o \in OrderIds :
        keys(o) = IF db.orders[o].status = "EXECUTED" /\ db.orders[o].user = u
                  THEN {<<o, 1>>} ELSE {}
  <2> TAKE o \in OrderIds
  <2>1. CASE db.orders[o].status = "EXECUTED"
    <3>1. 1..Len(db.trades[o]) = {1} /\ db.trades[o][1].user = db.orders[o].user
      BY <1>1, <1>2, <2>1
    <3>2. CASE db.orders[o].user = u
      <4>1. {j \in 1..Len(db.trades[o]) : db.trades[o][j].user = u} = {1}
        BY <3>1, <3>2
      <4>2. QED
        BY <2>1, <3>2, <4>1
    <3>3. CASE db.orders[o].user # u
      <4>1. {j \in 1..Len(db.trades[o]) : db.trades[o][j].user = u} = {}
        BY <3>1, <3>3
      <4>2. QED
        BY <2>1, <3>3, <4>1
    <3>4. QED
      BY <3>2, <3>3
  <2>2. CASE db.orders[o].status # "EXECUTED"
    BY <1>1, <2>2, Zenon
  <2>3. QED
    BY <2>1, <2>2
<1>4. TradesOf(u) = UNION {keys(o) : o \in OrderIds}
  BY DEF TradesOf
<1> HIDE DEF keys
<1>5. QED
  BY <1>2, <1>3, <1>4

\* A position is the history of its trades: no share is bought or sold twice,
\* and none disappears with a deleted position.
THEOREM LedgerSharesConserved == Spec => []SharesConserved
<1>1. BooksInvariant => SharesConserved
  <2> DEFINE signed(k) == IF TradeAt(k).side = "BUY" THEN TradeAt(k).quantity
                                                      ELSE -TradeAt(k).quantity
  <2> SUFFICES ASSUME BooksInvariant, NEW u \in Users, NEW s \in Symbols
               PROVE  db.positions[<<u, s>>].quantity =
                        Total([k \in {t \in TradesOf(u) : TradeAt(t).symbol = s} |-> signed(k)])
    BY DEF SharesConserved
  <2> DEFINE keys == {t \in TradesOf(u) : TradeAt(t).symbol = s}
             E == {o \in OrderIds : /\ db.orders[o].status = "EXECUTED"
                                    /\ db.orders[o].user = u
                                    /\ db.orders[o].symbol = s}
             w == [k \in keys |-> signed(k)]
             v == [o \in OrderIds |-> SharesFrom(db, <<u, s>>, o)]
  <2>1. db \in Database /\ Settled(db) /\ db.positions[<<u, s>>].quantity = SharesHeld(db, <<u, s>>)
    BY DEF BooksInvariant, LedgerInvariant, TypeOK, Books
  <2>2. keys = {<<o, 1>> : o \in E}
    BY <2>1, TradeKeys DEF TradeAt
  <2>3. \A o \in E : w[<<o, 1>>] = v[o]
    <3>1. ASSUME NEW o \in E
          PROVE  w[<<o, 1>>] = signed(<<o, 1>>) /\ v[o] = SharesFrom(db, <<u, s>>, o)
      BY <2>2
    <3>2. ASSUME NEW o \in E
          PROVE  signed(<<o, 1>>) = SharesFrom(db, <<u, s>>, o)
      BY <2>1, TradeKeys DEF TradeAt, SharesFrom
    <3>3. QED
      BY <3>1, <3>2
  <2>4. \A o \in OrderIds : v[o] \in Int
    BY <2>1, TermTypes
  <2>5. \A o \in OrderIds \ E : v[o] = 0
    BY DEF SharesFrom
  <2>6. DOMAIN w = FirstTrades(E) /\ E \in SUBSET OrderIds
    BY <2>2 DEF FirstTrades
  <2>7. Total(w) = SumFunctionOnSet(v, OrderIds)
    <3> HIDE DEF w, v, E
    <3>1. QED
      BY <2>3, <2>4, <2>5, <2>6, SumOverTrades
  <2>8. QED
    BY <2>1, <2>7 DEF SharesHeld
<1>2. QED
  BY <1>1, BooksInvariance, PTL

\* When every stock is quoted in CLP the trades account for every cent of
\* every user, whatever was reserved, released or rounded in between.
THEOREM LedgerCashConserved == Spec => []CashConserved
<1>1. ASSUME BooksInvariant, EveryStockInClp, NEW u \in Users
      PROVE  db.users[u].availableBalance + db.users[u].reservedBalance =
               InitialBalance + CashTraded(u)
  <2> DEFINE signed(k) == IF TradeAt(k).side = "BUY" THEN -TradeAt(k).netAmount
                                                      ELSE TradeAt(k).netAmount
             E == {o \in OrderIds : /\ db.orders[o].status = "EXECUTED"
                                    /\ db.orders[o].user = u}
             w == [k \in TradesOf(u) |-> signed(k)]
             v == [o \in OrderIds |-> CashFrom(db, u, o)]
  <2>1. db \in Database /\ Settled(db) /\ Money(db, u) = InitialBalance + CashEarned(db, u)
    BY <1>1 DEF EveryStockInClp, BooksInvariant, LedgerInvariant, TypeOK, Books
  <2>2. TradesOf(u) = {<<o, 1>> : o \in E}
    BY <2>1, TradeKeys
  <2>3. \A o \in E : w[<<o, 1>>] = v[o]
    <3>1. ASSUME NEW o \in E
          PROVE  w[<<o, 1>>] = signed(<<o, 1>>) /\ v[o] = CashFrom(db, u, o)
      BY <2>2
    <3>2. ASSUME NEW o \in E
          PROVE  signed(<<o, 1>>) = CashFrom(db, u, o)
      BY <2>1, TradeKeys DEF TradeAt, CashFrom
    <3>3. QED
      BY <3>1, <3>2
  <2>4. \A o \in OrderIds : v[o] \in Int
    BY <2>1, TermTypes
  <2>5. \A o \in OrderIds \ E : v[o] = 0
    BY DEF CashFrom
  <2>6. DOMAIN w = FirstTrades(E) /\ E \in SUBSET OrderIds
    BY <2>2 DEF FirstTrades
  <2>7. Total(w) = SumFunctionOnSet(v, OrderIds)
    <3> HIDE DEF w, v, E
    <3>1. QED
      BY <2>3, <2>4, <2>5, <2>6, SumOverTrades
  <2>8. QED
    BY <2>1, <2>7 DEF CashEarned, CashTraded, Money
<1>2. BooksInvariant => CashConserved
  BY <1>1, Zenon DEF CashConserved
<1>3. QED
  BY <1>2, BooksInvariance, PTL

MoneyKept(d, e) == \A u \in Users : Money(e, u) = Money(d, u)

OnlyAccount(d, e, v) == \A u \in Users \ {v} : e.users[u] = d.users[u]

LEMMA ReservingKeepsMoney ==
    ASSUME NEW d \in Database, NEW e, NEW v \in Users, NEW a \in Int,
           e.users = [d.users EXCEPT ![v] = Adjusted(d.users[v], a, -a)]
    PROVE  MoneyKept(d, e)
<1> SUFFICES ASSUME NEW u \in Users PROVE Money(e, u) = Money(d, u)
  BY DEF MoneyKept
<1>1. d.users[u].availableBalance \in Int /\ d.users[u].reservedBalance \in Int
  BY DEF Database, User
<1>2. CASE u = v
  <2>1. e.users[u] = Adjusted(d.users[u], a, -a)
    BY <1>2 DEF Database
  <2>2. QED
    BY <1>1, <2>1 DEF Money, Adjusted
<1>3. CASE u # v
  BY <1>3 DEF Money, Database
<1>4. QED
  BY <1>2, <1>3

LEMMA CancelledKeepsMoney ==
    ASSUME NEW d \in Database, NEW op, op.order \in OrderIds,
           d.orders[op.order].status = "PENDING",
           NEW e, Cancelled(d, e, op)
    PROVE  MoneyKept(d, e)
<1> DEFINE order == d.orders[op.order]
           v == order.user
           a == Lesser(d.users[v].reservedBalance, order.reservedAmount)
<1>1. v \in Users /\ order.reservedAmount \in Nat
  BY DEF Database, Order, NoOrder
<1>2. a \in Int
  BY <1>1 DEF Lesser, Database, User
<1>3. \/ e.users = d.users
      \/ e.users = [d.users EXCEPT ![v] = Adjusted(d.users[v], a, -a)]
  BY DEF Cancelled, ReleaseCash
<1> HIDE DEF v, a
<1>4. QED
  BY <1>1, <1>2, <1>3, ReservingKeepsMoney DEF MoneyKept, Money

\* A request keeps everyone's money, or settles an order and touches the
\* account of one user.
LEMMA MoneySteps ==
    ASSUME db \in Database, Next
    PROVE  \/ MoneyKept(db, db')
           \/ \E v \in Users, o \in OrderIds : FillsOrder(db, db', o) /\ OnlyAccount(db, db', v)
<1>1. CASE CreateBuyOrder
  <2>1. PICK op \in CreateBuyRequest : CanCreateBuy(db, op) /\ db' = CreateBuy(db, op)
    BY <1>1 DEF CreateBuyOrder
  <2> DEFINE amount == Reservation(op)
             a == -amount
  <2>2. op.user \in Users /\ amount \in Nat
    BY ReservationNat DEF CreateBuyRequest
  <2>3. db'.users = [db.users EXCEPT ![op.user] = Adjusted(db.users[op.user], a, amount)]
    BY <2>1, CreateBuyEffect
  <2> HIDE DEF amount
  <2>4. a \in Int /\ -a = amount
    BY <2>2
  <2> HIDE DEF a
  <2>5. QED
    BY <2>2, <2>3, <2>4, ReservingKeepsMoney
<1>2. CASE CreateSellOrder
  <2>1. PICK op \in CreateSellRequest : CanCreateSell(db, op) /\ db' = CreateSell(db, op)
    BY <1>2 DEF CreateSellOrder
  <2>2. db'.users = db.users
    BY <2>1 DEF CreateSell, Database
  <2>3. QED
    BY <2>2 DEF MoneyKept, Money
<1>3. CASE Cancel
  <2>1. PICK op \in CancelRequest : CanCancel(db, op) /\ db' = CancelOrder(db, op)
    BY <1>3 DEF Cancel
  <2>2. \/ db' = db
        \/ db.orders[op.order].status = "PENDING" /\ Cancelled(db, db', op)
    BY <2>1, CancelEffect
  <2>3. QED
    BY <2>2, CancelledKeepsMoney DEF CancelRequest, MoneyKept
<1>4. CASE Execute
  <2>1. PICK op \in ExecuteRequest : CanExecute(db, op) /\ db' = ExecuteOrder(db, op)
    BY <1>4 DEF Execute
  <2>2. op.order \in OrderIds /\ db.orders[op.order].status = "PENDING"
    BY <2>1 DEF ExecuteRequest, CanExecute
  <2>3. CASE Cancelled(db, db', op)
    BY <2>2, <2>3, CancelledKeepsMoney
  <2>4. CASE Filled(db, db', op)
    <3> DEFINE v == db.orders[op.order].user
    <3>1. v \in Users
      BY <2>2 DEF Database, Order, NoOrder
    <3>2. \E x : db'.users = [db.users EXCEPT ![v] = x]
      BY <2>4 DEF Filled, FilledBuy, FilledSell
    <3> HIDE DEF v
    <3>3. OnlyAccount(db, db', v)
      BY <3>1, <3>2 DEF OnlyAccount, Database
    <3>4. QED
      BY <2>1, <2>2, <2>4, <3>1, <3>3, FilledFills
  <2>5. QED
    BY <2>1, <2>3, <2>4, ExecuteEffect
<1>5. CASE BuyAtMarket
  <2>1. PICK op \in MarketRequest : CanMarketBuy(db, op) /\ db' = MarketBuy(db, op)
    BY <1>5 DEF BuyAtMarket
  <2>2. db'.users = [db.users EXCEPT ![op.user] =
                       Adjusted(db.users[op.user], -CostClp(op.quantity, op), 0)]
    BY <2>1, MarketBuyEffect
  <2>3. op.user \in Users /\ op.order \in OrderIds
    BY DEF MarketRequest
  <2>4. OnlyAccount(db, db', op.user)
    BY <2>2, <2>3 DEF OnlyAccount, Database
  <2>5. QED
    BY <2>1, <2>3, <2>4, MarketBuyFills
<1>6. CASE SellAtMarket
  <2>1. PICK op \in MarketRequest : CanMarketSell(db, op) /\ db' = MarketSell(db, op)
    BY <1>6 DEF SellAtMarket
  <2>2. db'.users = [db.users EXCEPT ![op.user] =
                       Adjusted(db.users[op.user], ProceedsClp(op.quantity, op), 0)]
    BY <2>1, MarketSellEffect
  <2>3. op.user \in Users /\ op.order \in OrderIds
    BY DEF MarketRequest
  <2>4. OnlyAccount(db, db', op.user)
    BY <2>2, <2>3 DEF OnlyAccount, Database
  <2>5. QED
    BY <2>1, <2>3, <2>4, MarketSellFills
<1>7. CASE List \/ Delist
  <2>1. db'.users = db.users
    BY <1>7 DEF List, Delist, CreateStock, DeleteStock, Database
  <2>2. QED
    BY <2>1 DEF MoneyKept, Money
<1>8. QED
  BY <1>1, <1>2, <1>3, <1>4, <1>5, <1>6, <1>7 DEF Next

LEMMA FillCountsOneTrade ==
    ASSUME NEW d \in Database, Settled(d), NEW e \in Database, Settled(e),
           NEW p \in OrderIds, FillsOrder(d, e, p)
    PROVE  TradeCount(e) = TradeCount(d) + 1
<1> DEFINE w == [o \in OrderIds |-> Len(d.trades[o])]
           v == [o \in OrderIds |-> Len(e.trades[o])]
<1>1. d.trades[p] = <<>>
  BY DEF FillsOrder, Settled, NoOrder
<1>2. PICK trade \in Trade : e.trades = [d.trades EXCEPT ![p] = Append(d.trades[p], trade)]
  BY DEF FillsOrder
<1>3. e.trades[p] = <<trade>> /\ \A o \in OrderIds \ {p} : e.trades[o] = d.trades[o]
  BY <1>1, <1>2 DEF Database
<1>4. w \in [OrderIds -> Int] /\ v \in [OrderIds -> Int]
  BY DEF Database
<1>5. w[p] = 0 /\ v[p] = 1 /\ \A o \in OrderIds \ {p} : w[o] = v[o]
  BY <1>1, <1>3
<1>6. DOMAIN w = OrderIds /\ DOMAIN v = OrderIds
  OBVIOUS
<1>7. Total(v) = Total(w) + 1
  <2> HIDE DEF w, v
  <2>1. SumFunctionOnSet(v, OrderIds) = SumFunctionOnSet(w, OrderIds) - w[p] + v[p]
    BY <1>4, <1>5, OrderIdsFinite, SumChange
  <2>2. SumFunctionOnSet(w, OrderIds) \in Int
    BY <1>4, OrderIdsFinite, SumInt
  <2>3. QED
    BY <1>5, <1>6, <2>1, <2>2, TotalIsSum
<1>8. QED
  BY <1>7 DEF TradeCount

\* Money enters or leaves one account at a time and only with exactly one new
\* trade: reserving, releasing and the defensive cancellations move it between
\* the two balances of a user and create none.
THEOREM LedgerMoneyMovesWithATrade == Spec => MoneyMovesWithATrade
<1> DEFINE Paid(u) == Money(db', u) # Money(db, u) =>
                        /\ TradeCount(db') = TradeCount(db) + 1
                        /\ \A v \in Users \ {u} : db'.users[v] = db.users[v]
<1>1. ASSUME LedgerInvariant, Next, NEW u \in Users
      PROVE  Paid(u)
  <2>1. LedgerInvariant'
    BY <1>1, InvariantStep
  <2>2. db \in Database /\ Settled(db) /\ db' \in Database /\ Settled(db')
    BY <1>1, <2>1 DEF LedgerInvariant, TypeOK, Settled
  <2>3. CASE MoneyKept(db, db')
    BY <2>3 DEF MoneyKept
  <2>4. CASE \E v \in Users, o \in OrderIds : FillsOrder(db, db', o) /\ OnlyAccount(db, db', v)
    <3>1. PICK v \in Users, o \in OrderIds : FillsOrder(db, db', o) /\ OnlyAccount(db, db', v)
      BY <2>4
    <3>2. u # v => Money(db', u) = Money(db, u)
      BY <3>1 DEF OnlyAccount, Money
    <3>3. TradeCount(db') = TradeCount(db) + 1
      BY <2>2, <3>1, FillCountsOneTrade
    <3>4. QED
      BY <3>1, <3>2, <3>3 DEF OnlyAccount
  <2>5. QED
    BY <1>1, <2>2, <2>3, <2>4, MoneySteps
<1>2. LedgerInvariant /\ [Next]_db => [\A u \in Users : Paid(u)]_db
  BY <1>1
<1>3. QED
  BY <1>2, Invariance, PTL DEF Spec, MoneyMovesWithATrade

-----------------------------------------------------------------------------
(* The average cost lies between prices paid, to the cent *)

\* u bought shares of s at this price.
PaidPrice(d, u, s, price) ==
    \E o \in OrderIds :
        /\ d.orders[o].status = "EXECUTED"
        /\ d.orders[o].user = u /\ d.orders[o].symbol = s /\ d.orders[o].side = "BUY"
        /\ d.trades[o][1].executionPrice = price

PricedPosition(d, u, s) ==
    LET position == d.positions[<<u, s>>] IN
    position.quantity > 0 =>
        \E low, high \in Nat :
            /\ PaidPrice(d, u, s, low) /\ PaidPrice(d, u, s, high)
            /\ PriceScale * CentsBelow(low) <= position.averageCost
            /\ position.averageCost <= PriceScale * CentsAbove(high)

Priced(d) == \A u \in Users, s \in Symbols : PricedPosition(d, u, s)

\* The shares and the average cost of a position are as before, or fewer shares
\* with the same average, or a purchase at a price the user now has paid.
Repriced(d, e, u, s) ==
    LET before == d.positions[<<u, s>>]
        after == e.positions[<<u, s>>]
    IN  \/ after.quantity > 0 => /\ before.quantity > 0
                                 /\ after.averageCost = before.averageCost
        \/ \E q \in Quantities, price \in Prices :
               after = Bought(before, q, price) /\ PaidPrice(e, u, s, price)

\* What rounding down and up to a cent gives.
LEMMA CentsAround ==
    ASSUME NEW price \in Nat
    PROVE  /\ CentsBelow(price) \in Nat /\ CentsAbove(price) \in Nat
           /\ PriceScale * CentsBelow(price) <= price
           /\ price <= PriceScale * CentsAbove(price)
<1>1. PriceScale \in Nat /\ PriceScale > 0
  BY OrderRulesAssumption
<1>2. \A n \in Nat : /\ n \div PriceScale \in Nat
                     /\ PriceScale * (n \div PriceScale) \in Nat
                     /\ PriceScale * (n \div PriceScale) <= n
                     /\ n < PriceScale * (n \div PriceScale) + PriceScale
  BY <1>1
<1>3. price + PriceScale - 1 \in Nat
  BY <1>1
<1> DEFINE below == price \div PriceScale
           above == (price + PriceScale - 1) \div PriceScale
           under == PriceScale * below
           over == PriceScale * above
<1>4. /\ below \in Nat /\ above \in Nat /\ over \in Nat /\ under <= price
      /\ price + PriceScale - 1 < over + PriceScale
  BY <1>2, <1>3
<1>5. CentsBelow(price) = below /\ CentsAbove(price) = above
  BY DEF CentsBelow, CentsAbove
<1> HIDE DEF below, above
<1>6. under <= price /\ price <= over
  <2> HIDE DEF over, under
  <2>1. QED
    BY <1>1, <1>4
<1>7. QED
  BY <1>4, <1>5, <1>6

LEMMA PricedKept ==
    ASSUME NEW d \in Database, NEW e, Priced(d), NEW u \in Users, NEW s \in Symbols,
           \A price : PaidPrice(d, u, s, price) => PaidPrice(e, u, s, price),
           Repriced(d, e, u, s)
    PROVE  PricedPosition(e, u, s)
<1> DEFINE before == d.positions[<<u, s>>]
           after == e.positions[<<u, s>>]
<1> SUFFICES ASSUME after.quantity > 0
             PROVE  \E low, high \in Nat :
                      /\ PaidPrice(e, u, s, low) /\ PaidPrice(e, u, s, high)
                      /\ PriceScale * CentsBelow(low) <= after.averageCost
                      /\ after.averageCost <= PriceScale * CentsAbove(high)
  BY DEF PricedPosition
<1>1. before \in Position
  BY DEF Database
<1>2. CASE before.quantity > 0 /\ after.averageCost = before.averageCost
  BY <1>2 DEF Priced, PricedPosition
<1>3. CASE \E q \in Quantities, price \in Prices :
             after = Bought(before, q, price) /\ PaidPrice(e, u, s, price)
  <2>1. PICK q \in Quantities, price \in Prices :
             after = Bought(before, q, price) /\ PaidPrice(e, u, s, price)
    BY <1>3
  <2>2. q \in Nat /\ q > 0 /\ price \in Nat
    BY OrderRulesAssumption
  <2> DEFINE Below(p) == PriceScale * CentsBelow(p)
             Above(p) == PriceScale * CentsAbove(p)
  <2>3. \A p \in Nat : /\ CentsBelow(p) \in Nat /\ CentsAbove(p) \in Nat
                       /\ Below(p) \in Nat /\ Above(p) \in Nat
                       /\ Below(p) <= p /\ p <= Above(p)
    BY CentsAround, ProductNat, OrderRulesAssumption
  <2>4. ASSUME NEW low \in Nat, NEW high \in Nat,
               PaidPrice(e, u, s, low), PaidPrice(e, u, s, high),
               Below(low) <= price, price <= Above(high),
               before.quantity > 0 => /\ Below(low) <= before.averageCost
                                      /\ before.averageCost <= Above(high)
        PROVE  \E l, h \in Nat : /\ PaidPrice(e, u, s, l) /\ PaidPrice(e, u, s, h)
                                 /\ Below(l) <= after.averageCost
                                 /\ after.averageCost <= Above(h)
    <3> HIDE DEF before, after
    <3>1. Below(low) <= after.averageCost /\ after.averageCost <= Above(high)
      BY <1>1, <2>1, <2>2, <2>3, <2>4, BoughtBetween
    <3>2. QED
      BY <2>4, <3>1
  <2>5. CASE before.quantity > 0
    <3>1. PICK low \in Nat, high \in Nat :
             /\ PaidPrice(d, u, s, low) /\ PaidPrice(d, u, s, high)
             /\ Below(low) <= before.averageCost /\ before.averageCost <= Above(high)
      BY <2>5 DEF Priced, PricedPosition
    <3> DEFINE least == IF Below(low) <= Below(price) THEN low ELSE price
               most == IF Above(high) >= Above(price) THEN high ELSE price
    <3>2. before.averageCost \in Nat
      BY <1>1 DEF Position
    <3> HIDE DEF Below, Above, before, after
    <3>3. /\ least \in Nat /\ most \in Nat
          /\ PaidPrice(e, u, s, least) /\ PaidPrice(e, u, s, most)
          /\ Below(least) <= Below(low) /\ Below(least) <= Below(price)
          /\ Above(high) <= Above(most) /\ Above(price) <= Above(most)
      BY <2>1, <2>2, <2>3, <3>1
    <3> HIDE DEF least, most
    <3>4. /\ Below(least) <= price /\ price <= Above(most)
          /\ Below(least) <= before.averageCost /\ before.averageCost <= Above(most)
      BY <2>2, <2>3, <3>1, <3>2, <3>3
    <3>5. \E l, h \in Nat : /\ PaidPrice(e, u, s, l) /\ PaidPrice(e, u, s, h)
                            /\ Below(l) <= after.averageCost
                            /\ after.averageCost <= Above(h)
      BY <2>4, <3>3, <3>4
    <3>6. QED
      BY <3>5 DEF Below, Above
  <2>6. CASE ~(before.quantity > 0)
    BY <2>1, <2>2, <2>3, <2>4, <2>6
  <2>7. QED
    BY <2>5, <2>6
<1>4. QED
  BY <1>2, <1>3 DEF Repriced

LEMMA PaidPricesStay ==
    ASSUME NEW d \in Database, NEW e, NEW u, NEW s, NEW price,
           PaidPrice(d, u, s, price),
           \/ e.orders = d.orders /\ e.trades = d.trades
           \/ \E o \in OrderIds : \/ OpensOrder(d, e, o)
                                  \/ DropsOrder(d, e, o)
                                  \/ FillsOrder(d, e, o)
    PROVE  PaidPrice(e, u, s, price)
<1>1. PICK p \in OrderIds : /\ d.orders[p].status = "EXECUTED"
                            /\ d.orders[p].user = u /\ d.orders[p].symbol = s
                            /\ d.orders[p].side = "BUY"
                            /\ d.trades[p][1].executionPrice = price
  BY DEF PaidPrice
<1>2. CASE e.orders = d.orders /\ e.trades = d.trades
  BY <1>1, <1>2 DEF PaidPrice
<1>3. CASE \E o \in OrderIds : \/ OpensOrder(d, e, o)
                               \/ DropsOrder(d, e, o)
                               \/ FillsOrder(d, e, o)
  <2>1. PICK o \in OrderIds : \/ OpensOrder(d, e, o)
                              \/ DropsOrder(d, e, o)
                              \/ FillsOrder(d, e, o)
    BY <1>3
  <2>2. d.orders[o].status # "EXECUTED"
    BY <2>1 DEF OpensOrder, DropsOrder, FillsOrder, NoOrder
  <2>3. p # o
    BY <1>1, <2>2
  <2>4. e.orders[p] = d.orders[p] /\ e.trades[p] = d.trades[p]
    BY <2>1, <2>3 DEF OpensOrder, DropsOrder, FillsOrder, OnlyOrder, Database
  <2>5. QED
    BY <1>1, <2>4 DEF PaidPrice
<1>4. QED
  BY <1>2, <1>3

LEMMA OneRepriced ==
    ASSUME NEW d \in Database, NEW e, NEW v \in Users, NEW s \in Symbols, NEW position,
           e.positions = [d.positions EXCEPT ![<<v, s>>] = position],
           Repriced(d, e, v, s)
    PROVE  \A u \in Users, t \in Symbols : Repriced(d, e, u, t)
<1> SUFFICES ASSUME NEW u \in Users, NEW t \in Symbols
             PROVE  Repriced(d, e, u, t)
  OBVIOUS
<1>1. CASE u = v /\ t = s
  BY <1>1
<1>2. CASE ~(u = v /\ t = s)
  BY <1>2 DEF Repriced, Database
<1>3. QED
  BY <1>1, <1>2

\* Shares reserved, released or sold leave the average cost alone.
LEMMA KeptAverage ==
    ASSUME NEW position \in Position, NEW q \in Nat, NEW order \in Order
    PROVE  \A after \in {Moved(position, 0, q), ReleaseShares(position, order),
                         Sold(position, q), Sold(ReleaseShares(position, order), q)} :
             after.quantity > 0 => /\ position.quantity > 0
                                   /\ after.averageCost = position.averageCost
BY DEF Moved, ReleaseShares, Sold, NoPosition, Position

LEMMA CreateSellRepriced ==
    ASSUME NEW d \in Database, NEW op \in CreateSellRequest
    PROVE  \A u \in Users, t \in Symbols : Repriced(d, CreateSell(d, op), u, t)
<1> DEFINE e == CreateSell(d, op)
           position == d.positions[<<op.user, op.symbol>>]
           after == Moved(position, 0, op.quantity)
<1>1. op.user \in Users /\ op.symbol \in Symbols /\ op.quantity \in Nat
  BY OrderRulesAssumption DEF CreateSellRequest
<1>2. e.positions = [d.positions EXCEPT ![<<op.user, op.symbol>>] = after]
  BY CreateSellEffect
<1>3. after.quantity > 0 => /\ position.quantity > 0
                            /\ after.averageCost = position.averageCost
  BY <1>1 DEF Moved, Position, Database
<1> HIDE DEF e, after
<1>4. Repriced(d, e, op.user, op.symbol)
  BY <1>1, <1>2, <1>3 DEF Repriced, Database
<1>5. \A u \in Users, t \in Symbols : Repriced(d, e, u, t)
  BY <1>1, <1>2, <1>4, OneRepriced
<1>6. QED
  BY <1>5 DEF e

LEMMA CancelledRepriced ==
    ASSUME NEW d \in Database, NEW op, op.order \in OrderIds,
           d.orders[op.order].status = "PENDING",
           NEW e, Cancelled(d, e, op)
    PROVE  \A u \in Users, t \in Symbols : Repriced(d, e, u, t)
<1> DEFINE order == d.orders[op.order]
           position == d.positions[<<order.user, order.symbol>>]
           after == ReleaseShares(position, order)
<1>1. order \in Order
  BY DEF Database, NoOrder
<1>2. order.user \in Users /\ order.symbol \in Symbols
  BY <1>1 DEF Order
<1>3. /\ after.quantity = position.quantity
      /\ after.averageCost = position.averageCost
  BY DEF ReleaseShares
<1>4. \/ e.positions = d.positions
      \/ e.positions = [d.positions EXCEPT ![<<order.user, order.symbol>>] = after]
  BY DEF Cancelled
<1> HIDE DEF order, after
<1>5. CASE e.positions = d.positions
  BY <1>5 DEF Repriced
<1>6. CASE e.positions = [d.positions EXCEPT ![<<order.user, order.symbol>>] = after]
  <2>1. Repriced(d, e, order.user, order.symbol)
    BY <1>2, <1>3, <1>6 DEF Repriced, Database
  <2>2. QED
    BY <1>2, <1>6, <2>1, OneRepriced
<1>7. QED
  BY <1>4, <1>5, <1>6

LEMMA FilledRepriced ==
    ASSUME NEW d \in Database, Settled(d), NEW op \in ExecuteRequest,
           d.orders[op.order].status = "PENDING",
           NEW e, Filled(d, e, op)
    PROVE  \A u \in Users, t \in Symbols : Repriced(d, e, u, t)
<1> DEFINE order == d.orders[op.order]
           v == order.user
           s == order.symbol
           position == d.positions[<<v, s>>]
           filled == [order EXCEPT !.status = "EXECUTED"]
           trade == NewTrade(v, s, order.side, order.quantity, op)
           bought == Bought(position, order.quantity, op.price)
           sold == Sold(ReleaseShares(position, order), order.quantity)
<1>1. op.order \in OrderIds /\ order \in Order /\ op.price \in Prices
  BY DEF Database, NoOrder, ExecuteRequest
<1>2. /\ v \in Users /\ s \in Symbols
      /\ order.quantity \in Quantities /\ order.quantity \in Nat
  BY <1>1, OrderRulesAssumption DEF Order
<1>3. position \in Position
  BY <1>2 DEF Database
<1>4. /\ filled.status = "EXECUTED" /\ filled.user = v
      /\ filled.symbol = s /\ filled.side = order.side
  BY <1>1 DEF Order
<1>5. trade.executionPrice = op.price
  BY DEF NewTrade
<1>6. /\ e.orders = [d.orders EXCEPT ![op.order] = filled]
      /\ e.trades = [d.trades EXCEPT ![op.order] = Append(d.trades[op.order], trade)]
  BY DEF Filled
<1>7. d.trades[op.order] = <<>>
  BY <1>1 DEF Settled
<1>8. \/ order.side = "BUY" /\ e.positions = [d.positions EXCEPT ![<<v, s>>] = bought]
      \/ e.positions = [d.positions EXCEPT ![<<v, s>>] = sold]
  BY DEF Filled, FilledBuy, FilledSell
<1>9. sold.quantity > 0 => /\ position.quantity > 0
                           /\ sold.averageCost = position.averageCost
  BY <1>1, <1>2, <1>3, KeptAverage
<1> HIDE DEF order, v, s, filled, trade, bought, sold
<1>10. CASE order.side = "BUY" /\ e.positions = [d.positions EXCEPT ![<<v, s>>] = bought]
  <2>1. e.orders[op.order] = filled /\ e.trades[op.order] = <<trade>>
    BY <1>1, <1>6, <1>7 DEF Database
  <2>2. PaidPrice(e, v, s, op.price)
    BY <1>1, <1>4, <1>5, <1>10, <2>1 DEF PaidPrice
  <2>3. e.positions[<<v, s>>] = Bought(position, order.quantity, op.price)
    BY <1>2, <1>10 DEF Database, bought
  <2>4. Repriced(d, e, v, s)
    BY <1>1, <1>2, <2>2, <2>3 DEF Repriced
  <2>5. QED
    BY <1>2, <1>10, <2>4, OneRepriced
<1>11. CASE e.positions = [d.positions EXCEPT ![<<v, s>>] = sold]
  <2>1. Repriced(d, e, v, s)
    BY <1>2, <1>9, <1>11 DEF Repriced, Database
  <2>2. QED
    BY <1>2, <1>11, <2>1, OneRepriced
<1>12. QED
  BY <1>8, <1>10, <1>11

LEMMA MarketBuyRepriced ==
    ASSUME NEW d \in Database, Settled(d), NEW op \in MarketRequest, CanMarketBuy(d, op)
    PROVE  \A u \in Users, t \in Symbols : Repriced(d, MarketBuy(d, op), u, t)
<1> DEFINE e == MarketBuy(d, op)
           position == d.positions[<<op.user, op.symbol>>]
           bought == Bought(position, op.quantity, op.price)
           order == NewOrder(op, "BUY", "MARKET", 0, "EXECUTED", 0)
           trade == NewTrade(op.user, op.symbol, "BUY", op.quantity, op)
<1>1. /\ op.order \in OrderIds /\ op.user \in Users /\ op.symbol \in Symbols
      /\ op.quantity \in Quantities /\ op.price \in Prices
      /\ d.orders[op.order] = NoOrder
  BY DEF MarketRequest, CanMarketBuy
<1>2. /\ order.status = "EXECUTED" /\ order.user = op.user
      /\ order.symbol = op.symbol /\ order.side = "BUY"
      /\ trade.executionPrice = op.price
  BY DEF NewOrder, NewTrade
<1>3. /\ e.positions = [d.positions EXCEPT ![<<op.user, op.symbol>>] = bought]
      /\ e.orders = [d.orders EXCEPT ![op.order] = order]
      /\ e.trades = [d.trades EXCEPT ![op.order] = Append(d.trades[op.order], trade)]
  BY MarketBuyEffect
<1>4. d.trades[op.order] = <<>>
  BY <1>1 DEF Settled, NoOrder
<1> HIDE DEF e, bought, order, trade
<1>5. e.orders[op.order] = order /\ e.trades[op.order] = <<trade>>
  BY <1>1, <1>3, <1>4 DEF Database
<1>6. PaidPrice(e, op.user, op.symbol, op.price)
  BY <1>1, <1>2, <1>5 DEF PaidPrice
<1>7. e.positions[<<op.user, op.symbol>>] = Bought(position, op.quantity, op.price)
  BY <1>1, <1>3 DEF Database, bought
<1>8. Repriced(d, e, op.user, op.symbol)
  BY <1>1, <1>6, <1>7 DEF Repriced
<1>9. \A u \in Users, t \in Symbols : Repriced(d, e, u, t)
  BY <1>1, <1>3, <1>8, OneRepriced
<1>10. QED
  BY <1>9 DEF e

LEMMA MarketSellRepriced ==
    ASSUME NEW d \in Database, NEW op \in MarketRequest
    PROVE  \A u \in Users, t \in Symbols : Repriced(d, MarketSell(d, op), u, t)
<1> DEFINE e == MarketSell(d, op)
           position == d.positions[<<op.user, op.symbol>>]
           sold == Sold(position, op.quantity)
<1>1. op.user \in Users /\ op.symbol \in Symbols /\ op.quantity \in Nat
  BY OrderRulesAssumption DEF MarketRequest
<1>2. e.positions = [d.positions EXCEPT ![<<op.user, op.symbol>>] = sold]
  BY MarketSellEffect
<1>3. position \in Position
  BY <1>1 DEF Database
<1>4. sold.quantity > 0 => /\ position.quantity > 0
                           /\ sold.averageCost = position.averageCost
  <2> HIDE DEF position
  <2>1. QED
    BY <1>1, <1>3 DEF Sold, Moved, NoPosition, Position
<1> HIDE DEF e, sold
<1>5. Repriced(d, e, op.user, op.symbol)
  BY <1>1, <1>2, <1>4 DEF Repriced, Database
<1>6. \A u \in Users, t \in Symbols : Repriced(d, e, u, t)
  BY <1>1, <1>2, <1>5, OneRepriced
<1>7. QED
  BY <1>6 DEF e

LEMMA StepRepriced ==
    ASSUME db \in Database, Settled(db), Next
    PROVE  \A u \in Users, t \in Symbols : Repriced(db, db', u, t)
<1>1. CASE CreateBuyOrder
  BY <1>1, CreateBuyOpens DEF CreateBuyOrder, Repriced
<1>2. CASE CreateSellOrder
  BY <1>2, CreateSellRepriced DEF CreateSellOrder
<1>3. CASE Cancel
  <2>1. PICK op \in CancelRequest : CanCancel(db, op) /\ db' = CancelOrder(db, op)
    BY <1>3 DEF Cancel
  <2>2. \/ db' = db
        \/ db.orders[op.order].status = "PENDING" /\ Cancelled(db, db', op)
    BY <2>1, CancelEffect
  <2>3. CASE db' = db
    BY <2>3 DEF Repriced
  <2>4. QED
    BY <2>2, <2>3, CancelledRepriced DEF CancelRequest
<1>4. CASE Execute
  <2>1. PICK op \in ExecuteRequest : CanExecute(db, op) /\ db' = ExecuteOrder(db, op)
    BY <1>4 DEF Execute
  <2>2. op.order \in OrderIds /\ db.orders[op.order].status = "PENDING"
    BY <2>1 DEF ExecuteRequest, CanExecute
  <2>3. QED
    BY <2>1, <2>2, ExecuteEffect, CancelledRepriced, FilledRepriced
<1>5. CASE BuyAtMarket
  BY <1>5, MarketBuyRepriced DEF BuyAtMarket
<1>6. CASE SellAtMarket
  BY <1>6, MarketSellRepriced DEF SellAtMarket
<1>7. CASE List \/ Delist
  <2>1. db'.positions = db.positions
    BY <1>7 DEF List, Delist, CreateStock, DeleteStock, Database
  <2>2. QED
    BY <2>1 DEF Repriced
<1>8. QED
  BY <1>1, <1>2, <1>3, <1>4, <1>5, <1>6, <1>7 DEF Next

PricedInvariant == LedgerInvariant /\ Priced(db)

LEMMA PricedStep == PricedInvariant /\ [Next]_db => Priced(db')
<1> SUFFICES ASSUME PricedInvariant, [Next]_db
             PROVE  Priced(db')
  OBVIOUS
<1>1. db \in Database /\ Settled(db) /\ Priced(db)
  BY DEF PricedInvariant, LedgerInvariant, TypeOK
<1>2. CASE UNCHANGED db
  BY <1>1, <1>2
<1>3. CASE Next
  <2>1. \A u \in Users, t \in Symbols : Repriced(db, db', u, t)
    BY <1>1, <1>3, StepRepriced
  <2>2. \/ db'.orders = db.orders /\ db'.trades = db.trades
        \/ \E o \in OrderIds : \/ OpensOrder(db, db', o)
                               \/ DropsOrder(db, db', o)
                               \/ FillsOrder(db, db', o)
    BY <1>1, <1>3, RecordSteps
  <2>3. \A u, s, price : PaidPrice(db, u, s, price) => PaidPrice(db', u, s, price)
    BY <1>1, <2>2, PaidPricesStay
  <2>4. QED
    BY <1>1, <2>1, <2>3, PricedKept DEF Priced
<1>4. QED
  BY <1>2, <1>3

LEMMA PricedInvariance == Spec => []PricedInvariant
<1>1. Init => PricedInvariant
  <2>1. Init => Priced(db)
    <3> SUFFICES ASSUME Init, NEW u \in Users, NEW s \in Symbols
                 PROVE  PricedPosition(db, u, s)
      BY DEF Priced
    <3>1. db.positions = [h \in Users \X Symbols |-> NoPosition]
      BY DEF Init, InitialDatabase
    <3>2. db.positions[<<u, s>>].quantity = 0
      BY <3>1 DEF NoPosition
    <3>3. QED
      BY <3>2 DEF PricedPosition
  <2>2. QED
    BY <2>1, InitialInvariant DEF PricedInvariant
<1>2. PricedInvariant /\ [Next]_db => PricedInvariant'
  <2>1. PricedInvariant /\ [Next]_db => LedgerInvariant' /\ Priced(db')
    BY InvariantStep, PricedStep DEF PricedInvariant
  <2>2. LedgerInvariant' /\ Priced(db') => PricedInvariant'
    BY DEF PricedInvariant, Priced, PricedPosition, PaidPrice
  <2>3. QED
    BY <2>1, <2>2
<1>3. QED
  BY <1>1, <1>2, PTL DEF Spec

\* Gross amounts and averages are rounded at every purchase, the first price is
\* stored as it is, and the average cost never drifts more than to the next whole
\* cent outside the prices its user paid for the stock.
THEOREM LedgerAverageWithinACent == Spec => []AverageWithinACent
<1>1. PricedInvariant => AverageWithinACent
  <2> SUFFICES ASSUME PricedInvariant, NEW u \in Users, NEW s \in Symbols,
                      db.positions[<<u, s>>].quantity > 0
               PROVE  LET buys == {k \in TradesOf(u) : TradeAt(k).symbol = s
                                                       /\ TradeAt(k).side = "BUY"}
                      IN  \E low, high \in buys :
                             /\ PriceScale * CentsBelow(TradeAt(low).executionPrice)
                                    <= db.positions[<<u, s>>].averageCost
                             /\ db.positions[<<u, s>>].averageCost
                                    <= PriceScale * CentsAbove(TradeAt(high).executionPrice)
    BY DEF AverageWithinACent
  <2>1. db \in Database /\ Settled(db)
    BY DEF PricedInvariant, LedgerInvariant, TypeOK
  <2> DEFINE buys == {k \in TradesOf(u) : TradeAt(k).symbol = s /\ TradeAt(k).side = "BUY"}
             average == db.positions[<<u, s>>].averageCost
  <2>2. PICK low \in Nat, high \in Nat :
          /\ PaidPrice(db, u, s, low) /\ PaidPrice(db, u, s, high)
          /\ PriceScale * CentsBelow(low) <= average /\ average <= PriceScale * CentsAbove(high)
    BY DEF PricedInvariant, Priced, PricedPosition
  <2>3. ASSUME NEW price, PaidPrice(db, u, s, price)
        PROVE  \E k \in buys : TradeAt(k).executionPrice = price
    <3>1. PICK o \in OrderIds :
            /\ db.orders[o].status = "EXECUTED"
            /\ db.orders[o].user = u /\ db.orders[o].symbol = s /\ db.orders[o].side = "BUY"
            /\ db.trades[o][1].executionPrice = price
      BY <2>3 DEF PaidPrice
    <3>2. TradeAt(<<o, 1>>) = db.trades[o][1]
      BY DEF TradeAt
    <3>3. <<o, 1>> \in buys
      BY <2>1, <3>1, <3>2, TradeKeys
    <3>4. QED
      BY <3>1, <3>2, <3>3
  <2> HIDE DEF buys, average
  <2>4. \E l, h \in buys :
           /\ PriceScale * CentsBelow(TradeAt(l).executionPrice) <= average
           /\ average <= PriceScale * CentsAbove(TradeAt(h).executionPrice)
    BY <2>2, <2>3
  <2>5. QED
    BY <2>4 DEF buys, average
<1>2. QED
  BY <1>1, PricedInvariance, PTL
=============================================================================
