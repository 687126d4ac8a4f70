----------------------- MODULE OrderTransactionsProofs -----------------------
(***************************************************************************)
(* The transactions implement the ledger, for any number of concurrent     *)
(* requests, users, symbols and orders.                                    *)
(*                                                                         *)
(* The heart of the argument is SameEffect: a transaction whose written    *)
(* documents nobody else committed since its snapshot d does to the        *)
(* database b what its callback would do if it ran on b alone, although    *)
(* all it read was d and it may have read documents it does not write.     *)
(***************************************************************************)
EXTENDS OrderTransactions, OrderRulesProofs, SequenceTheorems

-----------------------------------------------------------------------------
(* Merging a transaction into the database *)

LEMMA NoNewTrades ==
    ASSUME NEW s \in Seq(Trade), NEW b \in Seq(Trade)
    PROVE  b \o SubSeq(s, Len(s) + 1, Len(s)) = b
<1>1. SubSeq(s, Len(s) + 1, Len(s)) = <<>>
  BY SubSeqEmpty
<1>2. QED
  BY <1>1

LEMMA OneNewTrade ==
    ASSUME NEW s \in Seq(Trade), NEW trade \in Trade
    PROVE  s \o SubSeq(Append(s, trade), Len(s) + 1, Len(Append(s, trade))) = Append(s, trade)
<1> DEFINE t == Append(s, trade)
<1>1. t \in Seq(Trade) /\ Len(t) = Len(s) + 1 /\ t[Len(t)] = trade
  BY AppendProperties
<1>2. SubSeq(t, Len(t), Len(t)) = <<trade>> \o <<>>
  <2> HIDE DEF t
  <2>1. SubSeq(t, Len(t), Len(t)) = <<t[Len(t)]>> \o SubSeq(t, Len(t) + 1, Len(t))
    BY <1>1, SubSeqRecursiveFirst
  <2>2. SubSeq(t, Len(t) + 1, Len(t)) = <<>>
    BY <1>1, SubSeqEmpty
  <2>3. QED
    BY <1>1, <2>1, <2>2
<1>3. t = s \o <<trade>>
  BY AppendIsConcat
<1>4. <<trade>> \o <<>> = <<trade>>
  OBVIOUS
<1>5. QED
  BY <1>1, <1>2, <1>3, <1>4

\* Database t is b with the documents w of e, and the trades new since d.
IsMerged(t, b, d, e, w) ==
    /\ \A u \in Users : t.users[u] = IF u \in w.users THEN e.users[u] ELSE b.users[u]
    /\ \A h \in Users \X Symbols :
           t.positions[h] = IF h \in w.positions THEN e.positions[h] ELSE b.positions[h]
    /\ \A o \in OrderIds : t.orders[o] = IF o \in w.orders THEN e.orders[o] ELSE b.orders[o]
    /\ \A o \in OrderIds :
           t.trades[o] = b.trades[o] \o SubSeq(e.trades[o], Len(d.trades[o]) + 1,
                                               Len(e.trades[o]))
    /\ \A s \in Symbols : t.stocks[s] = IF s \in w.stocks THEN e.stocks[s] ELSE b.stocks[s]

LEMMA MergedDocuments ==
    ASSUME NEW b, NEW d, NEW e, NEW t \in Database, NEW w, IsMerged(t, b, d, e, w)
    PROVE  Merged(b, d, e, w) = t
<1> DEFINE m == Merged(b, d, e, w)
<1>1. /\ t.users = [u \in Users |-> t.users[u]]
      /\ t.positions = [h \in Users \X Symbols |-> t.positions[h]]
      /\ t.orders = [o \in OrderIds |-> t.orders[o]]
      /\ t.trades = [o \in OrderIds |-> t.trades[o]]
      /\ t.stocks = [s \in Symbols |-> t.stocks[s]]
  BY DEF Database
<1>2. m.users = t.users
  BY <1>1 DEF IsMerged, Merged
<1>3. m.positions = t.positions
  BY <1>1 DEF IsMerged, Merged
<1>4. m.orders = t.orders
  BY <1>1 DEF IsMerged, Merged
<1>5. m.trades = t.trades
  BY <1>1 DEF IsMerged, Merged
<1>6. m.stocks = t.stocks
  BY <1>1 DEF IsMerged, Merged
<1>7. t = [users |-> t.users, positions |-> t.positions, orders |-> t.orders,
           trades |-> t.trades, stocks |-> t.stocks]
  BY DEF Database
<1>8. m = [users |-> m.users, positions |-> m.positions, orders |-> m.orders,
           trades |-> m.trades, stocks |-> m.stocks]
  BY DEF Merged
<1>9. QED
  BY <1>2, <1>3, <1>4, <1>5, <1>6, <1>7, <1>8

\* What a function becomes when one value of it changes.
OnlyAt(f, g, x) == g = [f EXCEPT ![x] = g[x]]

\* The value at x was written only if it changed.
WrittenAt(before, after, base, target, x) ==
    target[x] = IF after[x] # before[x] THEN after[x] ELSE base[x]

\* Only one user, position and order change in t, which is b otherwise.
OneOfEach(b, t, v, h, o) ==
    /\ OnlyAt(b.users, t.users, v)
    /\ OnlyAt(b.positions, t.positions, h)
    /\ OnlyAt(b.orders, t.orders, o)
    /\ OnlyAt(b.trades, t.trades, o)
    /\ t.stocks = b.stocks

\* What leads from d to e leads from b to t, where d and e differ.
SameChange(b, d, e, t, v, h, o) ==
    /\ OneOfEach(d, e, v, h, o) /\ OneOfEach(b, t, v, h, o)
    /\ WrittenAt(d.users, e.users, b.users, t.users, v)
    /\ WrittenAt(d.positions, e.positions, b.positions, t.positions, h)
    /\ t.orders[o] = e.orders[o]
    /\ e.trades[o] = t.trades[o]
    /\ \/ e.trades = d.trades
       \/ \E trade \in Trade : e.trades[o] = Append(d.trades[o], trade)

\* The documents a transaction on order o writes, listings apart.
WritesOf(d, e, w, o) ==
    /\ w.users = {u \in Users : e.users[u] # d.users[u]}
    /\ w.positions = {k \in Users \X Symbols : e.positions[k] # d.positions[k]}
    /\ w.orders = {o}

\* A transaction that changes d to e at user v, holding h and order o only, and
\* leaves the listings as they are, does to b what changes it to t.
LEMMA MergedOne ==
    ASSUME NEW b \in Database, NEW d \in Database, NEW e \in Database, NEW t \in Database,
           NEW v \in Users, NEW h \in Users \X Symbols, NEW o \in OrderIds,
           NEW w, WritesOf(d, e, w, o), SameChange(b, d, e, t, v, h, o),
           d.trades[o] = b.trades[o],
           \A s \in w.stocks : d.stocks[s] = b.stocks[s]
    PROVE  Merged(b, d, e, w) = t
<1>0. /\ OnlyAt(d.users, e.users, v) /\ OnlyAt(b.users, t.users, v)
      /\ OnlyAt(d.positions, e.positions, h) /\ OnlyAt(b.positions, t.positions, h)
      /\ OnlyAt(b.orders, t.orders, o)
      /\ OnlyAt(d.trades, e.trades, o) /\ OnlyAt(b.trades, t.trades, o)
      /\ e.stocks = d.stocks /\ t.stocks = b.stocks
  BY DEF SameChange, OneOfEach
<1>1. \A u \in Users : t.users[u] = IF u \in w.users THEN e.users[u] ELSE b.users[u]
  BY <1>0 DEF OnlyAt, WrittenAt, WritesOf, SameChange, Database
<1>2. \A k \in Users \X Symbols :
          t.positions[k] = IF k \in w.positions THEN e.positions[k] ELSE b.positions[k]
  BY <1>0 DEF OnlyAt, WrittenAt, WritesOf, SameChange, Database
<1>3. \A p \in OrderIds : t.orders[p] = IF p \in w.orders THEN e.orders[p] ELSE b.orders[p]
  BY <1>0 DEF OnlyAt, WritesOf, SameChange, Database
<1>4. ASSUME NEW p \in OrderIds
      PROVE  t.trades[p] = b.trades[p] \o SubSeq(e.trades[p], Len(d.trades[p]) + 1,
                                                 Len(e.trades[p]))
  <2>1. d.trades[p] \in Seq(Trade) /\ b.trades[p] \in Seq(Trade)
    BY DEF Database
  <2>2. CASE e.trades[p] = d.trades[p]
    <3>1. t.trades[p] = b.trades[p]
      BY <1>0, <2>2 DEF OnlyAt, SameChange, Database
    <3>2. QED
      BY <2>1, <2>2, <3>1, NoNewTrades
  <2>3. CASE p = o /\ \E trade \in Trade : e.trades[o] = Append(d.trades[o], trade)
    <3>1. PICK trade \in Trade : e.trades[o] = Append(d.trades[o], trade)
      BY <2>3
    <3>2. QED
      BY <2>1, <2>3, <3>1, OneNewTrade DEF SameChange
  <2>4. QED
    BY <1>0, <2>2, <2>3 DEF OnlyAt, SameChange, Database
<1>5. \A p \in OrderIds :
          t.trades[p] = b.trades[p] \o SubSeq(e.trades[p], Len(d.trades[p]) + 1,
                                              Len(e.trades[p]))
  BY <1>4
<1>6. \A s \in Symbols : t.stocks[s] = IF s \in w.stocks THEN e.stocks[s] ELSE b.stocks[s]
  BY <1>0
<1>7. IsMerged(t, b, d, e, w)
  BY <1>1, <1>2, <1>3, <1>5, <1>6 DEF IsMerged
<1>8. QED
  BY <1>7, MergedDocuments

-----------------------------------------------------------------------------
(* Each callback does the same on the database as on its snapshot *)

\* What w names is in b as it was in d.
Undisturbed(b, d, w) ==
    /\ \A u \in w.users : d.users[u] = b.users[u]
    /\ \A h \in w.positions : d.positions[h] = b.positions[h]
    /\ \A o \in w.orders : d.orders[o] = b.orders[o] /\ d.trades[o] = b.trades[o]
    /\ \A s \in w.stocks : d.stocks[s] = b.stocks[s]

\* The request can be served on b, and its transaction on d leaves there what
\* serving it on b would.
SameEffect(b, d, op) ==
    /\ Allowed(b, op)
    /\ Merged(b, d, After(d, op), Writes(d, op)) = After(b, op)

AboutAnOrder(op) == op.kind \notin {"CREATE_STOCK", "DELETE_STOCK"} /\ op.order \in OrderIds

\* What a request about an order changed of its user's account, it wrote.
LEMMA OrderWrites ==
    ASSUME NEW b, NEW d, NEW op, AboutAnOrder(op), Undisturbed(b, d, Writes(d, op)),
           NEW e, e = After(d, op)
    PROVE  /\ WritesOf(d, e, Writes(d, op), op.order)
           /\ d.orders[op.order] = b.orders[op.order] /\ d.trades[op.order] = b.trades[op.order]
           /\ \A v \in Users : e.users[v] # d.users[v] => d.users[v] = b.users[v]
           /\ \A h \in Users \X Symbols :
                  e.positions[h] # d.positions[h] => d.positions[h] = b.positions[h]
           /\ \A s \in Writes(d, op).stocks : d.stocks[s] = b.stocks[s]
<1>1. WritesOf(d, e, Writes(d, op), op.order)
  BY DEF WritesOf, Writes, TouchedOrders, AboutAnOrder
<1>2. QED
  BY <1>1 DEF Undisturbed, WritesOf

LEMMA MergedSame ==
    ASSUME NEW b \in Database, NEW d \in Database, NEW op, AboutAnOrder(op),
           Undisturbed(b, d, Writes(d, op)),
           NEW e \in Database, e = After(d, op), NEW t \in Database,
           NEW v \in Users, NEW h \in Users \X Symbols, SameChange(b, d, e, t, v, h, op.order)
    PROVE  Merged(b, d, e, Writes(d, op)) = t
<1> DEFINE w == Writes(d, op)
<1>1. /\ WritesOf(d, e, w, op.order)
      /\ d.trades[op.order] = b.trades[op.order]
      /\ \A s \in w.stocks : d.stocks[s] = b.stocks[s]
  BY OrderWrites
<1> HIDE DEF w
<1>2. Merged(b, d, e, w) = t
  BY <1>1, MergedOne DEF AboutAnOrder
<1>3. QED
  BY <1>2 DEF w

LEMMA CreateBuyAt ==
    ASSUME NEW c \in Database, NEW op \in CreateBuyRequest, NEW e, e = CreateBuy(c, op)
    PROVE  /\ OneOfEach(c, e, op.user, <<op.user, op.symbol>>, op.order)
           /\ e.users[op.user] = Adjusted(c.users[op.user], -Reservation(op), Reservation(op))
           /\ e.positions = c.positions /\ e.trades = c.trades
           /\ e.orders[op.order] =
                  NewOrder(op, "BUY", "LIMIT", op.limitPrice, "PENDING", Reservation(op))
<1> DEFINE amount == Reservation(op)
<1>1. /\ e = [c EXCEPT !.users = e.users, !.orders = e.orders]
      /\ e.users = [c.users EXCEPT ![op.user] = Adjusted(c.users[op.user], -amount, amount)]
      /\ e.orders = [c.orders EXCEPT ![op.order] =
                        NewOrder(op, "BUY", "LIMIT", op.limitPrice, "PENDING", amount)]
  BY CreateBuyEffect
<1>2. op.user \in Users /\ op.symbol \in Symbols /\ op.order \in OrderIds
  BY DEF CreateBuyRequest
<1> HIDE DEF amount
<1>3. e.positions = c.positions /\ e.trades = c.trades /\ e.stocks = c.stocks
  BY <1>1 DEF Database
<1>4. /\ e.users[op.user] = Adjusted(c.users[op.user], -amount, amount)
      /\ e.orders[op.order] = NewOrder(op, "BUY", "LIMIT", op.limitPrice, "PENDING", amount)
  BY <1>1, <1>2 DEF Database
<1>5. OneOfEach(c, e, op.user, <<op.user, op.symbol>>, op.order)
  BY <1>1, <1>2, <1>3, <1>4 DEF OneOfEach, OnlyAt, Database
<1>6. QED
  BY <1>3, <1>4, <1>5 DEF amount

LEMMA CreateBuySame ==
    ASSUME NEW b \in Database, NEW d \in Database, NEW op \in CreateBuyRequest,
           CanCreateBuy(d, op), Undisturbed(b, d, Writes(d, op))
    PROVE  SameEffect(b, d, op)
<1> DEFINE e == CreateBuy(d, op)
           t == CreateBuy(b, op)
           v == op.user
           h == <<op.user, op.symbol>>
           o == op.order
           amount == Reservation(op)
<1>1. /\ v \in Users /\ h \in Users \X Symbols /\ o \in OrderIds
      /\ op.kind = "CREATE_BUY" /\ amount \in Nat
  BY ReservationNat DEF CreateBuyRequest
<1>2. /\ e = After(d, op) /\ t = After(b, op) /\ (CanCreateBuy(b, op) <=> Allowed(b, op))
      /\ AboutAnOrder(op)
  BY <1>1 DEF After, Allowed, AboutAnOrder
<1>3. e \in Database
  BY CreateBuyTypeOK
<1>4. /\ OneOfEach(d, e, v, h, o) /\ OneOfEach(b, t, v, h, o)
      /\ e.users[v] = Adjusted(d.users[v], -amount, amount)
      /\ t.users[v] = Adjusted(b.users[v], -amount, amount)
      /\ e.positions = d.positions /\ e.trades = d.trades
      /\ t.positions = b.positions /\ t.trades = b.trades
      /\ t.orders[o] = e.orders[o]
  BY CreateBuyAt
<1>5. op.symbol \in Writes(d, op).stocks
  BY <1>1 DEF Writes, TouchedStocks
<1>6. /\ d.orders[o] = b.orders[o] /\ d.trades[o] = b.trades[o]
      /\ e.users[v] # d.users[v] => d.users[v] = b.users[v]
      /\ d.stocks[op.symbol] = b.stocks[op.symbol]
  BY <1>1, <1>2, <1>5, OrderWrites
<1>7. d.users[v] \in User /\ b.users[v] \in User
  BY <1>1 DEF Database
<1> HIDE DEF amount, e, t, v, h
<1>8. amount # 0 => d.users[v] = b.users[v]
  BY <1>1, <1>4, <1>6, <1>7 DEF Adjusted, User
<1>9. amount = 0 => e.users[v] = d.users[v] /\ t.users[v] = b.users[v]
  BY <1>4, <1>7 DEF Adjusted, User
<1>10. CanCreateBuy(b, op)
  BY <1>6, <1>7, <1>8, <1>1 DEF CanCreateBuy, Listed, User, v, amount
<1>11. t \in Database
  BY <1>10, CreateBuyTypeOK DEF t
<1>12. SameChange(b, d, e, t, v, h, o)
  BY <1>4, <1>6, <1>8, <1>9 DEF SameChange, WrittenAt
<1>13. Merged(b, d, e, Writes(d, op)) = t
  BY <1>1, <1>2, <1>3, <1>11, <1>12, MergedSame
<1>14. QED
  BY <1>2, <1>10, <1>13 DEF SameEffect

LEMMA CreateSellAt ==
    ASSUME NEW c \in Database, NEW op \in CreateSellRequest, NEW e, e = CreateSell(c, op)
    PROVE  /\ OneOfEach(c, e, op.user, <<op.user, op.symbol>>, op.order)
           /\ e.positions[<<op.user, op.symbol>>] =
                  Moved(c.positions[<<op.user, op.symbol>>], 0, op.quantity)
           /\ e.users = c.users /\ e.trades = c.trades
           /\ e.orders[op.order] =
                  NewOrder(op, "SELL", "LIMIT", op.limitPrice, "PENDING", 0)
<1> DEFINE h == <<op.user, op.symbol>>
<1>1. /\ e = [c EXCEPT !.positions = e.positions, !.orders = e.orders]
      /\ e.positions = [c.positions EXCEPT ![h] = Moved(c.positions[h], 0, op.quantity)]
      /\ e.orders = [c.orders EXCEPT ![op.order] =
                        NewOrder(op, "SELL", "LIMIT", op.limitPrice, "PENDING", 0)]
  BY CreateSellEffect
<1>2. op.user \in Users /\ h \in Users \X Symbols /\ op.order \in OrderIds
  BY DEF CreateSellRequest
<1> HIDE DEF h
<1>3. e.users = c.users /\ e.trades = c.trades /\ e.stocks = c.stocks
  BY <1>1 DEF Database
<1>4. /\ e.positions[h] = Moved(c.positions[h], 0, op.quantity)
      /\ e.orders[op.order] = NewOrder(op, "SELL", "LIMIT", op.limitPrice, "PENDING", 0)
  BY <1>1, <1>2 DEF Database
<1>5. OneOfEach(c, e, op.user, h, op.order)
  BY <1>1, <1>2, <1>3, <1>4 DEF OneOfEach, OnlyAt, Database
<1>6. QED
  BY <1>3, <1>4, <1>5 DEF h

LEMMA CreateSellSame ==
    ASSUME NEW b \in Database, NEW d \in Database, NEW op \in CreateSellRequest,
           CanCreateSell(d, op), Undisturbed(b, d, Writes(d, op))
    PROVE  SameEffect(b, d, op)
<1> DEFINE e == CreateSell(d, op)
           t == CreateSell(b, op)
           v == op.user
           h == <<op.user, op.symbol>>
           o == op.order
<1>1. /\ v \in Users /\ h \in Users \X Symbols /\ o \in OrderIds
      /\ op.kind = "CREATE_SELL" /\ op.quantity \in Nat /\ op.quantity > 0
  BY OrderRulesAssumption DEF CreateSellRequest
<1>2. /\ e = After(d, op) /\ t = After(b, op) /\ (CanCreateSell(b, op) <=> Allowed(b, op))
      /\ AboutAnOrder(op)
  BY <1>1 DEF After, Allowed, AboutAnOrder
<1>3. e \in Database
  BY CreateSellTypeOK
<1>4. /\ OneOfEach(d, e, v, h, o) /\ OneOfEach(b, t, v, h, o)
      /\ e.positions[h] = Moved(d.positions[h], 0, op.quantity)
      /\ t.positions[h] = Moved(b.positions[h], 0, op.quantity)
      /\ e.users = d.users /\ e.trades = d.trades
      /\ t.users = b.users /\ t.trades = b.trades
      /\ t.orders[o] = e.orders[o]
  BY CreateSellAt
<1>5. op.symbol \in Writes(d, op).stocks
  BY <1>1 DEF Writes, TouchedStocks
<1>6. /\ d.orders[o] = b.orders[o] /\ d.trades[o] = b.trades[o]
      /\ e.positions[h] # d.positions[h] => d.positions[h] = b.positions[h]
      /\ d.stocks[op.symbol] = b.stocks[op.symbol]
  BY <1>1, <1>2, <1>5, OrderWrites
<1>7. d.positions[h] \in Position
  BY <1>1 DEF Database
<1> HIDE DEF e, t, v, h
<1>8. d.positions[h] = b.positions[h]
  BY <1>1, <1>4, <1>6, <1>7 DEF Moved, Position
<1>9. CanCreateSell(b, op)
  BY <1>6, <1>8 DEF CanCreateSell, Listed, h
<1>10. t \in Database
  BY <1>9, CreateSellTypeOK DEF t
<1>11. SameChange(b, d, e, t, v, h, o)
  BY <1>4, <1>6, <1>8 DEF SameChange, WrittenAt
<1>12. Merged(b, d, e, Writes(d, op)) = t
  BY <1>1, <1>2, <1>3, <1>10, <1>11, MergedSame
<1>13. QED
  BY <1>2, <1>9, <1>12 DEF SameEffect

LEMMA MarketBuyAt ==
    ASSUME NEW c \in Database, NEW op \in MarketRequest, NEW e, e = MarketBuy(c, op)
    PROVE  /\ OneOfEach(c, e, op.user, <<op.user, op.symbol>>, op.order)
           /\ e.users[op.user] = Adjusted(c.users[op.user], -CostClp(op.quantity, op), 0)
           /\ e.positions[<<op.user, op.symbol>>] =
                  Bought(c.positions[<<op.user, op.symbol>>], op.quantity, op.price)
           /\ e.orders[op.order] = NewOrder(op, "BUY", "MARKET", 0, "EXECUTED", 0)
           /\ e.trades[op.order] = Append(c.trades[op.order],
                                          NewTrade(op.user, op.symbol, "BUY", op.quantity, op))
<1> DEFINE h == <<op.user, op.symbol>>
           user == Adjusted(c.users[op.user], -CostClp(op.quantity, op), 0)
           position == Bought(c.positions[h], op.quantity, op.price)
           order == NewOrder(op, "BUY", "MARKET", 0, "EXECUTED", 0)
           trades == Append(c.trades[op.order],
                            NewTrade(op.user, op.symbol, "BUY", op.quantity, op))
<1>1. /\ e = [c EXCEPT !.users = e.users, !.positions = e.positions,
                       !.orders = e.orders, !.trades = e.trades]
      /\ e.users = [c.users EXCEPT ![op.user] = user]
      /\ e.positions = [c.positions EXCEPT ![h] = position]
      /\ e.orders = [c.orders EXCEPT ![op.order] = order]
      /\ e.trades = [c.trades EXCEPT ![op.order] = trades]
  BY MarketBuyEffect
<1>2. op.user \in Users /\ h \in Users \X Symbols /\ op.order \in OrderIds
  BY DEF MarketRequest
<1> HIDE DEF h, user, position, order, trades
<1>3. e.stocks = c.stocks
  BY <1>1 DEF Database
<1>4. /\ e.users[op.user] = user /\ e.positions[h] = position
      /\ e.orders[op.order] = order /\ e.trades[op.order] = trades
  BY <1>1, <1>2 DEF Database
<1>5. OneOfEach(c, e, op.user, h, op.order)
  BY <1>1, <1>2, <1>3, <1>4 DEF OneOfEach, OnlyAt, Database
<1>6. QED
  BY <1>4, <1>5 DEF h, user, position, order, trades

LEMMA MarketBuySame ==
    ASSUME NEW b \in Database, NEW d \in Database, NEW op \in MarketRequest,
           op.kind = "MARKET_BUY", CanMarketBuy(d, op), Undisturbed(b, d, Writes(d, op))
    PROVE  SameEffect(b, d, op)
<1> DEFINE e == MarketBuy(d, op)
           t == MarketBuy(b, op)
           v == op.user
           h == <<op.user, op.symbol>>
           o == op.order
           cost == CostClp(op.quantity, op)
           trade == NewTrade(op.user, op.symbol, "BUY", op.quantity, op)
<1>1. /\ v \in Users /\ h \in Users \X Symbols /\ o \in OrderIds
      /\ op.quantity \in Quantities /\ op.quantity \in Nat /\ op.quantity > 0
      /\ op.price \in Prices
  BY OrderRulesAssumption DEF MarketRequest
<1>2. cost \in Nat /\ cost > 0 /\ trade \in Trade
  <2> DEFINE gross == GrossClp(op.quantity, op.price, op.fx)
  <2>1. /\ gross \in Nat /\ gross > 0 /\ cost = Cost(gross, op.rate)
        /\ op.rate \in Nat /\ op.rate <= 10000
    BY AmountsNat, OrderRulesAssumption
    DEF MarketRequest, CanMarketBuy, ValidMarketAmounts, CostClp
  <2>2. trade \in Trade
    BY NewTradeType DEF MarketRequest
  <2> HIDE DEF gross, cost
  <2>3. Commission(gross, op.rate) \in Nat
    BY <2>1, CommissionBound
  <2>4. QED
    BY <2>1, <2>2, <2>3 DEF Cost
<1>3. /\ e = After(d, op) /\ t = After(b, op) /\ (CanMarketBuy(b, op) <=> Allowed(b, op))
      /\ AboutAnOrder(op)
  BY <1>1 DEF After, Allowed, AboutAnOrder
<1>4. e \in Database
  BY MarketBuyTypeOK
<1>5. /\ OneOfEach(d, e, v, h, o) /\ OneOfEach(b, t, v, h, o)
      /\ e.users[v] = Adjusted(d.users[v], -cost, 0)
      /\ t.users[v] = Adjusted(b.users[v], -cost, 0)
      /\ e.positions[h] = Bought(d.positions[h], op.quantity, op.price)
      /\ t.positions[h] = Bought(b.positions[h], op.quantity, op.price)
      /\ t.orders[o] = e.orders[o]
      /\ e.trades[o] = Append(d.trades[o], trade) /\ t.trades[o] = Append(b.trades[o], trade)
  BY MarketBuyAt
<1>6. op.symbol \in Writes(d, op).stocks
  BY DEF Writes, TouchedStocks
<1>7. /\ d.orders[o] = b.orders[o] /\ d.trades[o] = b.trades[o]
      /\ e.users[v] # d.users[v] => d.users[v] = b.users[v]
      /\ e.positions[h] # d.positions[h] => d.positions[h] = b.positions[h]
      /\ d.stocks[op.symbol] = b.stocks[op.symbol]
  BY <1>1, <1>3, <1>6, OrderWrites
<1>8. d.users[v] \in User /\ d.positions[h] \in Position
  BY <1>1 DEF Database
<1> HIDE DEF cost, trade, e, t, v, h
<1>9. d.users[v] = b.users[v]
  BY <1>2, <1>5, <1>7, <1>8 DEF Adjusted, User
<1>10. d.positions[h] = b.positions[h]
  <2>1. e.positions[h].quantity = d.positions[h].quantity + op.quantity
    BY <1>1, <1>5, <1>8, BoughtType
  <2>2. QED
    BY <1>1, <1>7, <1>8, <2>1 DEF Position
<1>11. CanMarketBuy(b, op)
  BY <1>7, <1>9 DEF CanMarketBuy, Listed, v
<1>12. t \in Database
  BY <1>11, MarketBuyTypeOK DEF t
<1>13. SameChange(b, d, e, t, v, h, o)
  BY <1>2, <1>5, <1>7, <1>9, <1>10 DEF SameChange, WrittenAt
<1>14. Merged(b, d, e, Writes(d, op)) = t
  BY <1>1, <1>3, <1>4, <1>12, <1>13, MergedSame
<1>15. QED
  BY <1>3, <1>11, <1>14 DEF SameEffect

LEMMA MarketSellAt ==
    ASSUME NEW c \in Database, NEW op \in MarketRequest, NEW e, e = MarketSell(c, op)
    PROVE  /\ OneOfEach(c, e, op.user, <<op.user, op.symbol>>, op.order)
           /\ e.users[op.user] = Adjusted(c.users[op.user], ProceedsClp(op.quantity, op), 0)
           /\ e.positions[<<op.user, op.symbol>>] =
                  Sold(c.positions[<<op.user, op.symbol>>], op.quantity)
           /\ e.orders[op.order] = NewOrder(op, "SELL", "MARKET", 0, "EXECUTED", 0)
           /\ e.trades[op.order] = Append(c.trades[op.order],
                                          NewTrade(op.user, op.symbol, "SELL", op.quantity, op))
<1> DEFINE h == <<op.user, op.symbol>>
           user == Adjusted(c.users[op.user], ProceedsClp(op.quantity, op), 0)
           position == Sold(c.positions[h], op.quantity)
           order == NewOrder(op, "SELL", "MARKET", 0, "EXECUTED", 0)
           trades == Append(c.trades[op.order],
                            NewTrade(op.user, op.symbol, "SELL", op.quantity, op))
<1>1. /\ e = [c EXCEPT !.users = e.users, !.positions = e.positions,
                       !.orders = e.orders, !.trades = e.trades]
      /\ e.users = [c.users EXCEPT ![op.user] = user]
      /\ e.positions = [c.positions EXCEPT ![h] = position]
      /\ e.orders = [c.orders EXCEPT ![op.order] = order]
      /\ e.trades = [c.trades EXCEPT ![op.order] = trades]
  BY MarketSellEffect
<1>2. op.user \in Users /\ h \in Users \X Symbols /\ op.order \in OrderIds
  BY DEF MarketRequest
<1> HIDE DEF h, user, position, order, trades
<1>3. e.stocks = c.stocks
  BY <1>1 DEF Database
<1>4. /\ e.users[op.user] = user /\ e.positions[h] = position
      /\ e.orders[op.order] = order /\ e.trades[op.order] = trades
  BY <1>1, <1>2 DEF Database
<1>5. OneOfEach(c, e, op.user, h, op.order)
  BY <1>1, <1>2, <1>3, <1>4 DEF OneOfEach, OnlyAt, Database
<1>6. QED
  BY <1>4, <1>5 DEF h, user, position, order, trades

\* Selling changes a position that holds what is sold.
LEMMA SoldDiffers ==
    ASSUME NEW position \in Position, NEW q \in Nat, q > 0, position.quantity >= q
    PROVE  Sold(position, q) # position
<1>1. Sold(position, q).quantity # position.quantity
  BY DEF Sold, Moved, NoPosition, Position
<1>2. QED
  BY <1>1

LEMMA MarketSellSame ==
    ASSUME NEW b \in Database, NEW d \in Database, NEW op \in MarketRequest,
           op.kind = "MARKET_SELL", CanMarketSell(d, op), Undisturbed(b, d, Writes(d, op))
    PROVE  SameEffect(b, d, op)
<1> DEFINE e == MarketSell(d, op)
           t == MarketSell(b, op)
           v == op.user
           h == <<op.user, op.symbol>>
           o == op.order
           earned == ProceedsClp(op.quantity, op)
           trade == NewTrade(op.user, op.symbol, "SELL", op.quantity, op)
<1>1. /\ v \in Users /\ h \in Users \X Symbols /\ o \in OrderIds
      /\ op.quantity \in Nat /\ op.quantity > 0
  BY OrderRulesAssumption DEF MarketRequest
<1>2. trade \in Trade
  BY NewTradeType DEF MarketRequest
<1>3. /\ e = After(d, op) /\ t = After(b, op) /\ (CanMarketSell(b, op) <=> Allowed(b, op))
      /\ AboutAnOrder(op)
  BY <1>1 DEF After, Allowed, AboutAnOrder
<1>4. e \in Database
  BY MarketSellTypeOK
<1>5. /\ OneOfEach(d, e, v, h, o) /\ OneOfEach(b, t, v, h, o)
      /\ e.users[v] = Adjusted(d.users[v], earned, 0)
      /\ t.users[v] = Adjusted(b.users[v], earned, 0)
      /\ e.positions[h] = Sold(d.positions[h], op.quantity)
      /\ t.positions[h] = Sold(b.positions[h], op.quantity)
      /\ t.orders[o] = e.orders[o]
      /\ e.trades[o] = Append(d.trades[o], trade) /\ t.trades[o] = Append(b.trades[o], trade)
  BY MarketSellAt
<1>6. op.symbol \in Writes(d, op).stocks
  BY DEF Writes, TouchedStocks
<1>7. /\ d.orders[o] = b.orders[o] /\ d.trades[o] = b.trades[o]
      /\ e.users[v] # d.users[v] => d.users[v] = b.users[v]
      /\ e.positions[h] # d.positions[h] => d.positions[h] = b.positions[h]
      /\ d.stocks[op.symbol] = b.stocks[op.symbol]
  BY <1>1, <1>3, <1>6, OrderWrites
<1>8. /\ d.users[v] \in User /\ b.users[v] \in User /\ d.positions[h] \in Position
      /\ Free(d.positions[h]) >= op.quantity /\ earned \in Nat
  BY <1>1, AmountsNat DEF Database, CanMarketSell, MarketRequest, ProceedsClp
<1> HIDE DEF earned, trade, e, t, v, h
<1>9. \/ d.users[v] = b.users[v]
      \/ e.users[v] = d.users[v] /\ t.users[v] = b.users[v]
  BY <1>5, <1>7, <1>8 DEF Adjusted, User
<1>10. d.positions[h] = b.positions[h]
  <2>1. d.positions[h].quantity >= op.quantity
    BY <1>1, <1>8 DEF Free, Position
  <2>2. QED
    BY <1>1, <1>5, <1>7, <1>8, <2>1, SoldDiffers
<1>11. CanMarketSell(b, op)
  BY <1>7, <1>10 DEF CanMarketSell, Listed, h
<1>12. t \in Database
  BY <1>11, MarketSellTypeOK DEF t
<1>13. SameChange(b, d, e, t, v, h, o)
  BY <1>2, <1>5, <1>7, <1>9, <1>10 DEF SameChange, WrittenAt
<1>14. Merged(b, d, e, Writes(d, op)) = t
  BY <1>1, <1>3, <1>4, <1>12, <1>13, MergedSame
<1>15. QED
  BY <1>3, <1>11, <1>14 DEF SameEffect

-----------------------------------------------------------------------------
(* Requests about an order that exists *)

LEMMA PendingOrder ==
    ASSUME NEW d \in Database, NEW o \in OrderIds,
           d.orders[o].status \in {"PENDING", "CANCELLED"}
    PROVE  /\ d.orders[o] \in Order
           /\ d.orders[o].user \in Users
           /\ <<d.orders[o].user, d.orders[o].symbol>> \in Users \X Symbols
           /\ d.orders[o].quantity \in Nat /\ d.orders[o].quantity > 0
           /\ d.orders[o].reservedAmount \in Nat
  BY OrderRulesAssumption DEF Database, NoOrder, Order

\* Releasing a reservation of nothing changes nothing, any other is seen.
LEMMA ReleasedCash ==
    ASSUME NEW user \in User, NEW order, order.reservedAmount \in Nat
    PROVE  /\ order.reservedAmount = 0 => ReleaseCash(user, order) = user
           /\ order.reservedAmount > 0 /\ user.reservedBalance >= order.reservedAmount =>
                  ReleaseCash(user, order) # user
  BY DEF ReleaseCash, Adjusted, Lesser, User

LEMMA ReleasedShares ==
    ASSUME NEW position \in Position, NEW order, order.quantity \in Nat, order.quantity > 0,
           position.reservedQuantity >= order.quantity
    PROVE  ReleaseShares(position, order) # position
<1>1. ReleaseShares(position, order).reservedQuantity # position.reservedQuantity
  BY DEF ReleaseShares, AtLeastZero, Position
<1>2. QED
  BY <1>1

\* From c to e the order at o was cancelled, and what it had reserved released.
ReleasedFor(c, e, o, order) ==
    LET v == order.user
        h == <<order.user, order.symbol>>
    IN  /\ OneOfEach(c, e, v, h, o)
        /\ e.orders[o] = [order EXCEPT !.status = "CANCELLED"]
        /\ e.trades = c.trades
        /\ order.side = "BUY" => /\ e.users[v] = ReleaseCash(c.users[v], order)
                                 /\ e.positions = c.positions
        /\ order.side = "SELL" => /\ e.users = c.users
                                  /\ e.positions[h] = ReleaseShares(c.positions[h], order)

LEMMA CancelledAt ==
    ASSUME NEW c \in Database, NEW op, op.order \in OrderIds,
           c.orders[op.order].status = "PENDING", NEW e, Cancelled(c, e, op)
    PROVE  ReleasedFor(c, e, op.order, c.orders[op.order])
<1> DEFINE order == c.orders[op.order]
           v == order.user
           h == <<order.user, order.symbol>>
<1>1. order \in Order /\ v \in Users /\ h \in Users \X Symbols
  BY PendingOrder
<1>2. /\ e = [c EXCEPT !.users = e.users, !.positions = e.positions, !.orders = e.orders]
      /\ e.orders = [c.orders EXCEPT ![op.order] = [order EXCEPT !.status = "CANCELLED"]]
      /\ \/ /\ order.side = "BUY"
            /\ e.positions = c.positions
            /\ e.users = [c.users EXCEPT ![v] = ReleaseCash(c.users[v], order)]
         \/ /\ order.side = "SELL"
            /\ e.users = c.users
            /\ e.positions = [c.positions EXCEPT ![h] = ReleaseShares(c.positions[h], order)]
  BY DEF Cancelled
<1>3. e.trades = c.trades /\ e.stocks = c.stocks
  BY <1>2 DEF Database
<1>4. e.orders[op.order] = [order EXCEPT !.status = "CANCELLED"]
  BY <1>2 DEF Database
<1> HIDE DEF v, h, order
<1>5. CASE order.side = "BUY"
  <2>1. e.users[v] = ReleaseCash(c.users[v], order) /\ e.positions = c.positions
    BY <1>1, <1>2, <1>5 DEF Database
  <2>2. OneOfEach(c, e, v, h, op.order)
    BY <1>1, <1>2, <1>3, <1>4, <1>5, <2>1 DEF OneOfEach, OnlyAt, Database
  <2>3. QED
    BY <1>3, <1>4, <1>5, <2>1, <2>2 DEF v, h, order, ReleasedFor
<1>6. CASE order.side = "SELL"
  <2>1. e.users = c.users /\ e.positions[h] = ReleaseShares(c.positions[h], order)
    BY <1>1, <1>2, <1>6 DEF Database
  <2>2. OneOfEach(c, e, v, h, op.order)
    BY <1>1, <1>2, <1>3, <1>4, <1>6, <2>1 DEF OneOfEach, OnlyAt, Database
  <2>3. QED
    BY <1>3, <1>4, <1>6, <2>1, <2>2 DEF v, h, order, ReleasedFor
<1>7. QED
  BY <1>2, <1>5, <1>6

\* A cancellation, asked for or defensive, merges as a cancellation.
LEMMA CancelledMerges ==
    ASSUME NEW b \in Database, NEW d \in Database, NEW op, AboutAnOrder(op),
           Undisturbed(b, d, Writes(d, op)), Deliverable(d),
           d.orders[op.order].status = "PENDING",
           NEW e \in Database, e = After(d, op), Cancelled(d, e, op),
           NEW t \in Database, Cancelled(b, t, op)
    PROVE  Merged(b, d, e, Writes(d, op)) = t
<1> DEFINE o == op.order
           order == d.orders[o]
           v == order.user
           h == <<order.user, order.symbol>>
<1>1. o \in OrderIds
  BY DEF AboutAnOrder
<1>2. /\ b.orders[o] = order /\ d.trades[o] = b.trades[o]
      /\ \A u \in Users : e.users[u] # d.users[u] => d.users[u] = b.users[u]
      /\ \A k \in Users \X Symbols :
             e.positions[k] # d.positions[k] => d.positions[k] = b.positions[k]
  BY OrderWrites
<1>3. /\ order \in Order /\ v \in Users /\ h \in Users \X Symbols
      /\ order.quantity \in Nat /\ order.quantity > 0 /\ order.reservedAmount \in Nat
  BY <1>1, PendingOrder
<1>4. /\ OneOfEach(d, e, v, h, o)
      /\ e.orders[o] = [order EXCEPT !.status = "CANCELLED"]
      /\ e.trades = d.trades
      /\ order.side = "BUY" => /\ e.users[v] = ReleaseCash(d.users[v], order)
                               /\ e.positions = d.positions
      /\ order.side = "SELL" => /\ e.users = d.users
                                /\ e.positions[h] = ReleaseShares(d.positions[h], order)
  <2>1. ReleasedFor(d, e, o, order)
    BY <1>1, CancelledAt
  <2>2. QED
    BY <2>1 DEF ReleasedFor
<1>5. /\ OneOfEach(b, t, v, h, o)
      /\ t.orders[o] = [order EXCEPT !.status = "CANCELLED"]
      /\ t.trades = b.trades
      /\ order.side = "BUY" => /\ t.users[v] = ReleaseCash(b.users[v], order)
                               /\ t.positions = b.positions
      /\ order.side = "SELL" => /\ t.users = b.users
                                /\ t.positions[h] = ReleaseShares(b.positions[h], order)
  <2>1. b.orders[op.order].status = "PENDING"
    BY <1>2
  <2>2. ReleasedFor(b, t, op.order, b.orders[op.order])
    BY <1>1, <2>1, CancelledAt
  <2>3. ReleasedFor(b, t, o, order)
    BY <1>2, <2>2
  <2>4. QED
    BY <2>3 DEF ReleasedFor
<1>6. /\ order.side = "BUY" => d.users[v].reservedBalance >= order.reservedAmount
      /\ order.side = "SELL" => d.positions[h].reservedQuantity >= order.quantity
  BY <1>1 DEF Deliverable
<1>7. d.users[v] \in User /\ b.users[v] \in User /\ d.positions[h] \in Position
  BY <1>3 DEF Database
<1> HIDE DEF order, v, h
<1>8. CASE order.side = "BUY"
  <2>1. \/ d.users[v] = b.users[v]
        \/ e.users[v] = d.users[v] /\ t.users[v] = b.users[v]
    <3>1. CASE order.reservedAmount = 0
      BY <1>3, <1>4, <1>5, <1>7, <1>8, <3>1, ReleasedCash
    <3>2. CASE order.reservedAmount > 0
      BY <1>2, <1>3, <1>4, <1>6, <1>7, <1>8, <3>2, ReleasedCash
    <3>3. QED
      BY <1>3, <3>1, <3>2
  <2>2. SameChange(b, d, e, t, v, h, o)
    BY <1>2, <1>4, <1>5, <1>8, <2>1 DEF SameChange, WrittenAt
  <2>3. QED
    BY <1>3, <2>2, MergedSame
<1>9. CASE order.side = "SELL"
  <2>1. d.positions[h] = b.positions[h]
    BY <1>2, <1>3, <1>4, <1>6, <1>7, <1>9, ReleasedShares
  <2>2. SameChange(b, d, e, t, v, h, o)
    BY <1>2, <1>4, <1>5, <1>9, <2>1 DEF SameChange, WrittenAt
  <2>3. QED
    BY <1>3, <2>2, MergedSame
<1>10. QED
  BY <1>3, <1>8, <1>9 DEF Order

LEMMA CancelSame ==
    ASSUME NEW b \in Database, NEW d \in Database, NEW op \in CancelRequest,
           CanCancel(d, op), Deliverable(d), Undisturbed(b, d, Writes(d, op))
    PROVE  SameEffect(b, d, op)
<1> DEFINE e == CancelOrder(d, op)
           t == CancelOrder(b, op)
           o == op.order
           order == d.orders[o]
           v == order.user
           h == <<order.user, order.symbol>>
<1>1. o \in OrderIds /\ op.kind = "CANCEL"
  BY DEF CancelRequest
<1>2. /\ e = After(d, op) /\ t = After(b, op) /\ (CanCancel(b, op) <=> Allowed(b, op))
      /\ AboutAnOrder(op)
  BY <1>1 DEF After, Allowed, AboutAnOrder
<1>3. b.orders[o] = order /\ d.trades[o] = b.trades[o]
  BY <1>2, OrderWrites
<1>4. CanCancel(b, op)
  BY <1>3 DEF CanCancel
<1>5. e \in Database /\ t \in Database
  BY <1>4, CancelTypeOK
<1>6. CASE order.status = "CANCELLED"
  <2>1. e = d /\ t = b
    BY <1>3, <1>6 DEF CancelOrder
  <2>2. v \in Users /\ h \in Users \X Symbols
    BY <1>1, <1>6, PendingOrder
  <2> HIDE DEF e, t, v, h, order
  <2>3. OneOfEach(d, d, v, h, o) /\ OneOfEach(b, b, v, h, o)
    BY <1>1, <2>2 DEF OneOfEach, OnlyAt, Database
  <2>4. SameChange(b, d, e, t, v, h, o)
    BY <1>3, <2>1, <2>3 DEF SameChange, WrittenAt, order
  <2>5. QED
    BY <1>2, <1>4, <1>5, <2>2, <2>4, MergedSame DEF SameEffect
<1>7. CASE order.status = "PENDING"
  <2>1. Cancelled(d, e, op) /\ Cancelled(b, t, op)
    BY <1>3, <1>4, <1>7, CancelEffect
  <2> HIDE DEF e, t
  <2>2. Merged(b, d, e, Writes(d, op)) = t
    BY <1>2, <1>5, <1>7, <2>1, CancelledMerges
  <2>3. QED
    BY <1>2, <1>4, <2>2 DEF SameEffect
<1>8. QED
  BY <1>6, <1>7 DEF CanCancel

\* What the execution of the order at o leads from c to.
ExecutedFor(c, e, o, order, op) ==
    LET v == order.user
        h == <<order.user, order.symbol>>
    IN  /\ OneOfEach(c, e, v, h, o)
        /\ e.orders[o] = [order EXCEPT !.status = "EXECUTED"]
        /\ e.trades[o] = Append(c.trades[o], NewTrade(order.user, order.symbol, order.side,
                                                      order.quantity, op))
        /\ order.side = "BUY" =>
              /\ e.users[v] = Adjusted(c.users[v],
                     order.reservedAmount - CostClp(order.quantity, op), -order.reservedAmount)
              /\ e.positions[h] = Bought(c.positions[h], order.quantity, op.price)
        /\ order.side = "SELL" =>
              /\ e.users[v] = Adjusted(c.users[v], ProceedsClp(order.quantity, op), 0)
              /\ e.positions[h] = Sold(ReleaseShares(c.positions[h], order), order.quantity)

LEMMA ExecutedAt ==
    ASSUME NEW c \in Database, NEW op, op.order \in OrderIds,
           c.orders[op.order].status = "PENDING", NEW e, Filled(c, e, op)
    PROVE  ExecutedFor(c, e, op.order, c.orders[op.order], op)
<1> DEFINE o == op.order
           order == c.orders[o]
           v == order.user
           h == <<order.user, order.symbol>>
           trades == Append(c.trades[o], NewTrade(order.user, order.symbol, order.side,
                                                  order.quantity, op))
           filled == [order EXCEPT !.status = "EXECUTED"]
           bought == Bought(c.positions[h], order.quantity, op.price)
           sold == Sold(ReleaseShares(c.positions[h], order), order.quantity)
           buyer == Adjusted(c.users[v],
                        order.reservedAmount - CostClp(order.quantity, op), -order.reservedAmount)
           seller == Adjusted(c.users[v], ProceedsClp(order.quantity, op), 0)
<1>1. order \in Order /\ v \in Users /\ h \in Users \X Symbols /\ o \in OrderIds
  BY PendingOrder
<1>2. /\ e = [c EXCEPT !.users = e.users, !.positions = e.positions,
                       !.orders = e.orders, !.trades = e.trades]
      /\ e.orders = [c.orders EXCEPT ![o] = filled]
      /\ e.trades = [c.trades EXCEPT ![o] = trades]
      /\ \/ /\ order.side = "BUY"
            /\ e.users = [c.users EXCEPT ![v] = buyer]
            /\ e.positions = [c.positions EXCEPT ![h] = bought]
         \/ /\ order.side = "SELL"
            /\ e.users = [c.users EXCEPT ![v] = seller]
            /\ e.positions = [c.positions EXCEPT ![h] = sold]
  BY DEF Filled, FilledBuy, FilledSell
<1> HIDE DEF v, h, trades, filled, bought, sold, buyer, seller
<1>3. e.stocks = c.stocks
  BY <1>2 DEF Database
<1>4. e.orders[o] = filled /\ e.trades[o] = trades
  BY <1>1, <1>2 DEF Database
<1>5. /\ order.side = "BUY" => e.users[v] = buyer /\ e.positions[h] = bought
      /\ order.side = "SELL" => e.users[v] = seller /\ e.positions[h] = sold
  BY <1>1, <1>2 DEF Database
<1>6. OnlyAt(c.orders, e.orders, o) /\ OnlyAt(c.trades, e.trades, o)
  BY <1>2, <1>4 DEF OnlyAt
<1>7. OnlyAt(c.users, e.users, v) /\ OnlyAt(c.positions, e.positions, h)
  BY <1>2, <1>5 DEF OnlyAt
<1>8. OneOfEach(c, e, v, h, o)
  BY <1>3, <1>6, <1>7 DEF OneOfEach
<1>9. QED
  BY <1>4, <1>5, <1>8
  DEF ExecutedFor, v, h, trades, filled, bought, sold, buyer, seller, order, o

\* Settling a sale changes the position that delivers it.
LEMMA SettledDiffers ==
    ASSUME NEW position \in Position, NEW order, order.quantity \in Nat, order.quantity > 0,
           position.quantity >= order.quantity
    PROVE  Sold(ReleaseShares(position, order), order.quantity) # position
<1>1. Sold(ReleaseShares(position, order), order.quantity).quantity # position.quantity
  BY DEF Sold, ReleaseShares, Moved, NoPosition, Position
<1>2. QED
  BY <1>1

\* An account that an adjustment leaves as it was had nothing to adjust.
LEMMA AdjustedByNothing ==
    ASSUME NEW user \in User, NEW a \in Int, NEW r \in Int, Adjusted(user, a, r) = user
    PROVE  a = 0 /\ r = 0
<1>1. /\ user.availableBalance + a = user.availableBalance
      /\ user.reservedBalance + r = user.reservedBalance
  BY DEF Adjusted
<1>2. QED
  BY <1>1 DEF User

LEMMA FilledSame ==
    ASSUME NEW b \in Database, NEW d \in Database, NEW op \in ExecuteRequest,
           CanExecute(d, op), Undisturbed(b, d, Writes(d, op)),
           Filled(d, ExecuteOrder(d, op), op)
    PROVE  SameEffect(b, d, op)
<1> DEFINE e == ExecuteOrder(d, op)
           t == ExecuteOrder(b, op)
           o == op.order
           order == d.orders[o]
           v == order.user
           h == <<order.user, order.symbol>>
           cost == CostClp(order.quantity, op)
           earned == ProceedsClp(order.quantity, op)
           trade == NewTrade(order.user, order.symbol, order.side, order.quantity, op)
<1>1. /\ o \in OrderIds /\ op.kind = "EXECUTE" /\ op.price \in Prices /\ op.fx \in FxRates
      /\ op.rate \in CommissionRates
  BY DEF ExecuteRequest
<1>2. /\ e = After(d, op) /\ t = After(b, op) /\ (CanExecute(b, op) <=> Allowed(b, op))
      /\ AboutAnOrder(op)
  BY <1>1 DEF After, Allowed, AboutAnOrder
<1>3. /\ b.orders[o] = order /\ d.trades[o] = b.trades[o]
      /\ \A u \in Users : e.users[u] # d.users[u] => d.users[u] = b.users[u]
      /\ \A k \in Users \X Symbols :
             e.positions[k] # d.positions[k] => d.positions[k] = b.positions[k]
  BY <1>2, OrderWrites
<1>4. order.status = "PENDING" /\ CanExecute(b, op)
  BY <1>3 DEF CanExecute
<1>5. /\ order \in Order /\ v \in Users /\ h \in Users \X Symbols
      /\ order.quantity \in Nat /\ order.quantity > 0 /\ order.reservedAmount \in Nat
      /\ order.quantity \in Quantities
  BY <1>1, <1>4, PendingOrder DEF Order
<1>6. cost \in Nat /\ earned \in Nat /\ trade \in Trade
  BY <1>1, <1>5, AmountsNat, NewTradeType DEF CostClp, ProceedsClp, Order
<1>7. ExecutedFor(d, e, o, order, op)
  BY <1>1, <1>4, ExecutedAt
<1>8. /\ OneOfEach(d, e, v, h, o)
      /\ e.orders[o] = [order EXCEPT !.status = "EXECUTED"]
      /\ e.trades[o] = Append(d.trades[o], trade)
      /\ order.side = "BUY" =>
            /\ e.users[v] = Adjusted(d.users[v], order.reservedAmount - cost, -order.reservedAmount)
            /\ e.positions[h] = Bought(d.positions[h], order.quantity, op.price)
      /\ order.side = "SELL" =>
            /\ e.users[v] = Adjusted(d.users[v], earned, 0)
            /\ e.positions[h] = Sold(ReleaseShares(d.positions[h], order), order.quantity)
  BY <1>7 DEF ExecutedFor
<1>9. /\ order.side = "BUY" => /\ d.users[v].reservedBalance >= order.reservedAmount
                               /\ d.users[v].availableBalance + order.reservedAmount >= cost
      /\ order.side = "SELL" => /\ d.positions[h].quantity >= order.quantity
                                /\ d.positions[h].reservedQuantity >= order.quantity
  BY DEF Filled, FilledBuy, FilledSell
<1>10. d.users[v] \in User /\ b.users[v] \in User /\ d.positions[h] \in Position
  BY <1>5 DEF Database
<1>11. d.positions[h] = b.positions[h]
  <2> HIDE DEF e, t, v, h, cost, earned, trade, order
  <2>1. CASE order.side = "BUY"
    <3>1. e.positions[h].quantity = d.positions[h].quantity + order.quantity
      BY <1>1, <1>5, <1>8, <1>10, <2>1, BoughtType
    <3>2. QED
      BY <1>3, <1>5, <1>10, <3>1 DEF Position
  <2>2. CASE order.side = "SELL"
    BY <1>3, <1>5, <1>8, <1>9, <1>10, <2>2, SettledDiffers
  <2>3. QED
    BY <1>5, <2>1, <2>2 DEF Order
<1>12. \/ d.users[v] = b.users[v]
       \/ /\ d.users[v] = e.users[v]
          /\ order.side = "BUY" => order.reservedAmount = 0 /\ cost = 0
          /\ order.side = "SELL" => earned = 0
  <2> HIDE DEF e, t, v, h, cost, earned, trade, order
  <2>0. d.users[v] = b.users[v] \/ d.users[v] = e.users[v]
    BY <1>3, <1>5
  <2>1. CASE order.side = "BUY" /\ d.users[v] = e.users[v]
    <3> DEFINE a == order.reservedAmount - cost
               r == -order.reservedAmount
    <3>1. a \in Int /\ r \in Int /\ Adjusted(d.users[v], a, r) = d.users[v]
      BY <1>5, <1>6, <1>8, <2>1
    <3>2. a = 0 /\ r = 0
      <4> HIDE DEF a, r
      <4>1. QED
        BY <1>10, <3>1, AdjustedByNothing
    <3>3. QED
      BY <1>5, <1>6, <2>1, <3>2
  <2>2. CASE order.side = "SELL" /\ d.users[v] = e.users[v]
    <3>1. Adjusted(d.users[v], earned, 0) = d.users[v]
      BY <1>8, <2>2
    <3>2. earned = 0
      BY <1>6, <1>10, <3>1, AdjustedByNothing
    <3>3. QED
      BY <2>2, <3>2
  <2>3. QED
    BY <1>5, <2>0, <2>1, <2>2 DEF Order
<1>13. Filled(b, t, op)
  <2>1. /\ order.side = "BUY" => /\ b.users[v].reservedBalance >= order.reservedAmount
                                 /\ b.users[v].availableBalance + order.reservedAmount >= cost
        /\ order.side = "SELL" => /\ b.positions[h].quantity >= order.quantity
                                  /\ b.positions[h].reservedQuantity >= order.quantity
    <3> HIDE DEF e, t, v, h, cost, earned, trade, order
    <3>1. QED
      BY <1>9, <1>10, <1>11, <1>12 DEF User
  <2>2. Settleable(b, op)
    BY <1>3, <1>5, <2>1 DEF Settleable, Order
  <2>3. QED
    BY <1>4, <2>2, SettleableFills
<1>14. ExecutedFor(b, t, o, order, op)
  <2>1. b.orders[op.order].status = "PENDING"
    BY <1>3, <1>4
  <2>2. ExecutedFor(b, t, op.order, b.orders[op.order], op)
    BY <1>1, <1>13, <2>1, ExecutedAt
  <2>3. QED
    BY <1>3, <2>2
<1>15. /\ OneOfEach(b, t, v, h, o)
       /\ t.orders[o] = [order EXCEPT !.status = "EXECUTED"]
       /\ t.trades[o] = Append(b.trades[o], trade)
       /\ order.side = "BUY" =>
             /\ t.users[v] = Adjusted(b.users[v], order.reservedAmount - cost, -order.reservedAmount)
             /\ t.positions[h] = Bought(b.positions[h], order.quantity, op.price)
       /\ order.side = "SELL" =>
             /\ t.users[v] = Adjusted(b.users[v], earned, 0)
             /\ t.positions[h] = Sold(ReleaseShares(b.positions[h], order), order.quantity)
  BY <1>14 DEF ExecutedFor
<1>16. e \in Database /\ t \in Database
  BY <1>4, ExecuteTypeOK
<1> HIDE DEF e, t, v, h, cost, earned, trade, order
<1>17. t.positions[h] = e.positions[h]
  BY <1>5, <1>8, <1>11, <1>15 DEF Order
<1>18. \/ d.users[v] = b.users[v] /\ t.users[v] = e.users[v]
       \/ d.users[v] = e.users[v] /\ t.users[v] = b.users[v]
  <2>1. CASE order.side = "BUY"
    BY <1>8, <1>10, <1>12, <1>15, <2>1 DEF Adjusted, User
  <2>2. CASE order.side = "SELL"
    BY <1>8, <1>10, <1>12, <1>15, <2>2 DEF Adjusted, User
  <2>3. QED
    BY <1>5, <2>1, <2>2 DEF Order
<1>19. SameChange(b, d, e, t, v, h, o)
  BY <1>3, <1>6, <1>8, <1>11, <1>15, <1>17, <1>18 DEF SameChange, WrittenAt
<1>20. Merged(b, d, e, Writes(d, op)) = t
  BY <1>2, <1>5, <1>16, <1>19, MergedSame
<1>21. QED
  BY <1>2, <1>4, <1>20 DEF SameEffect

\* The transaction of op on d leaves in b what one request served on b would,
\* one that touches no other stock or order.
Serves(b, d, op) ==
    \E op2 \in Request :
        /\ Allowed(b, op2)
        /\ Merged(b, d, After(d, op), Writes(d, op)) = After(b, op2)
        /\ TouchedStocks(op2) \subseteq TouchedStocks(op)
        /\ TouchedOrders(op2) \subseteq TouchedOrders(op)

\* An execution that finds itself unfunded cancels.
LEMMA ExecuteServes ==
    ASSUME NEW b \in Database, NEW d \in Database, NEW op \in ExecuteRequest,
           CanExecute(d, op), Deliverable(d), Undisturbed(b, d, Writes(d, op))
    PROVE  Serves(b, d, op)
<1> DEFINE e == ExecuteOrder(d, op)
           o == op.order
           cancel == [kind |-> "CANCEL", order |-> o]
           t == CancelOrder(b, cancel)
<1>1. CASE Filled(d, e, op)
  BY <1>1, FilledSame DEF Serves, SameEffect, Request
<1>2. CASE Cancelled(d, e, op)
  <2>1. /\ cancel \in CancelRequest /\ cancel.order = o /\ cancel.kind = "CANCEL"
        /\ op.kind = "EXECUTE" /\ o \in OrderIds
    BY DEF CancelRequest, ExecuteRequest
  <2>2. e = After(d, op) /\ AboutAnOrder(op)
    BY <2>1 DEF After, AboutAnOrder
  <2>3. b.orders[o] = d.orders[o] /\ d.orders[o].status = "PENDING"
    BY <2>2, OrderWrites DEF CanExecute
  <2>4. CanCancel(b, cancel)
    BY <2>1, <2>3 DEF CanCancel
  <2>5. e \in Database /\ t \in Database
    BY <2>1, <2>4, ExecuteTypeOK, CancelTypeOK
  <2>6. Allowed(b, cancel) /\ t = After(b, cancel)
    BY <2>1, <2>4 DEF Allowed, After
  <2> HIDE DEF cancel
  <2>7. Cancelled(b, t, cancel)
    BY <2>1, <2>3, <2>4, CancelEffect
  <2>8. Cancelled(b, t, op)
    BY <2>1, <2>7 DEF Cancelled
  <2> HIDE DEF e, t
  <2>9. Merged(b, d, e, Writes(d, op)) = t
    BY <1>2, <2>2, <2>3, <2>5, <2>8, CancelledMerges
  <2>10. /\ cancel \in Request
         /\ TouchedStocks(cancel) \subseteq TouchedStocks(op)
         /\ TouchedOrders(cancel) \subseteq TouchedOrders(op)
    BY <2>1 DEF Request, TouchedStocks, TouchedOrders
  <2>11. QED
    BY <2>2, <2>6, <2>9, <2>10 DEF Serves
<1>3. QED
  BY <1>1, <1>2, ExecuteEffect

\* Listing or unlisting changes one listing and nothing else.
LEMMA StockMerges ==
    ASSUME NEW b \in Database, NEW d \in Database, NEW op \in StockRequest,
           Undisturbed(b, d, Writes(d, op)), NEW listing \in Listing,
           NEW e, NEW t, e = After(d, op), e = [d EXCEPT !.stocks[op.symbol] = listing],
           t = [b EXCEPT !.stocks[op.symbol] = listing]
    PROVE  Merged(b, d, e, Writes(d, op)) = t
<1> DEFINE w == Writes(d, op)
           s == op.symbol
<1>1. s \in Symbols /\ op.kind \in {"CREATE_STOCK", "DELETE_STOCK"}
  BY DEF StockRequest
<1>2. t \in Database
  BY <1>1 DEF Database
<1>3. /\ e.users = d.users /\ e.positions = d.positions /\ e.orders = d.orders
      /\ e.trades = d.trades /\ e.stocks = [d.stocks EXCEPT ![s] = listing]
      /\ t.users = b.users /\ t.positions = b.positions /\ t.orders = b.orders
      /\ t.trades = b.trades /\ t.stocks = [b.stocks EXCEPT ![s] = listing]
  BY DEF Database
<1>4. w.users = {} /\ w.positions = {} /\ w.orders = {} /\ w.stocks = {s}
  BY <1>1, <1>3 DEF Writes, TouchedOrders, TouchedStocks
<1>5. ASSUME NEW o \in OrderIds
      PROVE  t.trades[o] = b.trades[o] \o SubSeq(e.trades[o], Len(d.trades[o]) + 1,
                                                 Len(e.trades[o]))
  <2>1. b.trades[o] \in Seq(Trade) /\ d.trades[o] \in Seq(Trade)
    BY DEF Database
  <2>2. QED
    BY <1>3, <2>1, NoNewTrades
<1>6. \A x \in Symbols : t.stocks[x] = IF x \in w.stocks THEN e.stocks[x] ELSE b.stocks[x]
  BY <1>1, <1>3, <1>4 DEF Database
<1>7. IsMerged(t, b, d, e, w)
  <2> HIDE DEF w
  <2>1. /\ \A u \in Users : t.users[u] = IF u \in w.users THEN e.users[u] ELSE b.users[u]
        /\ \A h \in Users \X Symbols :
               t.positions[h] = IF h \in w.positions THEN e.positions[h] ELSE b.positions[h]
        /\ \A o \in OrderIds : t.orders[o] = IF o \in w.orders THEN e.orders[o] ELSE b.orders[o]
    BY <1>3, <1>4
  <2>2. \A o \in OrderIds :
            t.trades[o] = b.trades[o] \o SubSeq(e.trades[o], Len(d.trades[o]) + 1,
                                                Len(e.trades[o]))
    BY <1>5
  <2>3. QED
    BY <1>6, <2>1, <2>2 DEF IsMerged
<1>8. QED
  BY <1>2, <1>7, MergedDocuments

LEMMA StockSame ==
    ASSUME NEW b \in Database, NEW d \in Database, NEW op \in StockRequest,
           Allowed(d, op), Undisturbed(b, d, Writes(d, op)),
           op.kind = "DELETE_STOCK" =>
               (HasReferences(b, op.symbol) => HasReferences(d, op.symbol))
    PROVE  SameEffect(b, d, op)
<1> DEFINE s == op.symbol
<1>1. s \in Symbols /\ op.kind \in {"CREATE_STOCK", "DELETE_STOCK"}
  BY DEF StockRequest
<1>2. s \in Writes(d, op).stocks
  BY <1>1 DEF Writes, TouchedStocks
<1>3. d.stocks[s] = b.stocks[s]
  BY <1>2 DEF Undisturbed
<1>4. CASE op.kind = "CREATE_STOCK"
  <2>1. After(d, op) = CreateStock(d, op) /\ After(b, op) = CreateStock(b, op)
    BY <1>4 DEF After
  <2>2. Merged(b, d, CreateStock(d, op), Writes(d, op)) = CreateStock(b, op)
    BY <2>1, StockMerges DEF CreateStock, Listing
  <2>3. Allowed(b, op)
    BY <1>3, <1>4 DEF Allowed, CanCreateStock, Listed
  <2>4. QED
    BY <2>1, <2>2, <2>3 DEF SameEffect
<1>5. CASE op.kind = "DELETE_STOCK"
  <2>1. After(d, op) = DeleteStock(d, op) /\ After(b, op) = DeleteStock(b, op)
    BY <1>5 DEF After
  <2>2. Merged(b, d, DeleteStock(d, op), Writes(d, op)) = DeleteStock(b, op)
    BY <2>1, StockMerges DEF DeleteStock, Listing
  <2>3. Allowed(b, op)
    BY <1>3, <1>5 DEF Allowed, CanDeleteStock
  <2>4. QED
    BY <2>1, <2>2, <2>3 DEF SameEffect
<1>6. QED
  BY <1>1, <1>4, <1>5

\* Whatever the request, if what its transaction writes is in the database as in
\* its snapshot, committing it serves one request on the database.
LEMMA AllServe ==
    ASSUME NEW b \in Database, NEW d \in Database, NEW op \in Request,
           Allowed(d, op), Deliverable(d), Undisturbed(b, d, Writes(d, op)),
           op.kind = "DELETE_STOCK" =>
               (HasReferences(b, op.symbol) => HasReferences(d, op.symbol))
    PROVE  Serves(b, d, op)
<1>0. SUFFICES SameEffect(b, d, op) \/ Serves(b, d, op)
  BY DEF SameEffect, Serves
<1>1. CASE op \in CreateBuyRequest
  <2>1. CanCreateBuy(d, op)
    BY <1>1 DEF Allowed, CreateBuyRequest
  <2>2. QED
    BY <1>1, <2>1, CreateBuySame
<1>2. CASE op \in CreateSellRequest
  <2>1. CanCreateSell(d, op)
    BY <1>2 DEF Allowed, CreateSellRequest
  <2>2. QED
    BY <1>2, <2>1, CreateSellSame
<1>3. CASE op \in MarketRequest
  <2>1. op.kind \in {"MARKET_BUY", "MARKET_SELL"}
    BY <1>3 DEF MarketRequest
  <2>2. CASE op.kind = "MARKET_BUY"
    <3>1. CanMarketBuy(d, op)
      BY <2>2 DEF Allowed
    <3>2. QED
      BY <1>3, <2>2, <3>1, MarketBuySame
  <2>3. CASE op.kind = "MARKET_SELL"
    <3>1. CanMarketSell(d, op)
      BY <2>3 DEF Allowed
    <3>2. QED
      BY <1>3, <2>3, <3>1, MarketSellSame
  <2>4. QED
    BY <2>1, <2>2, <2>3
<1>4. CASE op \in CancelRequest
  <2>1. CanCancel(d, op)
    BY <1>4 DEF Allowed, CancelRequest
  <2>2. QED
    BY <1>4, <2>1, CancelSame
<1>5. CASE op \in ExecuteRequest
  <2>1. CanExecute(d, op)
    BY <1>5 DEF Allowed, ExecuteRequest
  <2>2. QED
    BY <1>5, <2>1, ExecuteServes
<1>6. CASE op \in StockRequest
  BY <1>6, StockSame
<1>7. QED
  BY <1>1, <1>2, <1>3, <1>4, <1>5, <1>6 DEF Request, CreatingRequest

-----------------------------------------------------------------------------
(* What a request can come to refer to *)

\* The step from c to e can only make the user v, at order o, refer to s.
RefersTo(c, e, v, s, o) ==
    /\ OneOfEach(c, e, v, <<v, s>>, o)
    /\ e.orders[o].symbol = s
    /\ \/ e.trades = c.trades
       \/ \E trade \in Trade : /\ trade.symbol = s
                               /\ e.trades[o] = Append(c.trades[o], trade)

LEMMA OneReference ==
    ASSUME NEW c \in Database, NEW e \in Database, NEW v \in Users, NEW s \in Symbols,
           NEW o \in OrderIds, RefersTo(c, e, v, s, o),
           NEW x \in Symbols, x # s, HasReferences(e, x)
    PROVE  HasReferences(c, x)
<1>1. /\ \A p \in OrderIds \ {o} : e.orders[p] = c.orders[p] /\ e.trades[p] = c.trades[p]
      /\ \A u \in Users : e.positions[<<u, x>>] = c.positions[<<u, x>>]
  BY DEF RefersTo, OneOfEach, OnlyAt, Database
<1>2. ASSUME NEW p \in OrderIds, e.orders[p].status = "PENDING", e.orders[p].symbol = x
      PROVE  HasReferences(c, x)
  <2>1. p # o
    BY <1>2 DEF RefersTo
  <2>2. QED
    BY <1>1, <1>2, <2>1 DEF HasReferences
<1>3. ASSUME NEW u \in Users, e.positions[<<u, x>>].quantity > 0
      PROVE  HasReferences(c, x)
  BY <1>1, <1>3 DEF HasReferences
<1>4. ASSUME NEW p \in OrderIds, NEW i \in 1..Len(e.trades[p]), e.trades[p][i].symbol = x
      PROVE  HasReferences(c, x)
  <2>1. CASE e.trades[p] = c.trades[p]
    BY <1>4, <2>1 DEF HasReferences
  <2>2. CASE e.trades[p] # c.trades[p]
    <3>1. p = o
      BY <1>1, <2>2
    <3>2. PICK trade \in Trade : trade.symbol = s /\ e.trades[o] = Append(c.trades[o], trade)
      BY <2>2, <3>1 DEF RefersTo
    <3>3. c.trades[o] \in Seq(Trade)
      BY DEF Database
    <3> DEFINE n == Len(c.trades[o])
    <3>4. n \in Nat /\ Len(e.trades[o]) = n + 1 /\ e.trades[o][n + 1] = trade
      BY <3>2, <3>3
    <3>5. i \in 1..n
      BY <1>4, <3>1, <3>2, <3>4
    <3>6. e.trades[o][i] = c.trades[o][i]
      BY <3>2, <3>3, <3>5
    <3>7. QED
      BY <1>4, <3>1, <3>5, <3>6 DEF HasReferences
  <2>3. QED
    BY <2>1, <2>2
<1>5. QED
  BY <1>2, <1>3, <1>4 DEF HasReferences

\* What served requests may change: a stock comes to be referred to only by a
\* request that touches it, and trades are only those of the touched order.
ChangesTouched(c, e, op) ==
    /\ \A s \in Symbols : HasReferences(e, s) => HasReferences(c, s) \/ s \in TouchedStocks(op)
    /\ \A o \in OrderIds \ TouchedOrders(op) : e.trades[o] = c.trades[o]

LEMMA AccountTouched ==
    ASSUME NEW c \in Database, NEW e \in Database, NEW op, AboutAnOrder(op),
           NEW v \in Users, NEW s \in Symbols, RefersTo(c, e, v, s, op.order),
           HasReferences(c, s) \/ s \in TouchedStocks(op)
    PROVE  ChangesTouched(c, e, op)
<1>1. op.order \in OrderIds /\ TouchedOrders(op) = {op.order}
  BY DEF AboutAnOrder, TouchedOrders
<1>2. ASSUME NEW x \in Symbols, HasReferences(e, x)
      PROVE  HasReferences(c, x) \/ x \in TouchedStocks(op)
  BY <1>1, <1>2, OneReference
<1>3. \A o \in OrderIds \ TouchedOrders(op) : e.trades[o] = c.trades[o]
  BY <1>1 DEF RefersTo, OneOfEach, OnlyAt, Database
<1>4. QED
  BY <1>2, <1>3 DEF ChangesTouched

LEMMA CreatingTouched ==
    ASSUME NEW c \in Database, NEW op \in CreatingRequest, Allowed(c, op)
    PROVE  After(c, op) \in Database /\ ChangesTouched(c, After(c, op), op)
<1> DEFINE e == After(c, op)
           o == op.order
<1>1. /\ op.user \in Users /\ op.symbol \in Symbols /\ o \in OrderIds /\ AboutAnOrder(op)
      /\ op.symbol \in TouchedStocks(op)
  BY DEF CreatingRequest, CreateBuyRequest, CreateSellRequest, MarketRequest, AboutAnOrder,
         TouchedStocks
<1>2. e \in Database /\ RefersTo(c, e, op.user, op.symbol, o)
  <2>1. CASE op \in CreateBuyRequest
    <3>1. e = CreateBuy(c, op) /\ CanCreateBuy(c, op)
      BY <2>1 DEF After, Allowed, CreateBuyRequest
    <3>2. e \in Database
      BY <2>1, <3>1, CreateBuyTypeOK
    <3> HIDE DEF e
    <3>3. /\ OneOfEach(c, e, op.user, <<op.user, op.symbol>>, o) /\ e.trades = c.trades
          /\ e.orders[o] = NewOrder(op, "BUY", "LIMIT", op.limitPrice, "PENDING", Reservation(op))
      BY <2>1, <3>1, CreateBuyAt
    <3>4. QED
      BY <3>2, <3>3 DEF RefersTo, NewOrder
  <2>2. CASE op \in CreateSellRequest
    <3>1. e = CreateSell(c, op) /\ CanCreateSell(c, op)
      BY <2>2 DEF After, Allowed, CreateSellRequest
    <3>2. e \in Database
      BY <2>2, <3>1, CreateSellTypeOK
    <3> HIDE DEF e
    <3>3. /\ OneOfEach(c, e, op.user, <<op.user, op.symbol>>, o) /\ e.trades = c.trades
          /\ e.orders[o] = NewOrder(op, "SELL", "LIMIT", op.limitPrice, "PENDING", 0)
      BY <2>2, <3>1, CreateSellAt
    <3>4. QED
      BY <3>2, <3>3 DEF RefersTo, NewOrder
  <2>3. CASE op \in MarketRequest /\ op.kind = "MARKET_BUY"
    <3>1. e = MarketBuy(c, op) /\ CanMarketBuy(c, op)
      BY <2>3 DEF After, Allowed
    <3>2. e \in Database
      BY <2>3, <3>1, MarketBuyTypeOK
    <3>3. /\ NewTrade(op.user, op.symbol, "BUY", op.quantity, op) \in Trade
          /\ NewTrade(op.user, op.symbol, "BUY", op.quantity, op).symbol = op.symbol
      BY <2>3, NewTradeType DEF MarketRequest, NewTrade
    <3> HIDE DEF e
    <3>4. /\ OneOfEach(c, e, op.user, <<op.user, op.symbol>>, o)
          /\ e.orders[o] = NewOrder(op, "BUY", "MARKET", 0, "EXECUTED", 0)
          /\ e.trades[o] = Append(c.trades[o],
                                  NewTrade(op.user, op.symbol, "BUY", op.quantity, op))
      BY <2>3, <3>1, MarketBuyAt
    <3>5. e.orders[o].symbol = op.symbol
      BY <3>4 DEF NewOrder
    <3>6. QED
      BY <3>2, <3>3, <3>4, <3>5 DEF RefersTo
  <2>4. CASE op \in MarketRequest /\ op.kind = "MARKET_SELL"
    <3>1. e = MarketSell(c, op) /\ CanMarketSell(c, op)
      BY <2>4 DEF After, Allowed
    <3>2. e \in Database
      BY <2>4, <3>1, MarketSellTypeOK
    <3>3. /\ NewTrade(op.user, op.symbol, "SELL", op.quantity, op) \in Trade
          /\ NewTrade(op.user, op.symbol, "SELL", op.quantity, op).symbol = op.symbol
      BY <2>4, NewTradeType DEF MarketRequest, NewTrade
    <3> HIDE DEF e
    <3>4. /\ OneOfEach(c, e, op.user, <<op.user, op.symbol>>, o)
          /\ e.orders[o] = NewOrder(op, "SELL", "MARKET", 0, "EXECUTED", 0)
          /\ e.trades[o] = Append(c.trades[o],
                                  NewTrade(op.user, op.symbol, "SELL", op.quantity, op))
      BY <2>4, <3>1, MarketSellAt
    <3>5. e.orders[o].symbol = op.symbol
      BY <3>4 DEF NewOrder
    <3>6. QED
      BY <3>2, <3>3, <3>4, <3>5 DEF RefersTo
  <2>5. QED
    BY <2>1, <2>2, <2>3, <2>4 DEF CreatingRequest, MarketRequest
<1> HIDE DEF e
<1>3. ChangesTouched(c, e, op)
  BY <1>1, <1>2, AccountTouched
<1>4. QED
  BY <1>2, <1>3 DEF e

LEMMA ClosingTouched ==
    ASSUME NEW c \in Database, NEW op \in CancelRequest \cup ExecuteRequest, Allowed(c, op)
    PROVE  After(c, op) \in Database /\ ChangesTouched(c, After(c, op), op)
<1> DEFINE e == After(c, op)
           o == op.order
           order == c.orders[o]
           trade == NewTrade(order.user, order.symbol, order.side, order.quantity, op)
<1>1. o \in OrderIds /\ AboutAnOrder(op)
  BY DEF CancelRequest, ExecuteRequest, AboutAnOrder
<1>2. e \in Database /\ (\/ e = c
                         \/ order.status = "PENDING" /\ Cancelled(c, e, op)
                         \/ /\ order.status = "PENDING" /\ Filled(c, e, op)
                            /\ op \in ExecuteRequest)
  <2>1. CASE op \in CancelRequest
    <3>1. e = CancelOrder(c, op) /\ CanCancel(c, op)
      BY <2>1 DEF After, Allowed, CancelRequest
    <3>2. QED
      BY <2>1, <3>1, CancelTypeOK, CancelEffect
  <2>2. CASE op \in ExecuteRequest
    <3>1. e = ExecuteOrder(c, op) /\ CanExecute(c, op)
      BY <2>2 DEF After, Allowed, ExecuteRequest
    <3>2. QED
      BY <2>2, <3>1, ExecuteTypeOK, ExecuteEffect DEF CanExecute
  <2>3. QED
    BY <2>1, <2>2
<1> HIDE DEF e
<1>3. CASE e = c
  BY <1>3, <1>2 DEF ChangesTouched, e
<1>4. ASSUME order.status = "PENDING"
      PROVE  /\ order \in Order /\ order.user \in Users /\ order.symbol \in Symbols
             /\ HasReferences(c, order.symbol)
  BY <1>1, <1>4, PendingOrder DEF HasReferences, Order
<1>5. CASE order.status = "PENDING" /\ Cancelled(c, e, op)
  <2>1. ReleasedFor(c, e, o, order)
    BY <1>1, <1>5, CancelledAt
  <2>2. RefersTo(c, e, order.user, order.symbol, o)
    BY <1>4, <1>5, <2>1 DEF ReleasedFor, RefersTo, Order
  <2>3. ChangesTouched(c, e, op)
    BY <1>1, <1>2, <1>4, <1>5, <2>2, AccountTouched
  <2>4. QED
    BY <1>2, <2>3 DEF e
<1>6. CASE order.status = "PENDING" /\ Filled(c, e, op) /\ op \in ExecuteRequest
  <2>1. ExecutedFor(c, e, o, order, op)
    BY <1>1, <1>6, ExecutedAt
  <2>2. trade \in Trade /\ trade.symbol = order.symbol
    BY <1>4, <1>6, NewTradeType DEF Order, ExecuteRequest, NewTrade
  <2>3. RefersTo(c, e, order.user, order.symbol, o)
    <3> HIDE DEF trade
    <3>1. e.trades[o] = Append(c.trades[o], trade)
      BY <2>1 DEF ExecutedFor, trade
    <3>2. QED
      BY <1>4, <1>6, <2>1, <2>2, <3>1 DEF ExecutedFor, RefersTo, Order
  <2>4. ChangesTouched(c, e, op)
    BY <1>1, <1>2, <1>4, <1>6, <2>3, AccountTouched
  <2>5. QED
    BY <1>2, <2>4 DEF e
<1>7. QED
  BY <1>2, <1>3, <1>5, <1>6

LEMMA AllTouched ==
    ASSUME NEW c \in Database, NEW op \in Request, Allowed(c, op)
    PROVE  After(c, op) \in Database /\ ChangesTouched(c, After(c, op), op)
<1>1. CASE op \in StockRequest
  <2> DEFINE e == After(c, op)
  <2>1. e = CreateStock(c, op) \/ e = DeleteStock(c, op)
    BY <1>1 DEF After, StockRequest
  <2>2. /\ e \in Database
        /\ e.orders = c.orders /\ e.positions = c.positions /\ e.trades = c.trades
    BY <1>1, <2>1, StockTypeOK DEF CreateStock, DeleteStock, Database
  <2> HIDE DEF e
  <2>3. ChangesTouched(c, e, op)
    BY <2>2 DEF ChangesTouched, HasReferences
  <2>4. QED
    BY <2>2, <2>3 DEF e
<1>2. QED
  BY <1>1, CreatingTouched, ClosingTouched DEF Request

-----------------------------------------------------------------------------
(* The ledger's actions are these handlers.  L is the ledger as it is         *)
(* specified, LP the same with what is proved of it.                          *)

LP == INSTANCE LedgerProofs

LEMMA CreateBuyOfLedger ==
    ASSUME NEW d, NEW op
    PROVE  /\ L!CanCreateBuy(d, op) = CanCreateBuy(d, op) /\ LP!CanCreateBuy(d, op) = CanCreateBuy(d, op)
           /\ L!CreateBuy(d, op) = CreateBuy(d, op) /\ LP!CreateBuy(d, op) = CreateBuy(d, op)
           /\ L!CreateBuyRequest = CreateBuyRequest /\ LP!CreateBuyRequest = CreateBuyRequest
BY DEF
    CanCreateBuy, L!CanCreateBuy, LP!CanCreateBuy, CreateBuy, L!CreateBuy, LP!CreateBuy,
    CreateBuyRequest, L!CreateBuyRequest, LP!CreateBuyRequest, Listed, L!Listed, LP!Listed,
    Reservation, L!Reservation, LP!Reservation, LimitCommission, L!LimitCommission,
    LP!LimitCommission, InClp, L!InClp, LP!InClp, Gross, L!Gross, LP!Gross, PriceClp,
    L!PriceClp, LP!PriceClp, Quotient, L!Quotient, LP!Quotient,
    Commission, L!Commission, LP!Commission, Cost, L!Cost, LP!Cost, GrossClp, L!GrossClp,
    LP!GrossClp, Adjusted, L!Adjusted, LP!Adjusted, NewOrder, L!NewOrder, LP!NewOrder,
    NoOrder, L!NoOrder, LP!NoOrder, OrderIds, L!OrderIds, LP!OrderIds

LEMMA CreateSellOfLedger ==
    ASSUME NEW d, NEW op
    PROVE  /\ L!CanCreateSell(d, op) = CanCreateSell(d, op) /\ LP!CanCreateSell(d, op) = CanCreateSell(d, op)
           /\ L!CreateSell(d, op) = CreateSell(d, op) /\ LP!CreateSell(d, op) = CreateSell(d, op)
           /\ L!CreateSellRequest = CreateSellRequest /\ LP!CreateSellRequest = CreateSellRequest
BY DEF
    CanCreateSell, L!CanCreateSell, LP!CanCreateSell, CreateSell, L!CreateSell,
    LP!CreateSell, CreateSellRequest, L!CreateSellRequest, LP!CreateSellRequest, Listed,
    L!Listed, LP!Listed, Free, L!Free, LP!Free, Moved, L!Moved, LP!Moved, NewOrder,
    L!NewOrder, LP!NewOrder, NoOrder, L!NoOrder, LP!NoOrder, OrderIds, L!OrderIds,
    LP!OrderIds

LEMMA CancelOfLedger ==
    ASSUME NEW d, NEW op
    PROVE  /\ L!CanCancel(d, op) = CanCancel(d, op) /\ LP!CanCancel(d, op) = CanCancel(d, op)
           /\ L!CancelOrder(d, op) = CancelOrder(d, op) /\ LP!CancelOrder(d, op) = CancelOrder(d, op)
           /\ L!CancelRequest = CancelRequest /\ LP!CancelRequest = CancelRequest
BY DEF
    CanCancel, L!CanCancel, LP!CanCancel, CancelOrder, L!CancelOrder, LP!CancelOrder,
    CancelRequest, L!CancelRequest, LP!CancelRequest, ReleaseCash, L!ReleaseCash,
    LP!ReleaseCash, ReleaseShares, L!ReleaseShares, LP!ReleaseShares, Adjusted, L!Adjusted,
    LP!Adjusted, Lesser, L!Lesser, LP!Lesser, AtLeastZero, L!AtLeastZero, LP!AtLeastZero,
    OrderIds, L!OrderIds, LP!OrderIds

LEMMA ExecuteOfLedger ==
    ASSUME NEW d, NEW op
    PROVE  /\ L!CanExecute(d, op) = CanExecute(d, op) /\ LP!CanExecute(d, op) = CanExecute(d, op)
           /\ L!ExecuteOrder(d, op) = ExecuteOrder(d, op) /\ LP!ExecuteOrder(d, op) = ExecuteOrder(d, op)
           /\ L!ExecuteRequest = ExecuteRequest /\ LP!ExecuteRequest = ExecuteRequest
<1>1. /\ L!CanExecute(d, op) = CanExecute(d, op) /\ LP!CanExecute(d, op) = CanExecute(d, op)
      /\ L!ExecuteRequest = ExecuteRequest /\ LP!ExecuteRequest = ExecuteRequest
  BY DEF CanExecute, L!CanExecute, LP!CanExecute, ShouldExecute, L!ShouldExecute,
      LP!ShouldExecute, ExecuteRequest, L!ExecuteRequest, LP!ExecuteRequest, OrderIds,
      L!OrderIds, LP!OrderIds
<1>2. L!ProcessBuyOrder(d, op) = ProcessBuyOrder(d, op)
  BY DEF
      ProcessBuyOrder, L!ProcessBuyOrder, CostClp, L!CostClp, Cost, L!Cost, Commission,
      L!Commission, GrossClp, L!GrossClp, PriceClp, L!PriceClp, Gross, L!Gross, InClp,
      L!InClp, Quotient, L!Quotient, Finalized, L!Finalized, NewTrade, L!NewTrade,
      Proceeds, L!Proceeds, Bought, L!Bought, MeanCost, L!MeanCost, ReleaseCash,
      L!ReleaseCash, Adjusted, L!Adjusted, Lesser, L!Lesser
<1>3. LP!ProcessBuyOrder(d, op) = ProcessBuyOrder(d, op)
  BY DEF
      ProcessBuyOrder, LP!ProcessBuyOrder, CostClp, LP!CostClp, Cost, LP!Cost, Commission,
      LP!Commission, GrossClp, LP!GrossClp, PriceClp, LP!PriceClp, Gross, LP!Gross, InClp,
      LP!InClp, Quotient, LP!Quotient, Finalized, LP!Finalized, NewTrade, LP!NewTrade,
      Proceeds, LP!Proceeds, Bought, LP!Bought, MeanCost, LP!MeanCost, ReleaseCash,
      LP!ReleaseCash, Adjusted, LP!Adjusted, Lesser, LP!Lesser
<1>4. L!ProcessSellOrder(d, op) = ProcessSellOrder(d, op)
  BY DEF
      ProcessSellOrder, L!ProcessSellOrder, ProceedsClp, L!ProceedsClp, Cost, L!Cost,
      Commission, L!Commission, GrossClp, L!GrossClp, PriceClp, L!PriceClp, Gross, L!Gross,
      InClp, L!InClp, Quotient, L!Quotient, Finalized, L!Finalized, NewTrade, L!NewTrade,
      Proceeds, L!Proceeds, Sold, L!Sold, Moved, L!Moved, NoPosition, L!NoPosition,
      ReleaseShares, L!ReleaseShares, Adjusted, L!Adjusted, AtLeastZero, L!AtLeastZero
<1>5. LP!ProcessSellOrder(d, op) = ProcessSellOrder(d, op)
  BY DEF
      ProcessSellOrder, LP!ProcessSellOrder, ProceedsClp, LP!ProceedsClp, Cost, LP!Cost,
      Commission, LP!Commission, GrossClp, LP!GrossClp, PriceClp, LP!PriceClp, Gross,
      LP!Gross, InClp, LP!InClp, Quotient, LP!Quotient, Finalized, LP!Finalized, NewTrade,
      LP!NewTrade, Proceeds, LP!Proceeds, Sold, LP!Sold, Moved, LP!Moved, NoPosition,
      LP!NoPosition, ReleaseShares, LP!ReleaseShares, Adjusted, LP!Adjusted, AtLeastZero,
      LP!AtLeastZero
<1>6. QED
  BY <1>1, <1>2, <1>3, <1>4, <1>5 DEF ExecuteOrder, L!ExecuteOrder, LP!ExecuteOrder

LEMMA MarketOfLedger ==
    ASSUME NEW d, NEW op
    PROVE  /\ L!CanMarketBuy(d, op) = CanMarketBuy(d, op) /\ LP!CanMarketBuy(d, op) = CanMarketBuy(d, op)
           /\ L!MarketBuy(d, op) = MarketBuy(d, op) /\ LP!MarketBuy(d, op) = MarketBuy(d, op)
           /\ L!CanMarketSell(d, op) = CanMarketSell(d, op) /\ LP!CanMarketSell(d, op) = CanMarketSell(d, op)
           /\ L!MarketSell(d, op) = MarketSell(d, op) /\ LP!MarketSell(d, op) = MarketSell(d, op)
           /\ L!MarketRequest = MarketRequest /\ LP!MarketRequest = MarketRequest
BY DEF
    CanMarketBuy, L!CanMarketBuy, LP!CanMarketBuy, MarketBuy, L!MarketBuy, LP!MarketBuy,
    CanMarketSell, L!CanMarketSell, LP!CanMarketSell, MarketSell, L!MarketSell,
    LP!MarketSell, MarketRequest, L!MarketRequest, LP!MarketRequest, ValidMarketAmounts,
    L!ValidMarketAmounts, LP!ValidMarketAmounts, Listed, L!Listed, LP!Listed, Free, L!Free,
    LP!Free, NewOrder, L!NewOrder, LP!NewOrder, NoOrder, L!NoOrder, LP!NoOrder, NewTrade,
    L!NewTrade, LP!NewTrade, Proceeds, L!Proceeds, LP!Proceeds, ProceedsClp, L!ProceedsClp,
    LP!ProceedsClp, CostClp, L!CostClp, LP!CostClp,
    MeanCost, L!MeanCost, LP!MeanCost, InClp, L!InClp,
    LP!InClp, Gross, L!Gross, LP!Gross, PriceClp, L!PriceClp, LP!PriceClp,
    Commission, L!Commission, LP!Commission, Cost, L!Cost, LP!Cost, GrossClp, L!GrossClp,
    LP!GrossClp, Bought, L!Bought, LP!Bought, Quotient, L!Quotient, LP!Quotient, Sold,
    L!Sold, LP!Sold, Moved, L!Moved, LP!Moved, NoPosition, L!NoPosition, LP!NoPosition,
    Adjusted, L!Adjusted, LP!Adjusted, OrderIds, L!OrderIds, LP!OrderIds

LEMMA StockOfLedger ==
    ASSUME NEW d, NEW op
    PROVE  /\ L!CanCreateStock(d, op) = CanCreateStock(d, op) /\ LP!CanCreateStock(d, op) = CanCreateStock(d, op)
           /\ L!CreateStock(d, op) = CreateStock(d, op) /\ LP!CreateStock(d, op) = CreateStock(d, op)
           /\ L!CanDeleteStock(d, op) = CanDeleteStock(d, op) /\ LP!CanDeleteStock(d, op) = CanDeleteStock(d, op)
           /\ L!DeleteStock(d, op) = DeleteStock(d, op) /\ LP!DeleteStock(d, op) = DeleteStock(d, op)
           /\ L!StockRequest = StockRequest /\ LP!StockRequest = StockRequest
BY DEF
    CanCreateStock, L!CanCreateStock, LP!CanCreateStock, CreateStock, L!CreateStock,
    LP!CreateStock, CanDeleteStock, L!CanDeleteStock, LP!CanDeleteStock, DeleteStock,
    L!DeleteStock, LP!DeleteStock, StockRequest, L!StockRequest, LP!StockRequest, Listed,
    L!Listed, LP!Listed, HasReferences, L!HasReferences, LP!HasReferences, OrderIds,
    L!OrderIds, LP!OrderIds

LEMMA DatabaseOfLedger ==
    /\ LP!Database = Database
    /\ L!InitialDatabase = InitialDatabase /\ LP!InitialDatabase = InitialDatabase
BY DEF
    Database, L!Database, LP!Database, InitialDatabase, L!InitialDatabase,
    LP!InitialDatabase, OrderIds, L!OrderIds, LP!OrderIds, User, L!User, LP!User, Position,
    L!Position, LP!Position, NoPosition, L!NoPosition, LP!NoPosition, Order, L!Order,
    LP!Order, NoOrder, L!NoOrder, LP!NoOrder, Trade, L!Trade, LP!Trade, Listing, L!Listing,
    LP!Listing

\* A request served on the database is a step of the ledger.
LEMMA ServedByLedger ==
    ASSUME NEW op \in Request, Allowed(db, op), db' = After(db, op)
    PROVE  L!Next /\ LP!Next
<1>1. CASE op \in CreateBuyRequest
  <2>1. CanCreateBuy(db, op) /\ db' = CreateBuy(db, op)
    BY <1>1 DEF Allowed, After, CreateBuyRequest
  <2>2. QED
    BY <1>1, <2>1, CreateBuyOfLedger DEF L!Next, LP!Next, L!CreateBuyOrder, LP!CreateBuyOrder
<1>2. CASE op \in CreateSellRequest
  <2>1. CanCreateSell(db, op) /\ db' = CreateSell(db, op)
    BY <1>2 DEF Allowed, After, CreateSellRequest
  <2>2. QED
    BY <1>2, <2>1, CreateSellOfLedger DEF L!Next, LP!Next, L!CreateSellOrder, LP!CreateSellOrder
<1>3. CASE op \in CancelRequest
  <2>1. CanCancel(db, op) /\ db' = CancelOrder(db, op)
    BY <1>3 DEF Allowed, After, CancelRequest
  <2>2. QED
    BY <1>3, <2>1, CancelOfLedger DEF L!Next, LP!Next, L!Cancel, LP!Cancel
<1>4. CASE op \in ExecuteRequest
  <2>1. CanExecute(db, op) /\ db' = ExecuteOrder(db, op)
    BY <1>4 DEF Allowed, After, ExecuteRequest
  <2>2. QED
    BY <1>4, <2>1, ExecuteOfLedger DEF L!Next, LP!Next, L!Execute, LP!Execute
<1>5. CASE op \in MarketRequest
  <2>1. CASE op.kind = "MARKET_BUY"
    <3>1. CanMarketBuy(db, op) /\ db' = MarketBuy(db, op)
      BY <2>1 DEF Allowed, After
    <3>2. QED
      BY <1>5, <2>1, <3>1, MarketOfLedger DEF L!Next, LP!Next, L!BuyAtMarket, LP!BuyAtMarket
  <2>2. CASE op.kind = "MARKET_SELL"
    <3>1. CanMarketSell(db, op) /\ db' = MarketSell(db, op)
      BY <2>2 DEF Allowed, After
    <3>2. QED
      BY <1>5, <2>2, <3>1, MarketOfLedger DEF L!Next, LP!Next, L!SellAtMarket, LP!SellAtMarket
  <2>3. QED
    BY <1>5, <2>1, <2>2 DEF MarketRequest
<1>6. CASE op \in StockRequest
  <2>1. CASE op.kind = "CREATE_STOCK"
    <3>1. CanCreateStock(db, op) /\ db' = CreateStock(db, op)
      BY <2>1 DEF Allowed, After
    <3>2. QED
      BY <1>6, <2>1, <3>1, StockOfLedger DEF L!Next, LP!Next, L!List, LP!List
  <2>2. CASE op.kind = "DELETE_STOCK"
    <3>1. CanDeleteStock(db, op) /\ db' = DeleteStock(db, op)
      BY <2>2 DEF Allowed, After
    <3>2. QED
      BY <1>6, <2>2, <3>1, StockOfLedger DEF L!Next, LP!Next, L!Delist, LP!Delist
  <2>3. QED
    BY <1>6, <2>1, <2>2 DEF StockRequest
<1>7. QED
  BY <1>1, <1>2, <1>3, <1>4, <1>5, <1>6 DEF Request, CreatingRequest

-----------------------------------------------------------------------------
(* The inductive invariant *)

\* The committed database is one the ledger reaches, and the reservations that a
\* snapshot shows are backed, as the callback's execution supposes.
TxInvariant ==
    /\ SnapshotCurrent
    /\ DeletionSeesReferences
    /\ LP!BooksInvariant
    /\ \A r \in Requests : /\ phase[r] = "OPEN" => request[r] \in Request
                           /\ Deliverable(snapshot[r])

LEMMA DeliverableOfLedger == LP!BooksInvariant => Deliverable(db)
<1>1. LP!BooksInvariant => LP!Deliverable(db)
  BY LP!BooksDeliver, OrderRulesAssumption DEF OrderRulesAssumption
<1>2. LP!Deliverable(db) => Deliverable(db)
  BY DEF LP!Deliverable, Deliverable, LP!OrderIds, OrderIds
<1>3. QED
  BY <1>1, <1>2

LEMMA LedgerStep == LP!BooksInvariant /\ [LP!Next]_db => LP!BooksInvariant'
<1>1. LP!LedgerInvariant /\ [LP!Next]_db => LP!LedgerInvariant'
  BY LP!InvariantStep, OrderRulesAssumption DEF OrderRulesAssumption
<1>2. LP!LedgerInvariant /\ LP!Books(db) /\ [LP!Next]_db => LP!Books(db')
  BY LP!BooksStep, OrderRulesAssumption DEF OrderRulesAssumption
<1>3. QED
  BY <1>1, <1>2 DEF LP!BooksInvariant

LEMMA InitialTx == Init => TxInvariant
<1> SUFFICES ASSUME Init PROVE TxInvariant
  OBVIOUS
<1>1. LP!BooksInvariant
  <2>1. LP!Init
    BY DatabaseOfLedger DEF Init, LP!Init
  <2>2. LP!Init => LP!LedgerInvariant
    BY LP!InitialInvariant, OrderRulesAssumption DEF OrderRulesAssumption
  <2>3. LP!Init => LP!Books(db)
    BY LP!InitialBooks, OrderRulesAssumption DEF OrderRulesAssumption
  <2>4. QED
    BY <2>1, <2>2, <2>3 DEF LP!BooksInvariant
<1>2. Deliverable(InitialDatabase)
  BY DEF Deliverable, InitialDatabase, NoOrder
<1>3. TypeOK
  BY InitialTypeOK DEF Init, TypeOK, DocumentSet, NoDocuments
<1>4. \A r \in Requests : phase[r] # "OPEN" /\ snapshot[r] = InitialDatabase
  BY DEF Init
<1>5. SnapshotCurrent /\ DeletionSeesReferences
  BY <1>3, <1>4 DEF SnapshotCurrent, DeletionSeesReferences
<1>6. QED
  BY <1>1, <1>2, <1>4, <1>5 DEF TxInvariant

\* A transaction that meets no conflict finds what it writes as it read it, and
\* so serves one request on the database as it is at its commit.
LEMMA CommitServes ==
    ASSUME TxInvariant, NEW r \in Requests, Commit(r)
    PROVE  \E op \in Request :
               /\ Allowed(db, op) /\ db' = After(db, op)
               /\ TouchedStocks(op) \subseteq TouchedStocks(request[r])
               /\ TouchedOrders(op) \subseteq TouchedOrders(request[r])
<1> DEFINE d == snapshot[r]
           op == request[r]
           w == Writes(d, op)
<1>1. /\ phase[r] = "OPEN" /\ Allowed(d, op) /\ Disjoint(w, missed[r])
      /\ db' = Merged(db, d, After(d, op), w)
  BY DEF Commit, Conflicts
<1>2. /\ TypeOK /\ op \in Request /\ Deliverable(d)
      /\ \A u \in Users \ missed[r].users : d.users[u] = db.users[u]
      /\ \A h \in (Users \X Symbols) \ missed[r].positions : d.positions[h] = db.positions[h]
      /\ \A o \in OrderIds \ missed[r].orders :
             d.orders[o] = db.orders[o] /\ d.trades[o] = db.trades[o]
      /\ \A s \in Symbols \ missed[r].stocks : d.stocks[s] = db.stocks[s]
  BY <1>1 DEF TxInvariant, SnapshotCurrent
<1>3. db \in Database /\ d \in Database
  BY <1>2 DEF TypeOK
<1>4. /\ w.users \subseteq Users /\ w.positions \subseteq Users \X Symbols
      /\ w.orders = TouchedOrders(op) /\ w.stocks = TouchedStocks(op)
  BY DEF Writes
<1>5. w.orders \subseteq OrderIds /\ w.stocks \subseteq Symbols
  BY <1>2, <1>4 DEF TouchedOrders, TouchedStocks, Request, CreatingRequest, CreateBuyRequest,
                    CreateSellRequest, MarketRequest, CancelRequest, ExecuteRequest, StockRequest
<1>6. Undisturbed(db, d, w)
  <2> HIDE DEF d, op, w
  <2>1. QED
    BY <1>1, <1>2, <1>4, <1>5 DEF Undisturbed, Disjoint
<1>7. ASSUME op.kind = "DELETE_STOCK", HasReferences(db, op.symbol)
      PROVE  HasReferences(d, op.symbol)
  <2>1. op.symbol \in w.stocks
    BY <1>4, <1>7 DEF TouchedStocks
  <2>2. op.symbol \in Symbols \ missed[r].stocks
    BY <1>1, <1>5, <2>1 DEF Disjoint
  <2>3. QED
    BY <1>1, <1>7, <2>2 DEF TxInvariant, DeletionSeesReferences
<1> HIDE DEF d, op
<1>8. Serves(db, d, op)
  BY <1>1, <1>2, <1>3, <1>6, <1>7, AllServe
<1>9. QED
  BY <1>1, <1>8 DEF Serves, op

\* In a step that commits nothing, a transaction stays as it is, reads the
\* database (again), or is over.
Steady(q) == /\ phase'[q] = phase[q] /\ request'[q] = request[q]
             /\ snapshot'[q] = snapshot[q] /\ missed'[q] = missed[q]

Fresh(q) == snapshot'[q] = db /\ request'[q] \in Request

Over(q) == phase'[q] # "OPEN" /\ snapshot'[q] = InitialDatabase

LEMMA QuietStep ==
    ASSUME TxInvariant, TypeOK', UNCHANGED db,
           \A q \in Requests : Steady(q) \/ Fresh(q) \/ Over(q)
    PROVE  TxInvariant'
<1>1. LP!BooksInvariant'
  BY LedgerStep DEF TxInvariant
<1>2. ASSUME NEW q \in Requests
      PROVE  (phase[q] = "OPEN" => request[q] \in Request)' /\ Deliverable(snapshot'[q])
  <2>1. Deliverable(InitialDatabase)
    BY DEF Deliverable, InitialDatabase, NoOrder
  <2>2. Deliverable(db) /\ Deliverable(snapshot[q]) /\ (phase[q] = "OPEN" => request[q] \in Request)
    BY DeliverableOfLedger DEF TxInvariant
  <2>3. QED
    BY <2>1, <2>2 DEF Steady, Fresh, Over
<1>3. ASSUME NEW q \in Requests, phase'[q] = "OPEN"
      PROVE  /\ \A u \in Users \ missed'[q].users : snapshot'[q].users[u] = db'.users[u]
             /\ \A h \in (Users \X Symbols) \ missed'[q].positions :
                    snapshot'[q].positions[h] = db'.positions[h]
             /\ \A o \in OrderIds \ missed'[q].orders :
                    /\ snapshot'[q].orders[o] = db'.orders[o]
                    /\ snapshot'[q].trades[o] = db'.trades[o]
             /\ \A s \in Symbols \ missed'[q].stocks : snapshot'[q].stocks[s] = db'.stocks[s]
             /\ \A s \in Symbols : s \notin missed'[q].stocks /\ HasReferences(db, s)
                                       => HasReferences(snapshot'[q], s)
  <2>1. CASE Fresh(q)
    BY <2>1 DEF Fresh
  <2>2. CASE Steady(q)
    BY <1>3, <2>2 DEF Steady, TxInvariant, SnapshotCurrent, DeletionSeesReferences
  <2>3. QED
    BY <1>3, <2>1, <2>2 DEF Over
<1>4. SnapshotCurrent'
  BY <1>3 DEF SnapshotCurrent
<1>5. DeletionSeesReferences'
  BY <1>3 DEF DeletionSeesReferences
<1>6. QED
  BY <1>1, <1>2, <1>4, <1>5 DEF TxInvariant

LEMMA BeginTx ==
    ASSUME TxInvariant, NEW r \in Requests, NEW op \in Request, Begin(r, op)
    PROVE  TxInvariant'
<1>1. TypeOK
  BY DEF TxInvariant, SnapshotCurrent
<1>2. TypeOK' /\ UNCHANGED db
  BY <1>1 DEF TypeOK, Begin
<1>3. ASSUME NEW q \in Requests
      PROVE  Steady(q) \/ Fresh(q)
  BY <1>1 DEF TypeOK, Begin, Steady, Fresh
<1>4. QED
  BY <1>2, <1>3, QuietStep

\* A callback that runs again serves a request that differs in its rates only.
LEMMA RereadType ==
    ASSUME NEW req \in Request, NEW fx \in FxRates, NEW rate \in CommissionRates
    PROVE  Reread(req, fx, rate) \in Request
<1> DEFINE op == Reread(req, fx, rate)
<1>1. CASE op = req
  BY <1>1
<1>2. CASE op # req
  <2>1. req.kind \in {"CREATE_BUY", "EXECUTE"} /\ op = [req EXCEPT !.fx = fx, !.rate = rate]
    BY <1>2 DEF Reread
  <2>2. req \in CreateBuyRequest \/ req \in ExecuteRequest
    BY <2>1 DEF Request, CreatingRequest, CreateBuyRequest, CreateSellRequest, MarketRequest,
                CancelRequest, ExecuteRequest, StockRequest
  <2> HIDE DEF op
  <2>3. CASE req \in CreateBuyRequest
    <3>1. op \in CreateBuyRequest
      BY <2>1, <2>3 DEF CreateBuyRequest
    <3>2. QED
      BY <3>1 DEF Request, CreatingRequest, op
  <2>4. CASE req \in ExecuteRequest
    <3>1. op \in ExecuteRequest
      BY <2>1, <2>4 DEF ExecuteRequest
    <3>2. QED
      BY <3>1 DEF Request, op
  <2>5. QED
    BY <2>2, <2>3, <2>4
<1>3. QED
  BY <1>1, <1>2

LEMMA RetryTx ==
    ASSUME TxInvariant, NEW r \in Requests, Retry(r)
    PROVE  TxInvariant'
<1>1. TypeOK /\ request[r] \in Request
  BY DEF TxInvariant, SnapshotCurrent, Retry
<1>2. PICK fx \in FxRates, rate \in CommissionRates :
          request' = [request EXCEPT ![r] = Reread(request[r], fx, rate)]
  BY DEF Retry
<1> DEFINE op == Reread(request[r], fx, rate)
<1>3. op \in Request
  BY <1>1, RereadType
<1> HIDE DEF op
<1>4. TypeOK' /\ UNCHANGED db
  <2>1. NoDocuments \in DocumentSet
    BY DEF NoDocuments, DocumentSet
  <2>2. QED
    BY <1>1, <1>2, <1>3, <2>1 DEF TypeOK, Retry, op
<1>5. ASSUME NEW q \in Requests
      PROVE  Steady(q) \/ Fresh(q)
  BY <1>1, <1>2, <1>3 DEF TypeOK, Retry, Steady, Fresh, op
<1>6. QED
  BY <1>4, <1>5, QuietStep

LEMMA GivenUpTx ==
    ASSUME TxInvariant, NEW r \in Requests, Reject(r) \/ Fail(r)
    PROVE  TxInvariant'
<1>1. TypeOK
  BY DEF TxInvariant, SnapshotCurrent
<1>2. UNCHANGED db /\ Close(r) /\ missed' = [missed EXCEPT ![r] = NoDocuments]
  BY DEF Reject, Fail
<1>3. TypeOK'
  <2>1. NoDocuments \in DocumentSet /\ InitialDatabase \in Database
    BY InitialTypeOK DEF NoDocuments, DocumentSet
  <2>2. QED
    BY <1>1, <1>2, <2>1 DEF TypeOK, Close
<1>4. ASSUME NEW q \in Requests
      PROVE  Steady(q) \/ Over(q)
  BY <1>1, <1>2 DEF TypeOK, Close, Steady, Over
<1>5. QED
  BY <1>2, <1>3, <1>4, QuietStep

LEMMA CommitTx ==
    ASSUME TxInvariant, NEW r \in Requests, Commit(r)
    PROVE  TxInvariant'
<1> DEFINE w == Writes(snapshot[r], request[r])
           e == After(snapshot[r], request[r])
<1>1. TypeOK /\ request[r] \in Request
  BY DEF TxInvariant, SnapshotCurrent, Commit
<1>2. /\ db' = Merged(db, snapshot[r], e, w)
      /\ missed' = [q \in Requests |-> IF q = r \/ phase[q] # "OPEN" THEN NoDocuments
                                                                     ELSE Both(missed[q], w)]
      /\ phase' = [phase EXCEPT ![r] = "DONE"]
      /\ request' = [request EXCEPT ![r] = NoRequest]
      /\ snapshot' = [snapshot EXCEPT ![r] = InitialDatabase]
  BY DEF Commit, Close
<1>3. PICK op \in Request :
          /\ Allowed(db, op) /\ db' = After(db, op)
          /\ TouchedStocks(op) \subseteq TouchedStocks(request[r])
          /\ TouchedOrders(op) \subseteq TouchedOrders(request[r])
  BY CommitServes
<1>4. db' \in Database /\ ChangesTouched(db, db', op)
  BY <1>1, <1>3, AllTouched DEF TypeOK
<1>5. LP!BooksInvariant'
  <2>1. LP!Next
    BY <1>3, ServedByLedger
  <2>2. QED
    BY <2>1, LedgerStep DEF TxInvariant
<1>6. w \in DocumentSet /\ w.orders = TouchedOrders(request[r])
      /\ w.stocks = TouchedStocks(request[r])
  <2>1. TouchedOrders(request[r]) \subseteq OrderIds /\ TouchedStocks(request[r]) \subseteq Symbols
    BY <1>1 DEF TouchedOrders, TouchedStocks, Request, CreatingRequest, CreateBuyRequest,
                CreateSellRequest, MarketRequest, CancelRequest, ExecuteRequest, StockRequest
  <2>2. QED
    BY <2>1 DEF Writes, DocumentSet
<1> HIDE DEF w, e
<1>7. NoDocuments \in DocumentSet /\ InitialDatabase \in Database
  BY InitialTypeOK DEF NoDocuments, DocumentSet
<1>8. \A q \in Requests : Both(missed[q], w) \in DocumentSet
  BY <1>1, <1>6 DEF TypeOK, Both, DocumentSet
<1>9. TypeOK'
  BY <1>1, <1>2, <1>4, <1>7, <1>8 DEF TypeOK
<1>10. ASSUME NEW q \in Requests
       PROVE  (phase[q] = "OPEN" => request[q] \in Request)' /\ Deliverable(snapshot'[q])
  <2>1. Deliverable(InitialDatabase)
    BY DEF Deliverable, InitialDatabase, NoOrder
  <2>2. Deliverable(snapshot[q]) /\ (phase[q] = "OPEN" => request[q] \in Request)
    BY DEF TxInvariant
  <2>3. QED
    BY <1>1, <1>2, <2>1, <2>2 DEF TypeOK
<1>11. \* what another has not missed, this commit did not write
       /\ \A u \in Users \ w.users : db'.users[u] = db.users[u]
       /\ \A h \in (Users \X Symbols) \ w.positions : db'.positions[h] = db.positions[h]
       /\ \A o \in OrderIds \ w.orders : db'.orders[o] = db.orders[o]
       /\ \A o \in OrderIds \ w.orders : db'.trades[o] = db.trades[o]
       /\ \A s \in Symbols \ w.stocks : db'.stocks[s] = db.stocks[s]
       /\ \A s \in Symbols \ w.stocks : HasReferences(db', s) => HasReferences(db, s)
  <2>1. /\ \A o \in OrderIds \ w.orders : db'.trades[o] = db.trades[o]
        /\ \A s \in Symbols \ w.stocks : HasReferences(db', s) => HasReferences(db, s)
    BY <1>3, <1>4, <1>6 DEF ChangesTouched
  <2>2. /\ \A u \in Users \ w.users : db'.users[u] = db.users[u]
        /\ \A h \in (Users \X Symbols) \ w.positions : db'.positions[h] = db.positions[h]
        /\ \A o \in OrderIds \ w.orders : db'.orders[o] = db.orders[o]
        /\ \A s \in Symbols \ w.stocks : db'.stocks[s] = db.stocks[s]
    BY <1>2 DEF Merged
  <2>3. QED
    BY <2>1, <2>2
<1>12. ASSUME NEW q \in Requests, phase'[q] = "OPEN"
       PROVE  /\ \A u \in Users \ missed'[q].users : snapshot'[q].users[u] = db'.users[u]
              /\ \A h \in (Users \X Symbols) \ missed'[q].positions :
                     snapshot'[q].positions[h] = db'.positions[h]
              /\ \A o \in OrderIds \ missed'[q].orders :
                     /\ snapshot'[q].orders[o] = db'.orders[o]
                     /\ snapshot'[q].trades[o] = db'.trades[o]
              /\ \A s \in Symbols \ missed'[q].stocks : snapshot'[q].stocks[s] = db'.stocks[s]
              /\ \A s \in Symbols : s \notin missed'[q].stocks /\ HasReferences(db', s)
                                        => HasReferences(snapshot'[q], s)
  <2>1. q # r /\ phase[q] = "OPEN"
    BY <1>1, <1>2, <1>12 DEF TypeOK
  <2>2. snapshot'[q] = snapshot[q] /\ missed'[q] = Both(missed[q], w)
    BY <1>1, <1>2, <2>1 DEF TypeOK
  <2>3. /\ \A u \in Users \ missed[q].users : snapshot[q].users[u] = db.users[u]
        /\ \A h \in (Users \X Symbols) \ missed[q].positions :
               snapshot[q].positions[h] = db.positions[h]
        /\ \A o \in OrderIds \ missed[q].orders :
               /\ snapshot[q].orders[o] = db.orders[o]
               /\ snapshot[q].trades[o] = db.trades[o]
        /\ \A s \in Symbols \ missed[q].stocks : snapshot[q].stocks[s] = db.stocks[s]
        /\ \A s \in Symbols : s \notin missed[q].stocks /\ HasReferences(db, s)
                                  => HasReferences(snapshot[q], s)
    BY <2>1 DEF TxInvariant, SnapshotCurrent, DeletionSeesReferences
  <2>4. QED
    BY <1>11, <2>2, <2>3 DEF Both
<1>13. SnapshotCurrent'
  BY <1>9, <1>12 DEF SnapshotCurrent
<1>14. DeletionSeesReferences'
  BY <1>12 DEF DeletionSeesReferences
<1>15. QED
  BY <1>5, <1>10, <1>13, <1>14 DEF TxInvariant

LEMMA TxStep == TxInvariant /\ [Next]_vars => TxInvariant'
<1> SUFFICES ASSUME TxInvariant, [Next]_vars PROVE TxInvariant'
  OBVIOUS
<1>1. CASE UNCHANGED vars
  <2>1. TypeOK' /\ UNCHANGED db
    BY <1>1 DEF TxInvariant, SnapshotCurrent, TypeOK, vars
  <2>2. \A q \in Requests : Steady(q)
    BY <1>1 DEF vars, Steady
  <2>3. QED
    BY <2>1, <2>2, QuietStep
<1>2. CASE Next
  BY <1>2, BeginTx, CommitTx, RetryTx, GivenUpTx DEF Next
<1>3. QED
  BY <1>1, <1>2

LEMMA TxInvariance == Spec => []TxInvariant
<1>1. Init => TxInvariant
  BY InitialTx
<1>2. TxInvariant /\ [Next]_vars => TxInvariant'
  BY TxStep
<1>3. QED
  BY <1>1, <1>2, PTL DEF Spec

-----------------------------------------------------------------------------
(* Theorems *)

\* What no other transaction has committed since a transaction's snapshot is still
\* as the snapshot shows it, for any number of concurrent requests: no commit
\* escapes the write sets by which session.withTransaction finds its conflicts.
THEOREM TransactionsSnapshotCurrent == Spec => []SnapshotCurrent
<1>1. TxInvariant => SnapshotCurrent
  BY DEF TxInvariant
<1>2. QED
  BY <1>1, TxInvariance, PTL

\* deleteStock, which only reads orders, positions and trades, never misses a
\* reference: an order, position or trade made since its snapshot has bumped the
\* stock, or belongs to an order the snapshot already shows.
THEOREM TransactionsDeletionSeesReferences == Spec => []DeletionSeesReferences
<1>1. TxInvariant => DeletionSeesReferences
  BY DEF TxInvariant
<1>2. QED
  BY <1>1, TxInvariance, PTL

\* The transactions of the orders service and of the stock administration are
\* the ledger: every commit does to the committed database what one request,
\* served alone at that instant, would do, although the handler read a snapshot
\* and wrote only what it changed; every other step leaves the database alone.
THEOREM TransactionsImplementLedger == Spec => ImplementsLedger
<1>1. Init => L!Init
  BY DatabaseOfLedger DEF Init, L!Init
<1>2. TxInvariant /\ [Next]_vars => [L!Next]_db
  <2> SUFFICES ASSUME TxInvariant, [Next]_vars PROVE [L!Next]_db
    OBVIOUS
  <2>1. ASSUME NEW r \in Requests, Commit(r)
        PROVE  L!Next
    BY <2>1, CommitServes, ServedByLedger
  <2>2. CASE UNCHANGED db
    BY <2>2
  <2>3. QED
    BY <2>1, <2>2 DEF Next, Begin, Retry, Reject, Fail, vars
<1>3. Spec => L!Init /\ [][L!Next]_db
  BY <1>1, <1>2, TxInvariance, PTL DEF Spec
<1>4. QED
  BY <1>3 DEF ImplementsLedger, L!Spec

\* With every stock in CLP, the trades account for every cent of a user's money,
\* whatever reservations, executions and cancellations the concurrent
\* transactions lost, retried or gave up on the way.
THEOREM TransactionsCashConserved == Spec => []CashConserved
<1>1. LP!Spec => []LP!CashConserved
  BY LP!LedgerCashConserved, OrderRulesAssumption DEF OrderRulesAssumption
<1>2. Init => LP!Init
  BY DatabaseOfLedger DEF Init, LP!Init
<1>3. TxInvariant /\ [Next]_vars => [LP!Next]_db
  <2> SUFFICES ASSUME TxInvariant, [Next]_vars PROVE [LP!Next]_db
    OBVIOUS
  <2>1. ASSUME NEW r \in Requests, Commit(r)
        PROVE  LP!Next
    BY <2>1, CommitServes, ServedByLedger
  <2>2. CASE UNCHANGED db
    BY <2>2
  <2>3. QED
    BY <2>1, <2>2 DEF Next, Begin, Retry, Reject, Fail, vars
<1>4. Spec => LP!Init /\ [][LP!Next]_db
  BY <1>2, <1>3, TxInvariance, PTL DEF Spec
<1>5. Spec => LP!Spec
  BY <1>4 DEF LP!Spec
<1>6. LP!CashConserved => CashConserved
  <2>1. ASSUME NEW f
        PROVE  L!SumFunction(f) = LP!SumFunction(f)
    BY DEF L!SumFunction, LP!SumFunction, L!SumFunctionOnSet, LP!SumFunctionOnSet,
           L!FoldFunctionOnSet, LP!FoldFunctionOnSet, L!MapThenFoldSet, LP!MapThenFoldSet
  <2>2. ASSUME NEW u
        PROVE  L!CashTraded(u) = LP!CashTraded(u)
    <3>1. L!TradesOf(u) = LP!TradesOf(u)
      BY DEF L!TradesOf, LP!TradesOf, L!OrderIds, LP!OrderIds
    <3>2. \A k : L!TradeAt(k) = LP!TradeAt(k)
      BY DEF L!TradeAt, LP!TradeAt
    <3> DEFINE f == [k \in L!TradesOf(u) |->
                       IF L!TradeAt(k).side = "BUY" THEN -L!TradeAt(k).netAmount
                                                    ELSE L!TradeAt(k).netAmount]
               g == [k \in LP!TradesOf(u) |->
                       IF LP!TradeAt(k).side = "BUY" THEN -LP!TradeAt(k).netAmount
                                                     ELSE LP!TradeAt(k).netAmount]
    <3>3. f = g
      BY <3>1, <3>2
    <3>4. L!CashTraded(u) = L!SumFunction(f) /\ LP!CashTraded(u) = LP!SumFunction(g)
      BY DEF L!CashTraded, LP!CashTraded, L!Total, LP!Total
    <3> HIDE DEF f, g
    <3>5. QED
      BY <2>1, <3>3, <3>4
  <2>3. L!EveryStockInClp <=> LP!EveryStockInClp
    BY DEF L!EveryStockInClp, LP!EveryStockInClp, L!InClp, LP!InClp
  <2>4. ASSUME LP!CashConserved, LP!EveryStockInClp, NEW u \in Users
        PROVE  db.users[u].availableBalance + db.users[u].reservedBalance =
                   InitialBalance + L!CashTraded(u)
    <3>1. db.users[u].availableBalance + db.users[u].reservedBalance =
              InitialBalance + LP!CashTraded(u)
      BY <2>4 DEF LP!CashConserved
    <3>2. QED
      BY <2>2, <3>1
  <2>5. QED
    BY <2>3, <2>4 DEF CashConserved, L!CashConserved
<1>7. QED
  BY <1>1, <1>5, <1>6, PTL
=============================================================================
