-------------------------- MODULE OrderRulesProofs --------------------------
(***************************************************************************)
(* Lemmas about the handlers of OrderRules, for every database: amounts    *)
(* are natural numbers, what each handler changes, and that it keeps the   *)
(* schema.                                                                 *)
(***************************************************************************)
EXTENDS OrderRules, TLAPS

-----------------------------------------------------------------------------
(* Amounts *)

LEMMA ProductNat ==
    ASSUME NEW a \in Nat, NEW b \in Nat
    PROVE  a * b \in Nat
OBVIOUS

LEMMA DivisionNat ==
    ASSUME NEW a \in Nat, NEW b \in Nat, b > 0
    PROVE  a \div b \in Nat
OBVIOUS

LEMMA QuotientNat ==
    ASSUME NEW n \in Nat, NEW m \in Nat, m > 0
    PROVE  Quotient(n, m) \in Nat
<1>1. 2 * n + m \in Nat /\ 2 * m \in Nat /\ 2 * m > 0
  OBVIOUS
<1>2. QED
  BY <1>1, DivisionNat DEF Quotient

LEMMA ProductMonotone ==
    ASSUME NEW x \in Nat, NEW y \in Nat, NEW b \in Nat, x <= y
    PROVE  x * b <= y * b
<1> DEFINE k == y - x
<1>1. k \in Nat /\ y = x + k
  OBVIOUS
<1>2. (x + k) * b = x * b + k * b
  BY <1>1
<1>3. k * b \in Nat /\ x * b \in Nat
  BY <1>1, ProductNat
<1>4. QED
  BY <1>1, <1>2, <1>3

LEMMA DivisionBetween ==
    ASSUME NEW a \in Nat, NEW b \in Nat, b > 0, NEW low \in Nat, NEW high \in Nat,
           low * b <= a, a < (high + 1) * b
    PROVE  low <= a \div b /\ a \div b <= high
<1> DEFINE c == a \div b
<1>1. c \in Nat /\ c * b <= a /\ a < (c + 1) * b
  OBVIOUS
<1> HIDE DEF c
<1>2. c * b \in Nat /\ (c + 1) * b \in Nat /\ low * b \in Nat /\ (high + 1) * b \in Nat
  BY <1>1, ProductNat
<1>3. c + 1 <= low => (c + 1) * b <= low * b
  BY <1>1, ProductMonotone
<1>4. high + 1 <= c => (high + 1) * b <= c * b
  BY <1>1, ProductMonotone
<1>5. ~(c + 1 <= low) /\ ~(high + 1 <= c)
  BY <1>1, <1>2, <1>3, <1>4
<1>6. QED
  BY <1>1, <1>5 DEF c

\* A weighted mean rounded half up stays between natural numbers it was between.
LEMMA QuotientBetween ==
    ASSUME NEW n \in Nat, NEW m \in Nat, m > 0, NEW low \in Nat, NEW high \in Nat,
           low * m <= n, n <= high * m
    PROVE  low <= Quotient(n, m) /\ Quotient(n, m) <= high
<1> DEFINE a == 2 * n + m
           b == 2 * m
           lm == low * m
           hm == high * m
<1>1. lm \in Nat /\ hm \in Nat
  BY ProductNat
<1>2. low * b = 2 * lm /\ (high + 1) * b = 2 * hm + 2 * m
  OBVIOUS
<1>3. a \in Nat /\ b \in Nat /\ b > 0 /\ lm <= n /\ n <= hm
  OBVIOUS
<1>4. 2 * lm <= a /\ a < 2 * hm + 2 * m
  <2> HIDE DEF lm, hm
  <2>1. QED
    BY <1>1, <1>3
<1>5. Quotient(n, m) = a \div b
  BY DEF Quotient
<1> HIDE DEF a, b, lm, hm
<1>6. low * b <= a /\ a < (high + 1) * b
  BY <1>2, <1>4
<1>7. QED
  BY <1>3, <1>5, <1>6, DivisionBetween

LEMMA CommissionBound ==
    ASSUME NEW gross \in Nat, NEW rate \in Nat, rate <= 10000
    PROVE  Commission(gross, rate) \in Nat /\ Commission(gross, rate) <= gross
<1> DEFINE product == gross * rate
<1>1. product \in Nat /\ 0 * 10000 <= product /\ product <= gross * 10000
  OBVIOUS
<1> HIDE DEF product
<1>2. Quotient(product, 10000) \in Nat /\ Quotient(product, 10000) <= gross
  BY <1>1, QuotientNat, QuotientBetween
<1>3. QED
  BY <1>2 DEF Commission, product

LEMMA GrossNat ==
    ASSUME NEW q \in Nat, NEW p \in Nat
    PROVE  Gross(q, p) \in Nat
<1>1. q * p \in Nat
  BY ProductNat
<1>2. QED
  BY <1>1, OrderRulesAssumption, QuotientNat DEF Gross

\* A price between whole numbers of cents is worth between as many cents a share.
LEMMA GrossBetween ==
    ASSUME NEW q \in Nat, NEW p \in Nat, NEW low \in Nat, NEW high \in Nat,
           PriceScale * low <= p, p <= PriceScale * high
    PROVE  q * low <= Gross(q, p) /\ Gross(q, p) <= q * high
<1>1. PriceScale \in Nat /\ PriceScale > 0
  BY OrderRulesAssumption
<1> DEFINE lower == PriceScale * low
           upper == PriceScale * high
<1>2. lower \in Nat /\ upper \in Nat /\ lower <= p /\ p <= upper
  BY <1>1, ProductNat
<1>3. lower * q = (q * low) * PriceScale /\ upper * q = (q * high) * PriceScale
  BY <1>1
<1> HIDE DEF lower, upper
<1>4. lower * q <= p * q /\ p * q <= upper * q
  BY <1>2, ProductMonotone
<1>5. p * q = q * p
  OBVIOUS
<1>6. q * p \in Nat /\ q * low \in Nat /\ q * high \in Nat
  BY ProductNat
<1>7. (q * low) * PriceScale <= q * p /\ q * p <= (q * high) * PriceScale
  BY <1>3, <1>4, <1>5
<1>8. QED
  BY <1>1, <1>6, <1>7, QuotientBetween DEF Gross

LEMMA AmountsNat ==
    ASSUME NEW q \in Quantities, NEW p \in Prices, NEW fx \in FxRates,
           NEW rate \in CommissionRates
    PROVE  /\ GrossClp(q, p, fx) \in Nat
           /\ Cost(GrossClp(q, p, fx), rate) \in Nat
           /\ Proceeds(GrossClp(q, p, fx), rate) \in Nat
           /\ Cost(Gross(q, p), rate) \in Nat
           /\ Proceeds(Gross(q, p), rate) \in Nat
<1>1. q \in Nat /\ p \in Nat /\ fx \in Nat /\ rate \in Nat /\ rate <= 10000
  BY OrderRulesAssumption
<1>2. p * fx \in Nat /\ 10000 * PriceScale \in Nat /\ 10000 * PriceScale > 0
  BY <1>1, ProductNat, OrderRulesAssumption
<1>3. PriceClp(p, fx) \in Nat
  BY <1>2, QuotientNat DEF PriceClp
<1>4. Gross(q, p) \in Nat
  BY <1>1, GrossNat
<1>5. GrossClp(q, p, fx) \in Nat
  BY <1>1, <1>3, <1>4, ProductNat DEF GrossClp
<1>6. ASSUME NEW gross \in Nat
      PROVE  Cost(gross, rate) \in Nat /\ Proceeds(gross, rate) \in Nat
  <2>1. Commission(gross, rate) \in Nat /\ Commission(gross, rate) <= gross
    BY <1>1, CommissionBound
  <2>2. QED
    BY <2>1 DEF Cost, Proceeds
<1>7. QED
  BY <1>4, <1>5, <1>6

LEMMA ReservationNat ==
    ASSUME NEW op \in CreateBuyRequest
    PROVE  Reservation(op) \in Nat
<1>1. /\ op.quantity \in Quantities /\ op.limitPrice \in Prices
      /\ op.fx \in FxRates /\ op.rate \in CommissionRates
  BY DEF CreateBuyRequest
<1>2. op.quantity \in Nat /\ op.limitPrice \in Nat /\ op.rate \in Nat
  BY <1>1, OrderRulesAssumption
<1>3. op.quantity * op.limitPrice \in Nat
  BY <1>2, ProductNat
<1>4. op.quantity * op.limitPrice * op.rate \in Nat
  BY <1>2, <1>3, ProductNat
<1>5. LimitCommission(op) \in Nat /\ Gross(op.quantity, op.limitPrice) \in Nat
  <2>1. LimitCommission(op) \in Nat
    <3> DEFINE product == op.quantity * op.limitPrice * op.rate
               scale == 10000 * PriceScale
    <3>1. product \in Nat /\ scale \in Nat /\ scale > 0
      BY <1>4, OrderRulesAssumption
    <3>2. LimitCommission(op) = Quotient(product, scale)
      BY DEF LimitCommission
    <3> HIDE DEF product, scale
    <3>3. QED
      BY <3>1, <3>2, QuotientNat
  <2>2. Gross(op.quantity, op.limitPrice) \in Nat
    BY <1>2, GrossNat
  <2>3. QED
    BY <2>1, <2>2
<1>6. Cost(GrossClp(op.quantity, op.limitPrice, op.fx), op.rate) \in Nat
  BY <1>1, AmountsNat
<1>7. QED
  BY <1>5, <1>6 DEF Reservation

-----------------------------------------------------------------------------
(* What a handler changes, collection by collection *)

LEMMA CreateBuyEffect ==
    ASSUME NEW d \in Database, NEW op \in CreateBuyRequest
    PROVE  LET e == CreateBuy(d, op)
               amount == Reservation(op)
           IN  /\ e = [d EXCEPT !.users = e.users, !.orders = e.orders]
               /\ e.users = [d.users EXCEPT ![op.user] =
                                Adjusted(d.users[op.user], -amount, amount)]
               /\ e.orders = [d.orders EXCEPT ![op.order] =
                      NewOrder(op, "BUY", "LIMIT", op.limitPrice, "PENDING", amount)]
BY DEF CreateBuy, Database

LEMMA CreateSellEffect ==
    ASSUME NEW d \in Database, NEW op \in CreateSellRequest
    PROVE  LET e == CreateSell(d, op)
               h == <<op.user, op.symbol>>
           IN  /\ e = [d EXCEPT !.positions = e.positions, !.orders = e.orders]
               /\ e.positions = [d.positions EXCEPT ![h] =
                                    Moved(d.positions[h], 0, op.quantity)]
               /\ e.orders = [d.orders EXCEPT ![op.order] =
                      NewOrder(op, "SELL", "LIMIT", op.limitPrice, "PENDING", 0)]
BY DEF CreateSell, Database

LEMMA MarketBuyEffect ==
    ASSUME NEW d \in Database, NEW op \in MarketRequest
    PROVE  LET e == MarketBuy(d, op)
               h == <<op.user, op.symbol>>
           IN  /\ e = [d EXCEPT !.users = e.users, !.positions = e.positions,
                                !.orders = e.orders, !.trades = e.trades]
               /\ e.users = [d.users EXCEPT ![op.user] =
                      Adjusted(d.users[op.user], -CostClp(op.quantity, op), 0)]
               /\ e.positions = [d.positions EXCEPT ![h] =
                                    Bought(d.positions[h], op.quantity, op.price)]
               /\ e.orders = [d.orders EXCEPT ![op.order] =
                      NewOrder(op, "BUY", "MARKET", 0, "EXECUTED", 0)]
               /\ e.trades = [d.trades EXCEPT ![op.order] =
                      Append(d.trades[op.order],
                             NewTrade(op.user, op.symbol, "BUY", op.quantity, op))]
BY DEF MarketBuy, Database

LEMMA MarketSellEffect ==
    ASSUME NEW d \in Database, NEW op \in MarketRequest
    PROVE  LET e == MarketSell(d, op)
               h == <<op.user, op.symbol>>
           IN  /\ e = [d EXCEPT !.users = e.users, !.positions = e.positions,
                                !.orders = e.orders, !.trades = e.trades]
               /\ e.users = [d.users EXCEPT ![op.user] =
                      Adjusted(d.users[op.user], ProceedsClp(op.quantity, op), 0)]
               /\ e.positions = [d.positions EXCEPT ![h] =
                                    Sold(d.positions[h], op.quantity)]
               /\ e.orders = [d.orders EXCEPT ![op.order] =
                      NewOrder(op, "SELL", "MARKET", 0, "EXECUTED", 0)]
               /\ e.trades = [d.trades EXCEPT ![op.order] =
                      Append(d.trades[op.order],
                             NewTrade(op.user, op.symbol, "SELL", op.quantity, op))]
BY DEF MarketSell, Database

LEMMA StockEffect ==
    ASSUME NEW d \in Database, NEW op \in StockRequest
    PROVE  \A e \in {CreateStock(d, op), DeleteStock(d, op)} :
               e = [d EXCEPT !.stocks = e.stocks]
BY DEF CreateStock, DeleteStock, Database

\* Order op.order leaves PENDING without a trade.
Cancelled(d, e, op) ==
    LET order == d.orders[op.order]
        h == <<order.user, order.symbol>>
    IN  /\ e = [d EXCEPT !.users = e.users, !.positions = e.positions,
                         !.orders = e.orders]
        /\ e.orders = [d.orders EXCEPT ![op.order] =
                          [order EXCEPT !.status = "CANCELLED"]]
        /\ \/ /\ order.side = "BUY"
              /\ e.positions = d.positions
              /\ e.users = [d.users EXCEPT ![order.user] =
                               ReleaseCash(d.users[order.user], order)]
           \/ /\ order.side = "SELL"
              /\ e.users = d.users
              /\ e.positions = [d.positions EXCEPT ![h] =
                                   ReleaseShares(d.positions[h], order)]

\* Order op.order is settled by a trade, as a BUY or as a SELL.
FilledBuy(d, e, op) ==
    LET order == d.orders[op.order]
        user == d.users[order.user]
        h == <<order.user, order.symbol>>
        cost == CostClp(order.quantity, op)
    IN  /\ order.side = "BUY"
        /\ user.reservedBalance >= order.reservedAmount
        /\ user.availableBalance + order.reservedAmount >= cost
        /\ e.users = [d.users EXCEPT ![order.user] =
               Adjusted(user, order.reservedAmount - cost, -order.reservedAmount)]
        /\ e.positions = [d.positions EXCEPT ![h] =
                             Bought(d.positions[h], order.quantity, op.price)]

FilledSell(d, e, op) ==
    LET order == d.orders[op.order]
        h == <<order.user, order.symbol>>
    IN  /\ order.side = "SELL"
        /\ d.positions[h].quantity >= order.quantity
        /\ d.positions[h].reservedQuantity >= order.quantity
        /\ e.users = [d.users EXCEPT ![order.user] =
               Adjusted(d.users[order.user], ProceedsClp(order.quantity, op), 0)]
        /\ e.positions = [d.positions EXCEPT ![h] =
               Sold(ReleaseShares(d.positions[h], order), order.quantity)]

Filled(d, e, op) ==
    LET order == d.orders[op.order]
    IN  /\ FilledBuy(d, e, op) \/ FilledSell(d, e, op)
        /\ e = [d EXCEPT !.users = e.users, !.positions = e.positions,
                         !.orders = e.orders, !.trades = e.trades]
        /\ e.orders = [d.orders EXCEPT ![op.order] =
                          [order EXCEPT !.status = "EXECUTED"]]
        /\ e.trades = [d.trades EXCEPT ![op.order] =
               Append(d.trades[op.order],
                      NewTrade(order.user, order.symbol, order.side,
                               order.quantity, op))]

LEMMA CancelEffect ==
    ASSUME NEW d \in Database, NEW op \in CancelRequest, CanCancel(d, op)
    PROVE  \/ /\ d.orders[op.order].status = "CANCELLED"
              /\ CancelOrder(d, op) = d
           \/ /\ d.orders[op.order].status = "PENDING"
              /\ Cancelled(d, CancelOrder(d, op), op)
<1> DEFINE order == d.orders[op.order]
<1>1. order \in Order
  BY DEF Database, NoOrder, CanCancel, CancelRequest
<1>2. CASE order.status = "CANCELLED"
  BY <1>2 DEF CancelOrder
<1>3. CASE order.status = "PENDING" /\ order.side = "BUY"
  BY <1>3 DEF CancelOrder, Cancelled, Database
<1>4. CASE order.status = "PENDING" /\ order.side = "SELL"
  BY <1>4 DEF CancelOrder, Cancelled, Database
<1>5. QED
  BY <1>1, <1>2, <1>3, <1>4 DEF CanCancel, Order

LEMMA FinalizedEffect ==
    ASSUME NEW d \in Database, NEW op \in ExecuteRequest,
           d.orders[op.order].status = "PENDING"
    PROVE  LET f == Finalized(d, op)
               order == d.orders[op.order]
           IN  /\ f = [d EXCEPT !.orders = f.orders, !.trades = f.trades]
               /\ f.orders = [d.orders EXCEPT ![op.order] =
                                 [order EXCEPT !.status = "EXECUTED"]]
               /\ f.trades = [d.trades EXCEPT ![op.order] =
                      Append(d.trades[op.order],
                             NewTrade(order.user, order.symbol, order.side,
                                      order.quantity, op))]
BY DEF Finalized, Database

LEMMA ExecuteEffect ==
    ASSUME NEW d \in Database, NEW op \in ExecuteRequest, CanExecute(d, op)
    PROVE  \/ Filled(d, ExecuteOrder(d, op), op)
           \/ Cancelled(d, ExecuteOrder(d, op), op)
<1> DEFINE order == d.orders[op.order]
           user == d.users[order.user]
           h == <<order.user, order.symbol>>
           position == d.positions[h]
           f == Finalized(d, op)
           cost == CostClp(order.quantity, op)
           buy == [f EXCEPT !.users[order.user] =
                       Adjusted(user, order.reservedAmount - cost,
                                -order.reservedAmount),
                     !.positions[h] = Bought(position, order.quantity, op.price)]
           sell == [f EXCEPT !.users[order.user] =
                       Adjusted(user, ProceedsClp(order.quantity, op), 0),
                     !.positions[h] =
                         Sold(ReleaseShares(position, order), order.quantity)]
<1>1. order \in Order
  BY DEF Database, NoOrder, CanExecute, ExecuteRequest
<1>2. /\ f = [d EXCEPT !.orders = f.orders, !.trades = f.trades]
      /\ f.orders = [d.orders EXCEPT ![op.order] = [order EXCEPT !.status = "EXECUTED"]]
      /\ f.trades = [d.trades EXCEPT ![op.order] =
             Append(d.trades[op.order],
                    NewTrade(order.user, order.symbol, order.side,
                             order.quantity, op))]
  BY FinalizedEffect DEF CanExecute
<1>3. f.users = d.users /\ f.positions = d.positions
  BY <1>2 DEF Database
<1>4. CASE order.side = "BUY"
  <2>1. CASE /\ user.reservedBalance >= order.reservedAmount
             /\ user.availableBalance + order.reservedAmount >= cost
    <3>1. ExecuteOrder(d, op) = buy
      BY <1>3, <1>4, <2>1 DEF ExecuteOrder, ProcessBuyOrder
    <3> HIDE DEF f
    <3>2. Filled(d, buy, op)
      BY <1>2, <1>3, <1>4, <2>1 DEF Filled, FilledBuy, Database
    <3>3. QED
      BY <3>1, <3>2
  <2>2. CASE ~(/\ user.reservedBalance >= order.reservedAmount
               /\ user.availableBalance + order.reservedAmount >= cost)
    BY <1>4, <2>2 DEF ExecuteOrder, ProcessBuyOrder, Cancelled, Database
  <2>3. QED
    BY <2>1, <2>2
<1>5. CASE order.side = "SELL"
  <2>1. CASE /\ position.quantity >= order.quantity
             /\ position.reservedQuantity >= order.quantity
    <3>1. ExecuteOrder(d, op) = sell
      BY <1>3, <1>5, <2>1 DEF ExecuteOrder, ProcessSellOrder
    <3> HIDE DEF f
    <3>2. Filled(d, sell, op)
      BY <1>2, <1>3, <1>5, <2>1 DEF Filled, FilledSell, Database
    <3>3. QED
      BY <3>1, <3>2
  <2>2. CASE ~(/\ position.quantity >= order.quantity
               /\ position.reservedQuantity >= order.quantity)
    BY <1>5, <2>2 DEF ExecuteOrder, ProcessSellOrder, Cancelled, Database
  <2>3. QED
    BY <2>1, <2>2
<1>6. QED
  BY <1>1, <1>4, <1>5 DEF Order

\* An order that can be settled is.
Settleable(d, op) ==
    LET order == d.orders[op.order]
        user == d.users[order.user]
        position == d.positions[<<order.user, order.symbol>>]
    IN  IF order.side = "BUY"
        THEN /\ user.reservedBalance >= order.reservedAmount
             /\ user.availableBalance + order.reservedAmount >= CostClp(order.quantity, op)
        ELSE /\ position.quantity >= order.quantity
             /\ position.reservedQuantity >= order.quantity

LEMMA SettleableFills ==
    ASSUME NEW d \in Database, NEW op \in ExecuteRequest, CanExecute(d, op),
           Settleable(d, op)
    PROVE  Filled(d, ExecuteOrder(d, op), op)
<1> DEFINE e == ExecuteOrder(d, op)
           f == Finalized(d, op)
           order == d.orders[op.order]
<1>1. order \in Order /\ op.order \in OrderIds
  BY DEF Database, NoOrder, CanExecute, ExecuteRequest
<1>2. f.orders = [d.orders EXCEPT ![op.order] = [order EXCEPT !.status = "EXECUTED"]]
  BY FinalizedEffect DEF CanExecute
<1>3. e.orders = f.orders
  BY <1>1 DEF Settleable, ExecuteOrder, ProcessBuyOrder, ProcessSellOrder, Order
<1>4. e.orders[op.order] = [order EXCEPT !.status = "EXECUTED"]
  BY <1>1, <1>2, <1>3 DEF Database
<1>5. Cancelled(d, e, op) =>
          e.orders[op.order] = [order EXCEPT !.status = "CANCELLED"]
  BY <1>1 DEF Cancelled, Database
<1>6. [order EXCEPT !.status = "EXECUTED"].status # [order EXCEPT !.status = "CANCELLED"].status
  BY <1>1 DEF Order
<1>7. QED
  BY <1>4, <1>5, <1>6, ExecuteEffect

\* What a pending order reserved is there to be spent or delivered.
Deliverable(d) ==
    \A o \in OrderIds :
        LET order == d.orders[o]
            user == d.users[order.user]
            position == d.positions[<<order.user, order.symbol>>]
        IN  order.status = "PENDING" =>
                /\ order.side = "BUY" => user.reservedBalance >= order.reservedAmount
                /\ order.side = "SELL" => /\ position.reservedQuantity >= order.quantity
                                         /\ position.quantity >= position.reservedQuantity

-----------------------------------------------------------------------------
(* Every handler keeps the schema *)

LEMMA AdjustedType ==
    ASSUME NEW user \in User, NEW a \in Int, NEW r \in Int,
           user.availableBalance + a >= 0, user.reservedBalance + r >= 0
    PROVE  Adjusted(user, a, r) \in User
BY DEF Adjusted, User

LEMMA PositionTypes ==
    ASSUME NEW position \in Position, NEW q \in Nat, NEW order \in Order
    PROVE  /\ Moved(position, q, 0) \in Position
           /\ Moved(position, 0, q) \in Position
           /\ Sold(position, q) \in Position
           /\ ReleaseShares(position, order) \in Position
<1>1. order.quantity \in Nat
  BY OrderRulesAssumption DEF Order
<1>2. QED
  BY <1>1 DEF Moved, Sold, ReleaseShares, Position, NoPosition, AtLeastZero

LEMMA BoughtType ==
    ASSUME NEW position \in Position, NEW q \in Quantities, NEW price \in Prices
    PROVE  /\ Bought(position, q, price) \in Position
           /\ Bought(position, q, price).quantity = position.quantity + q
           /\ Bought(position, q, price).reservedQuantity = position.reservedQuantity
<1>1. q \in Nat /\ q > 0 /\ price \in Nat /\ PriceScale \in Nat /\ PriceScale > 0
  BY OrderRulesAssumption
<1> DEFINE shares == position.quantity + q
           average == Bought(position, q, price).averageCost
<1>2. shares \in Nat /\ shares > 0
  BY <1>1 DEF Position
<1>3. MeanCost(position, q, price, shares) \in Nat
  <2> HIDE DEF shares
  <2> DEFINE paid == position.quantity * position.averageCost
             paying == PriceScale * Gross(q, price)
             scaled == PriceScale * shares
  <2>1. paid \in Nat /\ paying \in Nat
    BY <1>1, GrossNat, ProductNat DEF Position
  <2>2. scaled \in Nat /\ scaled > 0
    BY <1>1, <1>2
  <2>3. MeanCost(position, q, price, shares) = PriceScale * Quotient(paid + paying, scaled)
    BY DEF MeanCost
  <2> HIDE DEF paid, paying, scaled
  <2>4. Quotient(paid + paying, scaled) \in Nat
    BY <2>1, <2>2, QuotientNat
  <2>5. QED
    BY <1>1, <2>3, <2>4, ProductNat
<1>4. average \in Nat
  BY <1>1, <1>3 DEF Bought
<1>5. Bought(position, q, price) =
        [quantity |-> shares, reservedQuantity |-> position.reservedQuantity,
         averageCost |-> average]
  BY DEF Bought
<1> HIDE DEF average
<1>6. QED
  BY <1>2, <1>4, <1>5 DEF Position

\* A mean rounded to whole cents stays between whole numbers of cents that the
\* average cost and the price were between.
LEMMA BoughtBetween ==
    ASSUME NEW position \in Position, NEW q \in Nat, q > 0, NEW price \in Nat,
           NEW low \in Nat, NEW high \in Nat,
           position.quantity > 0 => /\ PriceScale * low <= position.averageCost
                                    /\ position.averageCost <= PriceScale * high,
           PriceScale * low <= price, price <= PriceScale * high
    PROVE  /\ PriceScale * low <= Bought(position, q, price).averageCost
           /\ Bought(position, q, price).averageCost <= PriceScale * high
<1>1. CASE position.quantity = 0
  BY <1>1 DEF Bought
<1>2. CASE position.quantity > 0
  <2> DEFINE held == position.quantity
             average == position.averageCost
             lower == PriceScale * low
             upper == PriceScale * high
             paid == held * average
             paying == PriceScale * Gross(q, price)
             n == paid + paying
             m == PriceScale * (held + q)
             mean == Quotient(n, m)
  <2>1. /\ held \in Nat /\ average \in Nat /\ PriceScale \in Nat /\ PriceScale > 0
        /\ held + q \in Nat /\ held + q > 0
    BY OrderRulesAssumption DEF Position
  <2>2. m \in Nat /\ m > 0
    BY <2>1
  <2>3. lower \in Nat /\ upper \in Nat
    BY <2>1, ProductNat
  <2>4. lower <= average /\ average <= upper
    BY <1>2
  <2>5. Gross(q, price) \in Nat /\ q * low <= Gross(q, price) /\ Gross(q, price) <= q * high
    BY GrossNat, GrossBetween
  <2>6. Bought(position, q, price).averageCost = PriceScale * mean
    BY <1>2 DEF Bought, MeanCost
  <2>7. /\ low * m = held * lower + PriceScale * (q * low)
        /\ high * m = held * upper + PriceScale * (q * high)
    <3> HIDE DEF held
    <3>1. \A c \in Nat : c * (PriceScale * (held + q)) = held * (PriceScale * c) + PriceScale * (q * c)
      BY <2>1
    <3>2. QED
      BY <3>1
  <2> HIDE DEF held, average, lower, upper, m
  <2>8. /\ held * lower \in Nat /\ held * upper \in Nat /\ paid \in Nat
        /\ held * lower <= paid /\ paid <= held * upper
    <3>1. lower * held <= average * held /\ average * held <= upper * held
      BY <2>1, <2>3, <2>4, ProductMonotone
    <3>2. \A x \in {lower, average, upper} : held * x = x * held /\ held * x \in Nat
      BY <2>1, <2>3, ProductNat
    <3>3. QED
      BY <3>1, <3>2
  <2>9. /\ PriceScale * (q * low) \in Nat /\ PriceScale * (q * high) \in Nat /\ paying \in Nat
        /\ PriceScale * (q * low) <= paying /\ paying <= PriceScale * (q * high)
    <3> DEFINE g == Gross(q, price)
               ql == q * low
               qh == q * high
    <3>1. ql \in Nat /\ qh \in Nat /\ g \in Nat /\ ql <= g /\ g <= qh
      BY <2>5, ProductNat
    <3> HIDE DEF g, ql, qh
    <3>2. ql * PriceScale <= g * PriceScale /\ g * PriceScale <= qh * PriceScale
      BY <2>1, <3>1, ProductMonotone
    <3>3. \A x \in {ql, g, qh} : PriceScale * x = x * PriceScale /\ PriceScale * x \in Nat
      BY <2>1, <3>1, ProductNat
    <3>4. QED
      BY <3>2, <3>3 DEF g, ql, qh
  <2> HIDE DEF paid, paying
  <2>10. n \in Nat /\ low * m <= n /\ n <= high * m
    BY <2>7, <2>8, <2>9
  <2> HIDE DEF n
  <2>11. mean \in Nat /\ low <= mean /\ mean <= high
    BY <2>2, <2>10, QuotientNat, QuotientBetween
  <2> HIDE DEF mean
  <2>12. low * PriceScale <= mean * PriceScale /\ mean * PriceScale <= high * PriceScale
    BY <2>1, <2>11, ProductMonotone
  <2>13. \A x \in {low, mean, high} : PriceScale * x = x * PriceScale
    BY <2>1, <2>11
  <2>14. QED
    BY <2>6, <2>12, <2>13
<1>3. QED
  BY <1>1, <1>2 DEF Position

LEMMA ReleaseCashType ==
    ASSUME NEW user \in User, NEW order \in Order
    PROVE  ReleaseCash(user, order) \in User
BY DEF ReleaseCash, Adjusted, User, Order, Lesser

LEMMA NewTradeType ==
    ASSUME NEW user \in Users, NEW symbol \in Symbols, NEW side \in {"BUY", "SELL"},
           NEW q \in Quantities, NEW op, op.price \in Prices,
           op.rate \in CommissionRates, op.fx \in FxRates
    PROVE  NewTrade(user, symbol, side, q, op) \in Trade
<1>1. Cost(Gross(q, op.price), op.rate) \in Nat /\ Proceeds(Gross(q, op.price), op.rate) \in Nat
  BY AmountsNat
<1>2. QED
  BY <1>1 DEF NewTrade, Trade

LEMMA CreateBuyTypeOK ==
    ASSUME NEW d \in Database, NEW op \in CreateBuyRequest, CanCreateBuy(d, op)
    PROVE  CreateBuy(d, op) \in Database
<1> DEFINE e == CreateBuy(d, op)
           amount == Reservation(op)
           user == d.users[op.user]
           order == NewOrder(op, "BUY", "LIMIT", op.limitPrice, "PENDING", amount)
<1>1. amount \in Nat
  BY ReservationNat
<1>2. Adjusted(user, -amount, amount) \in User
  <2>1. user \in User /\ user.availableBalance >= amount
    BY DEF CanCreateBuy, Database, CreateBuyRequest
  <2> HIDE DEF user, amount
  <2>2. -amount \in Int /\ amount \in Int
    BY <1>1
  <2>3. user.availableBalance + -amount >= 0 /\ user.reservedBalance + amount >= 0
    BY <1>1, <2>1 DEF User
  <2>4. QED
    BY <2>1, <2>2, <2>3, AdjustedType
<1>3. order \in Order
  BY <1>1, OrderRulesAssumption DEF NewOrder, Order, CreateBuyRequest
<1>4. /\ e = [d EXCEPT !.users = e.users, !.orders = e.orders]
      /\ e.users = [d.users EXCEPT ![op.user] = Adjusted(user, -amount, amount)]
      /\ e.orders = [d.orders EXCEPT ![op.order] = order]
  BY CreateBuyEffect
<1> HIDE DEF e, amount, user, order
<1>5. e.users \in [Users -> User]
  BY <1>2, <1>4 DEF Database
<1>6. e.orders \in [OrderIds -> Order \cup {NoOrder}]
  BY <1>3, <1>4 DEF Database
<1>7. [d EXCEPT !.users = e.users, !.orders = e.orders] \in Database
  BY <1>5, <1>6 DEF Database
<1>8. QED
  BY <1>4, <1>7 DEF e

LEMMA CreateSellTypeOK ==
    ASSUME NEW d \in Database, NEW op \in CreateSellRequest, CanCreateSell(d, op)
    PROVE  CreateSell(d, op) \in Database
<1> DEFINE e == CreateSell(d, op)
           h == <<op.user, op.symbol>>
           position == Moved(d.positions[h], 0, op.quantity)
           order == NewOrder(op, "SELL", "LIMIT", op.limitPrice, "PENDING", 0)
<1>1. h \in Users \X Symbols /\ op.quantity \in Nat /\ op.limitPrice \in Nat
  BY OrderRulesAssumption DEF CreateSellRequest
<1>2. order \in Order
  BY <1>1 DEF NewOrder, Order, CreateSellRequest
<1>3. position \in Position
  BY <1>1, <1>2, PositionTypes DEF Database
<1>4. /\ e = [d EXCEPT !.positions = e.positions, !.orders = e.orders]
      /\ e.positions = [d.positions EXCEPT ![h] = position]
      /\ e.orders = [d.orders EXCEPT ![op.order] = order]
  BY CreateSellEffect
<1> HIDE DEF e, h, position, order
<1>5. e.positions \in [Users \X Symbols -> Position]
  BY <1>1, <1>3, <1>4 DEF Database
<1>6. e.orders \in [OrderIds -> Order \cup {NoOrder}]
  BY <1>2, <1>4 DEF Database
<1>7. [d EXCEPT !.positions = e.positions, !.orders = e.orders] \in Database
  BY <1>5, <1>6 DEF Database
<1>8. QED
  BY <1>4, <1>7 DEF e

LEMMA CancelledTypeOK ==
    ASSUME NEW d \in Database, NEW op, op.order \in OrderIds,
           d.orders[op.order].status = "PENDING",
           NEW e, Cancelled(d, e, op)
    PROVE  e \in Database
<1> DEFINE order == d.orders[op.order]
           h == <<order.user, order.symbol>>
<1>1. order \in Order
  BY DEF Database, NoOrder
<1>2. order.user \in Users /\ h \in Users \X Symbols
  BY <1>1 DEF Order
<1>3. [order EXCEPT !.status = "CANCELLED"] \in Order
  BY <1>1 DEF Order
<1>4. /\ ReleaseCash(d.users[order.user], order) \in User
      /\ ReleaseShares(d.positions[h], order) \in Position
  BY <1>1, <1>2, ReleaseCashType, PositionTypes DEF Database
<1>5. /\ e = [d EXCEPT !.users = e.users, !.positions = e.positions,
                        !.orders = e.orders]
      /\ e.orders = [d.orders EXCEPT ![op.order] = [order EXCEPT !.status = "CANCELLED"]]
      /\ \/ /\ e.positions = d.positions
            /\ e.users = [d.users EXCEPT ![order.user] =
                             ReleaseCash(d.users[order.user], order)]
         \/ /\ e.users = d.users
            /\ e.positions = [d.positions EXCEPT ![h] =
                                 ReleaseShares(d.positions[h], order)]
  BY DEF Cancelled
<1> HIDE DEF order, h
<1>6. /\ e.users \in [Users -> User]
      /\ e.positions \in [Users \X Symbols -> Position]
  <2>1. /\ d.users \in [Users -> User]
        /\ d.positions \in [Users \X Symbols -> Position]
    BY DEF Database
  <2>2. /\ [d.users EXCEPT ![order.user] = ReleaseCash(d.users[order.user], order)]
              \in [Users -> User]
        /\ [d.positions EXCEPT ![h] = ReleaseShares(d.positions[h], order)]
              \in [Users \X Symbols -> Position]
    BY <1>2, <1>4, <2>1
  <2>3. QED
    BY <1>5, <2>1, <2>2
<1>7. e.orders \in [OrderIds -> Order \cup {NoOrder}]
  BY <1>3, <1>5 DEF Database
<1>8. QED
  BY <1>5, <1>6, <1>7 DEF Database

LEMMA FilledTypeOK ==
    ASSUME NEW d \in Database, NEW op \in ExecuteRequest,
           d.orders[op.order].status = "PENDING",
           NEW e, Filled(d, e, op)
    PROVE  e \in Database
<1> DEFINE order == d.orders[op.order]
           user == d.users[order.user]
           h == <<order.user, order.symbol>>
           position == d.positions[h]
           trade == NewTrade(order.user, order.symbol, order.side, order.quantity, op)
<1>1. op.order \in OrderIds /\ order \in Order
  BY DEF Database, NoOrder, ExecuteRequest
<1>2. /\ order.user \in Users /\ h \in Users \X Symbols
      /\ order.quantity \in Quantities /\ order.quantity \in Nat
  BY <1>1, OrderRulesAssumption DEF Order
<1>3. [order EXCEPT !.status = "EXECUTED"] \in Order
  BY <1>1 DEF Order
<1>4. trade \in Trade
  BY <1>1, NewTradeType DEF Order, ExecuteRequest
<1>5. Append(d.trades[op.order], trade) \in Seq(Trade)
  BY <1>1, <1>4 DEF Database
<1>6. user \in User /\ position \in Position
  BY <1>2 DEF Database
<1>7. e.users \in [Users -> User] /\ e.positions \in [Users \X Symbols -> Position]
  <2>1. CASE FilledBuy(d, e, op)
    <3> DEFINE cost == CostClp(order.quantity, op)
    <3>1. cost \in Nat
      BY <1>2, AmountsNat DEF CostClp, ExecuteRequest
    <3>2. /\ user.reservedBalance >= order.reservedAmount
          /\ user.availableBalance + order.reservedAmount >= cost
          /\ e.users = [d.users EXCEPT ![order.user] =
                 Adjusted(user, order.reservedAmount - cost, -order.reservedAmount)]
          /\ e.positions = [d.positions EXCEPT
                               ![h] = Bought(position, order.quantity, op.price)]
      BY <2>1 DEF FilledBuy
    <3> HIDE DEF order, user, h, position, cost
    <3>3. Adjusted(user, order.reservedAmount - cost, -order.reservedAmount) \in User
      <4>1. /\ order.reservedAmount - cost \in Int
            /\ -order.reservedAmount \in Int
            /\ user.availableBalance + (order.reservedAmount - cost) >= 0
            /\ user.reservedBalance + -order.reservedAmount >= 0
        BY <1>1, <1>6, <3>1, <3>2 DEF User, Order
      <4>2. QED
        BY <1>6, <4>1, AdjustedType
    <3>4. Bought(position, order.quantity, op.price) \in Position
      BY <1>2, <1>6, BoughtType DEF ExecuteRequest
    <3>5. QED
      BY <1>2, <3>2, <3>3, <3>4 DEF Database
  <2>2. CASE FilledSell(d, e, op)
    <3> DEFINE earned == ProceedsClp(order.quantity, op)
    <3>1. earned \in Nat
      BY <1>2, AmountsNat DEF ProceedsClp, ExecuteRequest
    <3>2. /\ e.users = [d.users EXCEPT ![order.user] = Adjusted(user, earned, 0)]
          /\ e.positions = [d.positions EXCEPT ![h] =
                 Sold(ReleaseShares(position, order), order.quantity)]
      BY <2>2 DEF FilledSell
    <3> HIDE DEF order, user, h, position, earned
    <3>3. Adjusted(user, earned, 0) \in User
      BY <1>6, <3>1, AdjustedType DEF User
    <3>4. Sold(ReleaseShares(position, order), order.quantity) \in Position
      BY <1>1, <1>2, <1>6, PositionTypes
    <3>5. QED
      BY <1>2, <3>2, <3>3, <3>4 DEF Database
  <2>3. QED
    BY <2>1, <2>2 DEF Filled
<1>8. /\ e = [d EXCEPT !.users = e.users, !.positions = e.positions,
                        !.orders = e.orders, !.trades = e.trades]
      /\ e.orders = [d.orders EXCEPT ![op.order] = [order EXCEPT !.status = "EXECUTED"]]
      /\ e.trades = [d.trades EXCEPT ![op.order] = Append(d.trades[op.order], trade)]
  BY DEF Filled
<1> HIDE DEF order, trade
<1>9. /\ e.orders \in [OrderIds -> Order \cup {NoOrder}]
      /\ e.trades \in [OrderIds -> Seq(Trade)]
  BY <1>1, <1>3, <1>5, <1>8 DEF Database
<1>10. QED
  BY <1>7, <1>8, <1>9 DEF Database

LEMMA CancelTypeOK ==
    ASSUME NEW d \in Database, NEW op \in CancelRequest, CanCancel(d, op)
    PROVE  CancelOrder(d, op) \in Database
BY CancelEffect, CancelledTypeOK DEF CancelRequest

LEMMA ExecuteTypeOK ==
    ASSUME NEW d \in Database, NEW op \in ExecuteRequest, CanExecute(d, op)
    PROVE  ExecuteOrder(d, op) \in Database
BY ExecuteEffect, CancelledTypeOK, FilledTypeOK DEF ExecuteRequest, CanExecute

LEMMA MarketBuyTypeOK ==
    ASSUME NEW d \in Database, NEW op \in MarketRequest, CanMarketBuy(d, op)
    PROVE  MarketBuy(d, op) \in Database
<1> DEFINE e == MarketBuy(d, op)
           user == d.users[op.user]
           h == <<op.user, op.symbol>>
           cost == CostClp(op.quantity, op)
           trade == NewTrade(op.user, op.symbol, "BUY", op.quantity, op)
           order == NewOrder(op, "BUY", "MARKET", 0, "EXECUTED", 0)
<1>1. op.order \in OrderIds /\ op.user \in Users /\ h \in Users \X Symbols
  BY DEF MarketRequest
<1>2. op.quantity \in Nat
  BY OrderRulesAssumption DEF MarketRequest
<1>3. cost \in Nat
  BY AmountsNat DEF CostClp, MarketRequest
<1>4. user \in User /\ d.positions[h] \in Position
  BY <1>1 DEF Database
<1>5. Adjusted(user, -cost, 0) \in User
  <2>1. user.availableBalance >= cost
    BY DEF CanMarketBuy
  <2> HIDE DEF user, cost
  <2>2. /\ -cost \in Int /\ user.availableBalance + -cost >= 0
        /\ user.reservedBalance + 0 >= 0
    BY <1>3, <1>4, <2>1 DEF User
  <2>3. QED
    BY <1>4, <2>2, AdjustedType
<1>6. order \in Order
  BY DEF NewOrder, Order, MarketRequest
<1>7. Bought(d.positions[h], op.quantity, op.price) \in Position
  BY <1>4, BoughtType DEF MarketRequest
<1>8. trade \in Trade
  BY NewTradeType DEF MarketRequest
<1>9. Append(d.trades[op.order], trade) \in Seq(Trade)
  BY <1>1, <1>8 DEF Database
<1>10. /\ e = [d EXCEPT !.users = e.users, !.positions = e.positions,
                         !.orders = e.orders, !.trades = e.trades]
       /\ e.users = [d.users EXCEPT ![op.user] = Adjusted(user, -cost, 0)]
       /\ e.positions = [d.positions EXCEPT
                            ![h] = Bought(d.positions[h], op.quantity, op.price)]
       /\ e.orders = [d.orders EXCEPT ![op.order] = order]
       /\ e.trades = [d.trades EXCEPT ![op.order] = Append(d.trades[op.order], trade)]
  BY MarketBuyEffect
<1> HIDE DEF e, user, h, cost, trade, order
<1>11. /\ e.users \in [Users -> User] /\ e.positions \in [Users \X Symbols -> Position]
       /\ e.orders \in [OrderIds -> Order \cup {NoOrder}]
       /\ e.trades \in [OrderIds -> Seq(Trade)]
  BY <1>1, <1>5, <1>6, <1>7, <1>9, <1>10 DEF Database
<1>12. [d EXCEPT !.users = e.users, !.positions = e.positions,
                 !.orders = e.orders, !.trades = e.trades] \in Database
  BY <1>11 DEF Database
<1>13. QED
  BY <1>10, <1>12 DEF e

LEMMA MarketSellTypeOK ==
    ASSUME NEW d \in Database, NEW op \in MarketRequest, CanMarketSell(d, op)
    PROVE  MarketSell(d, op) \in Database
<1> DEFINE e == MarketSell(d, op)
           user == d.users[op.user]
           h == <<op.user, op.symbol>>
           earned == ProceedsClp(op.quantity, op)
           trade == NewTrade(op.user, op.symbol, "SELL", op.quantity, op)
           order == NewOrder(op, "SELL", "MARKET", 0, "EXECUTED", 0)
<1>1. op.order \in OrderIds /\ op.user \in Users /\ h \in Users \X Symbols
  BY DEF MarketRequest
<1>2. op.quantity \in Nat
  BY OrderRulesAssumption DEF MarketRequest
<1>3. earned \in Nat
  BY AmountsNat DEF ProceedsClp, MarketRequest
<1>4. user \in User /\ d.positions[h] \in Position
  BY <1>1 DEF Database
<1>5. Adjusted(user, earned, 0) \in User
  BY <1>3, <1>4, AdjustedType DEF User
<1>6. order \in Order
  BY DEF NewOrder, Order, MarketRequest
<1>7. Sold(d.positions[h], op.quantity) \in Position
  BY <1>2, <1>4, <1>6, PositionTypes
<1>8. trade \in Trade
  BY NewTradeType DEF MarketRequest
<1>9. Append(d.trades[op.order], trade) \in Seq(Trade)
  BY <1>1, <1>8 DEF Database
<1>10. /\ e = [d EXCEPT !.users = e.users, !.positions = e.positions,
                         !.orders = e.orders, !.trades = e.trades]
       /\ e.users = [d.users EXCEPT ![op.user] = Adjusted(user, earned, 0)]
       /\ e.positions = [d.positions EXCEPT ![h] = Sold(d.positions[h], op.quantity)]
       /\ e.orders = [d.orders EXCEPT ![op.order] = order]
       /\ e.trades = [d.trades EXCEPT ![op.order] = Append(d.trades[op.order], trade)]
  BY MarketSellEffect
<1> HIDE DEF e, user, h, earned, trade, order
<1>11. /\ e.users \in [Users -> User] /\ e.positions \in [Users \X Symbols -> Position]
       /\ e.orders \in [OrderIds -> Order \cup {NoOrder}]
       /\ e.trades \in [OrderIds -> Seq(Trade)]
  BY <1>1, <1>5, <1>6, <1>7, <1>9, <1>10 DEF Database
<1>12. [d EXCEPT !.users = e.users, !.positions = e.positions,
                 !.orders = e.orders, !.trades = e.trades] \in Database
  BY <1>11 DEF Database
<1>13. QED
  BY <1>10, <1>12 DEF e

LEMMA StockTypeOK ==
    ASSUME NEW d \in Database, NEW op \in StockRequest
    PROVE  CreateStock(d, op) \in Database /\ DeleteStock(d, op) \in Database
BY DEF CreateStock, DeleteStock, Database, Listing, StockRequest

LEMMA InitialTypeOK == InitialDatabase \in Database
<1>1. [availableBalance |-> InitialBalance, reservedBalance |-> 0] \in User
  BY OrderRulesAssumption DEF User
<1>2. NoPosition \in Position
  BY DEF NoPosition, Position
<1>3. QED
  BY <1>1, <1>2 DEF InitialDatabase, Database, Listing
=============================================================================
