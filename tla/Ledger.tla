------------------------------- MODULE Ledger -------------------------------
(***************************************************************************)
(* What the orders service promises its users: every request on balances,  *)
(* positions, orders, trades and listed stocks happens at one instant.     *)
(* The transactions of the code are shown to implement this module in      *)
(* OrderTransactions.                                                      *)
(*                                                                         *)
(* Prices, FX rates and the commission rate are chosen afresh by every     *)
(* request: the caches and the administrator may change them in between.   *)
(***************************************************************************)
EXTENDS OrderRules, Functions

VARIABLE db     \* the MongoDB collections users, positions, orders, trades, stocks

Init == db = InitialDatabase

CreateBuyOrder ==
    \E op \in CreateBuyRequest : CanCreateBuy(db, op) /\ db' = CreateBuy(db, op)

CreateSellOrder ==
    \E op \in CreateSellRequest : CanCreateSell(db, op) /\ db' = CreateSell(db, op)

Cancel ==
    \E op \in CancelRequest : CanCancel(db, op) /\ db' = CancelOrder(db, op)

Execute ==
    \E op \in ExecuteRequest : CanExecute(db, op) /\ db' = ExecuteOrder(db, op)

BuyAtMarket ==
    \E op \in MarketRequest : /\ op.kind = "MARKET_BUY"
                              /\ CanMarketBuy(db, op)
                              /\ db' = MarketBuy(db, op)

SellAtMarket ==
    \E op \in MarketRequest : /\ op.kind = "MARKET_SELL"
                              /\ CanMarketSell(db, op)
                              /\ db' = MarketSell(db, op)

List ==
    \E op \in StockRequest : /\ op.kind = "CREATE_STOCK"
                             /\ CanCreateStock(db, op)
                             /\ db' = CreateStock(db, op)

Delist ==
    \E op \in StockRequest : /\ op.kind = "DELETE_STOCK"
                             /\ CanDeleteStock(db, op)
                             /\ db' = DeleteStock(db, op)

Next ==
    \/ CreateBuyOrder \/ CreateSellOrder \/ Cancel \/ Execute
    \/ BuyAtMarket \/ SellAtMarket \/ List \/ Delist

Spec == Init /\ [][Next]_db

-----------------------------------------------------------------------------
(* Views of the database used by the properties *)

PendingOf(u, side) ==
    {o \in OrderIds : /\ db.orders[o].status = "PENDING"
                      /\ db.orders[o].user = u
                      /\ db.orders[o].side = side}

TradesOf(u) ==
    UNION {{<<o, i>> : i \in {j \in 1..Len(db.trades[o]) :
                                db.trades[o][j].user = u}} : o \in OrderIds}

TradeAt(k) == db.trades[k[1]][k[2]]

\* The sum of weight[k] over the keys of a finite function.
Total(weight) == SumFunction(weight)

-----------------------------------------------------------------------------
(* Properties *)

\* Every document keeps its schema: in particular no handler drives a
\* balance, a reservation or a position below zero.
TypeOK == db \in Database

\* A user's reservedBalance is exactly what the pending BUY orders of that
\* user reserved: releasing or spending one order's reservation never eats
\* another's, and a closed order leaves nothing behind.
ReservedBalanceBacked ==
    \A u \in Users :
        db.users[u].reservedBalance =
            Total([o \in PendingOf(u, "BUY") |-> db.orders[o].reservedAmount])

\* The shares reserved in a position are those of the pending SELL orders on
\* it, so a pending SELL can always deliver.
ReservedSharesBacked ==
    \A u \in Users, s \in Symbols :
        db.positions[<<u, s>>].reservedQuantity =
            Total([o \in {p \in PendingOf(u, "SELL") : db.orders[p].symbol = s}
                     |-> db.orders[o].quantity])

\* No position has more shares reserved than it holds.
SharesCovered ==
    \A h \in Users \X Symbols :
        db.positions[h].reservedQuantity <= db.positions[h].quantity

\* An order is executed exactly when one trade settles it, for the order's
\* user, symbol, side and quantity: never zero trades, never two.
OneTradePerExecution ==
    \A o \in OrderIds :
        LET order == db.orders[o] IN
        IF order.status = "EXECUTED"
        THEN /\ Len(db.trades[o]) = 1
             /\ db.trades[o][1].user = order.user
             /\ db.trades[o][1].symbol = order.symbol
             /\ db.trades[o][1].side = order.side
             /\ db.trades[o][1].quantity = order.quantity
        ELSE db.trades[o] = <<>>

\* A LIMIT order never settles at a price worse than its limit.
LimitRespected ==
    \A o \in OrderIds : \A i \in 1..Len(db.trades[o]) :
        LET order == db.orders[o]
            price == db.trades[o][i].executionPrice
        IN  order.type = "LIMIT" =>
                IF order.side = "BUY" THEN price <= order.limitPrice
                                      ELSE price >= order.limitPrice

\* A symbol with a pending order, a position or a trade is still listed.
ReferencesListed == \A s \in Symbols : HasReferences(db, s) => Listed(db, s)

\* Positions are the history of trades: shares bought less shares sold.
SharesConserved ==
    \A u \in Users, s \in Symbols :
        db.positions[<<u, s>>].quantity =
            Total([k \in {t \in TradesOf(u) : TradeAt(t).symbol = s} |->
                     IF TradeAt(k).side = "BUY" THEN TradeAt(k).quantity
                                                ELSE -TradeAt(k).quantity])

\* A price rounded down or up to whole cents, in cents.
CentsBelow(price) == price \div PriceScale

CentsAbove(price) == (price + PriceScale - 1) \div PriceScale

\* The roundings of the purchases do not add up: however many there were, the
\* average cost of a position is no lower than the lowest price its user paid for
\* the stock, rounded down to a cent, and no higher than the highest, rounded up.
AverageWithinACent ==
    \A u \in Users, s \in Symbols :
        LET position == db.positions[<<u, s>>]
            buys == {k \in TradesOf(u) : TradeAt(k).symbol = s /\ TradeAt(k).side = "BUY"}
        IN  position.quantity > 0 =>
              \E low, high \in buys :
                 /\ PriceScale * CentsBelow(TradeAt(low).executionPrice) <= position.averageCost
                 /\ position.averageCost <= PriceScale * CentsAbove(TradeAt(high).executionPrice)

\* What the trades brought in, less what they cost.
CashTraded(u) ==
    Total([k \in TradesOf(u) |-> IF TradeAt(k).side = "BUY" THEN -TradeAt(k).netAmount
                                                            ELSE TradeAt(k).netAmount])

EveryStockInClp == FxRates = {InClp}

\* With every stock in CLP, a user's money is the initial balance less the
\* net amounts of the buys plus those of the sells: the trades account for
\* every cent, whatever was reserved, released or rounded in between.
CashConserved ==
    EveryStockInClp =>
        \A u \in Users :
            db.users[u].availableBalance + db.users[u].reservedBalance =
                InitialBalance + CashTraded(u)

\* A closed order is closed for good and its terms never change.
ClosedOrdersStay ==
    [][\A o \in OrderIds :
          /\ db.orders[o].status \in {"EXECUTED", "CANCELLED"} =>
                 db'.orders[o] = db.orders[o]
          /\ db.orders[o].status = "PENDING" =>
                 \E st \in {"PENDING", "EXECUTED", "CANCELLED"} :
                     db'.orders[o] = [db.orders[o] EXCEPT !.status = st]]_db

Money(d, u) == d.users[u].availableBalance + d.users[u].reservedBalance

TradeCount(d) == Total([o \in OrderIds |-> Len(d.trades[o])])

\* In a step, money enters or leaves the account of at most one user, and only
\* together with exactly one new trade; reserving, cancelling and the
\* defensive cancellations only move it between the two balances.
MoneyMovesWithATrade ==
    [][\A u \in Users :
          Money(db', u) # Money(db, u) =>
              /\ TradeCount(db') = TradeCount(db) + 1
              /\ \A v \in Users \ {u} : db'.users[v] = db.users[v]]_db
=============================================================================
