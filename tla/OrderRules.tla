----------------------------- MODULE OrderRules -----------------------------
(***************************************************************************)
(* The handlers of the orders service that move money and shares, as       *)
(* operators on a database value d: for each handler a condition (what its *)
(* checks and early returns let through) and the database it leaves.       *)
(* Ledger runs them one at a time; OrderTransactions runs them on the      *)
(* private snapshots of MongoDB transactions.                              *)
(*                                                                         *)
(* Amounts are whole cents.  Prices, limits and average costs may have     *)
(* more decimals: they are counted in units of 1/PriceScale cent, and      *)
(* toDecimalPlaces(2) is a half-up division wherever the code rounds a     *)
(* product or a quotient.  Commission and FX rates are in ten-thousandths; *)
(* FX rate 0 stands for a price already in CLP, which is not converted.    *)
(***************************************************************************)
EXTENDS Integers, Sequences

CONSTANTS
    Users,            \* registered users (no code deletes one)
    Symbols,          \* symbols a stock can be listed under
    ProviderSymbols,  \* those seeded from the market data provider
    MaxOrders,        \* bound: orders that can ever be created
    Quantities,       \* share counts a request may ask for
    PriceScale,       \* price units in a cent: 100 for prices of four decimals
    Prices,           \* limit prices and market prices, native, in price units
    FxRates,          \* native-to-CLP rates the currency service may return, or InClp
    CommissionRates,  \* COMMISSION_RATE values an administrator may set
    InitialBalance    \* balance of a new account

ASSUME OrderRulesAssumption ==
    /\ ProviderSymbols \subseteq Symbols
    /\ MaxOrders \in Nat
    /\ \A q \in Quantities : q \in Nat /\ q > 0
    /\ PriceScale \in Nat /\ PriceScale > 0
    /\ \A p \in Prices : p \in Nat /\ p > 0
    /\ \A fx \in FxRates : fx \in Nat
    /\ \A rate \in CommissionRates : rate \in Nat /\ rate <= 10000
    /\ InitialBalance \in Nat

OrderIds == 1..MaxOrders

-----------------------------------------------------------------------------
(* Documents *)

User == [availableBalance: Nat, reservedBalance: Nat]

\* averageCost is in the currency of the stock, in price units.
Position == [quantity: Nat, reservedQuantity: Nat, averageCost: Nat]

\* The position document does not exist (the code deletes it at quantity 0).
NoPosition == [quantity |-> 0, reservedQuantity |-> 0, averageCost |-> 0]

\* limitPrice 0 stands for an absent limit (MARKET orders).
Order == [user: Users, symbol: Symbols, side: {"BUY", "SELL"},
          type: {"LIMIT", "MARKET"}, quantity: Quantities, limitPrice: Nat,
          status: {"PENDING", "EXECUTED", "CANCELLED"}, reservedAmount: Nat]

NoOrder == [status |-> "ABSENT"]

Trade == [user: Users, symbol: Symbols, side: {"BUY", "SELL"},
          quantity: Quantities, executionPrice: Prices, netAmount: Nat]

\* The source of a listed stock decides whether it may be deleted.
Listing == {"ABSENT", "admin", "provider"}

Database ==
    [users: [Users -> User], positions: [Users \X Symbols -> Position],
     orders: [OrderIds -> Order \cup {NoOrder}], trades: [OrderIds -> Seq(Trade)],
     stocks: [Symbols -> Listing]]

InitialDatabase ==
    [users     |-> [u \in Users |-> [availableBalance |-> InitialBalance,
                                     reservedBalance |-> 0]],
     positions |-> [p \in Users \X Symbols |-> NoPosition],
     orders    |-> [o \in OrderIds |-> NoOrder],
     trades    |-> [o \in OrderIds |-> <<>>],
     stocks    |-> [s \in Symbols |->
                      IF s \in ProviderSymbols THEN "provider" ELSE "ABSENT"]]

-----------------------------------------------------------------------------
(* Requests, with the prices and rates their handlers read from the caches *)

CreateBuyRequest ==
    [kind: {"CREATE_BUY"}, order: OrderIds, user: Users, symbol: Symbols,
     quantity: Quantities, limitPrice: Prices, fx: FxRates, rate: CommissionRates]

CreateSellRequest ==
    [kind: {"CREATE_SELL"}, order: OrderIds, user: Users, symbol: Symbols,
     quantity: Quantities, limitPrice: Prices]

CancelRequest == [kind: {"CANCEL"}, order: OrderIds]

ExecuteRequest ==
    [kind: {"EXECUTE"}, order: OrderIds, price: Prices, fx: FxRates,
     rate: CommissionRates]

MarketRequest ==
    [kind: {"MARKET_BUY", "MARKET_SELL"}, order: OrderIds, user: Users,
     symbol: Symbols, quantity: Quantities, price: Prices, fx: FxRates,
     rate: CommissionRates]

StockRequest == [kind: {"CREATE_STOCK", "DELETE_STOCK"}, symbol: Symbols]

-----------------------------------------------------------------------------
(* Amounts *)

\* n / m rounded half up, as decimal.js rounds in toDecimalPlaces(2).
Quotient(n, m) == (2 * n + m) \div (2 * m)

Commission(gross, rate) == Quotient(gross * rate, 10000)

\* What a trade is worth in the currency of its price.
Gross(quantity, price) == Quotient(quantity * price, PriceScale)

InClp == 0

\* A price in another currency is rounded to cents of CLP before it is multiplied.
PriceClp(price, fx) == Quotient(price * fx, 10000 * PriceScale)

GrossClp(quantity, price, fx) ==
    IF fx = InClp THEN Gross(quantity, price) ELSE quantity * PriceClp(price, fx)

Cost(gross, rate) == gross + Commission(gross, rate)

Proceeds(gross, rate) == gross - Commission(gross, rate)

\* The commission of a limit in CLP, of the gross amount before it is rounded.
LimitCommission(op) ==
    Quotient(op.quantity * op.limitPrice * op.rate, 10000 * PriceScale)

\* reservedAmount of a BUY order: the limit in CLP, times quantity, plus commission.
Reservation(op) ==
    IF op.fx = InClp THEN Gross(op.quantity, op.limitPrice) + LimitCommission(op)
                     ELSE Cost(GrossClp(op.quantity, op.limitPrice, op.fx), op.rate)

\* What an execution at op.price pays or earns in CLP.
CostClp(quantity, op) == Cost(GrossClp(quantity, op.price, op.fx), op.rate)

\* Mutant: a sale pays out its gross amount.
ProceedsWithoutCommission(quantity, op) == GrossClp(quantity, op.price, op.fx)

ProceedsClp(quantity, op) == Proceeds(GrossClp(quantity, op.price, op.fx), op.rate)

\* The trade keeps its net amount in the currency of the stock.
NewTrade(user, symbol, side, quantity, op) ==
    LET gross == Gross(quantity, op.price)
    IN  [user |-> user, symbol |-> symbol, side |-> side, quantity |-> quantity,
         executionPrice |-> op.price,
         netAmount |-> IF side = "BUY" THEN Cost(gross, op.rate)
                                       ELSE Proceeds(gross, op.rate)]

AtLeastZero(n) == IF n < 0 THEN 0 ELSE n

Lesser(m, n) == IF m < n THEN m ELSE n

Listed(d, s) == d.stocks[s] # "ABSENT"

\* Mutant: reserved shares count as free.
FreeIgnoringReserved(position) == position.quantity

Free(position) == position.quantity - position.reservedQuantity

\* A user or a position with its two numbers changed by so much.
Adjusted(user, available, reserved) ==
    [availableBalance |-> user.availableBalance + available,
     reservedBalance |-> user.reservedBalance + reserved]

Moved(position, quantity, reserved) ==
    [quantity |-> position.quantity + quantity,
     reservedQuantity |-> position.reservedQuantity + reserved,
     averageCost |-> position.averageCost]

\* Cost of the shares held and of those bought, over a number of shares, in
\* whole cents: the gross amount is rounded, then the mean.
MeanCost(position, quantity, price, shares) ==
    PriceScale * Quotient(position.quantity * position.averageCost
                              + PriceScale * Gross(quantity, price),
                          PriceScale * shares)

\* Mutant: the cost is divided by the shares there were before.
BoughtDividedByOld(position, quantity, price) ==
    [quantity |-> position.quantity + quantity,
     reservedQuantity |-> position.reservedQuantity,
     averageCost |-> IF position.quantity = 0 THEN price
                     ELSE MeanCost(position, quantity, price, position.quantity)]

\* A position with shares bought at a price; a new one costs that price as it is.
Bought(position, quantity, price) ==
    [quantity |-> position.quantity + quantity,
     reservedQuantity |-> position.reservedQuantity,
     averageCost |-> IF position.quantity = 0 THEN price
                     ELSE MeanCost(position, quantity, price, position.quantity + quantity)]

-----------------------------------------------------------------------------
(* createOrder, LIMIT *)

NewOrder(op, side, type, limitPrice, status, reservedAmount) ==
    [user |-> op.user, symbol |-> op.symbol, side |-> side, type |-> type,
     quantity |-> op.quantity, limitPrice |-> limitPrice, status |-> status,
     reservedAmount |-> reservedAmount]

\* Mutant: the funds check is missing.
CanCreateUnfundedBuy(d, op) ==
    d.orders[op.order] = NoOrder /\ Listed(d, op.symbol)

CanCreateBuy(d, op) ==
    /\ d.orders[op.order] = NoOrder
    /\ Listed(d, op.symbol)
    /\ d.users[op.user].availableBalance >= Reservation(op)

\* Mutant: the reservation is not taken from the available balance.
CreateBuyUncharged(d, op) ==
    LET amount == Reservation(op)
    IN  [d EXCEPT
          !.users[op.user] = Adjusted(@, 0, amount),
          !.orders[op.order] =
              NewOrder(op, "BUY", "LIMIT", op.limitPrice, "PENDING", amount)]

CreateBuy(d, op) ==
    LET amount == Reservation(op)
    IN  [d EXCEPT
          !.users[op.user] = Adjusted(@, -amount, amount),
          !.orders[op.order] =
              NewOrder(op, "BUY", "LIMIT", op.limitPrice, "PENDING", amount)]

CanCreateSell(d, op) ==
    /\ d.orders[op.order] = NoOrder
    /\ Listed(d, op.symbol)
    /\ Free(d.positions[<<op.user, op.symbol>>]) >= op.quantity

CreateSell(d, op) ==
    [d EXCEPT
      !.positions[<<op.user, op.symbol>>] = Moved(@, 0, op.quantity),
      !.orders[op.order] =
          NewOrder(op, "SELL", "LIMIT", op.limitPrice, "PENDING", 0)]

-----------------------------------------------------------------------------
(* cancelOrder: cancelling a cancelled order answers with it and changes nothing *)

\* Mutant: any order that exists can be cancelled.
CanCancelExecuted(d, op) == d.orders[op.order] # NoOrder

CanCancel(d, op) == d.orders[op.order].status \in {"PENDING", "CANCELLED"}

\* Mutant: the reserved balance is not lowered.
ReleaseCashTwice(user, order) ==
    Adjusted(user, Lesser(user.reservedBalance, order.reservedAmount), 0)

\* Give a BUY order's reservation back to its user, as far as it is reserved.
ReleaseCash(user, order) ==
    LET amount == Lesser(user.reservedBalance, order.reservedAmount)
    IN  Adjusted(user, amount, -amount)

\* Mutant: the shares stay reserved.
ReleaseNoShares(position, order) == position

\* Give a SELL order's shares back to the free part of the position.
ReleaseShares(position, order) ==
    [quantity |-> position.quantity,
     reservedQuantity |-> AtLeastZero(position.reservedQuantity - order.quantity),
     averageCost |-> position.averageCost]

CancelOrder(d, op) ==
    LET order == d.orders[op.order]
        holding == <<order.user, order.symbol>>
    IN  IF order.status = "CANCELLED" THEN d
        ELSE IF order.side = "BUY"
        THEN [d EXCEPT !.users[order.user] = ReleaseCash(@, order),
                       !.orders[op.order].status = "CANCELLED"]
        ELSE [d EXCEPT !.positions[holding] = ReleaseShares(@, order),
                       !.orders[op.order].status = "CANCELLED"]

-----------------------------------------------------------------------------
(* executeOrder: one order of the execution cycle *)

\* Mutant: a SELL is compared like a BUY.
ShouldExecuteAsBuy(order, price) == price <= order.limitPrice

ShouldExecute(order, price) ==
    IF order.side = "BUY" THEN price <= order.limitPrice
                          ELSE price >= order.limitPrice

\* Mutant: the status is not read again inside the transaction.
CanExecuteAgain(d, op) ==
    /\ d.orders[op.order] # NoOrder
    /\ ShouldExecute(d.orders[op.order], op.price)

CanExecute(d, op) ==
    /\ d.orders[op.order].status = "PENDING"
    /\ ShouldExecute(d.orders[op.order], op.price)

\* finalizeOrder: the status and the trade go together.
Finalized(d, op) ==
    LET order == d.orders[op.order]
    IN  [d EXCEPT
          !.orders[op.order].status = "EXECUTED",
          !.trades[op.order] = Append(@, NewTrade(order.user, order.symbol,
                                                  order.side, order.quantity, op))]

ProcessBuyOrder(d, op) ==
    LET order == d.orders[op.order]
        user == d.users[order.user]
        cost == CostClp(order.quantity, op)
        funded == /\ user.reservedBalance >= order.reservedAmount
                  /\ user.availableBalance + order.reservedAmount >= cost
    IN  IF funded
        THEN [Finalized(d, op) EXCEPT
               !.users[order.user] =
                   Adjusted(@, order.reservedAmount - cost, -order.reservedAmount),
               !.positions[<<order.user, order.symbol>>] =
                   Bought(@, order.quantity, op.price)]
        ELSE \* cancelUnfundedBuyOrder
             [d EXCEPT !.users[order.user] = ReleaseCash(@, order),
                       !.orders[op.order].status = "CANCELLED"]

\* Mutant: the position is deleted with one share left.
SoldTooMuch(position, quantity) ==
    IF position.quantity - quantity <= 1 THEN NoPosition
                                         ELSE Moved(position, -quantity, 0)

\* A position is deleted when its quantity reaches zero.
Sold(position, quantity) ==
    IF position.quantity - quantity <= 0 THEN NoPosition
                                         ELSE Moved(position, -quantity, 0)

ProcessSellOrder(d, op) ==
    LET order == d.orders[op.order]
        holding == <<order.user, order.symbol>>
        position == d.positions[holding]
        deliverable == /\ position.quantity >= order.quantity
                       /\ position.reservedQuantity >= order.quantity
    IN  IF deliverable
        THEN [Finalized(d, op) EXCEPT
               !.users[order.user] = Adjusted(@, ProceedsClp(order.quantity, op), 0),
               !.positions[holding] = Sold(ReleaseShares(@, order), order.quantity)]
        ELSE \* cancelIrrecoverableSellOrder
             [d EXCEPT !.positions[holding] = ReleaseShares(@, order),
                       !.orders[op.order].status = "CANCELLED"]

ExecuteOrder(d, op) ==
    IF d.orders[op.order].side = "BUY" THEN ProcessBuyOrder(d, op)
                                       ELSE ProcessSellOrder(d, op)

-----------------------------------------------------------------------------
(* executeMarketOrder; op.price is the live price read before the transaction *)

\* assertValidMarketAmounts
ValidMarketAmounts(op) ==
    /\ Gross(op.quantity, op.price) > 0
    /\ GrossClp(op.quantity, op.price, op.fx) > 0

CanMarketBuy(d, op) ==
    /\ d.orders[op.order] = NoOrder
    /\ ValidMarketAmounts(op)
    /\ Listed(d, op.symbol)
    /\ d.users[op.user].availableBalance >= CostClp(op.quantity, op)

MarketBuy(d, op) ==
    [d EXCEPT
      !.users[op.user] = Adjusted(@, -CostClp(op.quantity, op), 0),
      !.positions[<<op.user, op.symbol>>] = Bought(@, op.quantity, op.price),
      !.orders[op.order] = NewOrder(op, "BUY", "MARKET", 0, "EXECUTED", 0),
      !.trades[op.order] = Append(@, NewTrade(op.user, op.symbol, "BUY",
                                              op.quantity, op))]

CanMarketSell(d, op) ==
    /\ d.orders[op.order] = NoOrder
    /\ ValidMarketAmounts(op)
    /\ Listed(d, op.symbol)
    /\ Free(d.positions[<<op.user, op.symbol>>]) >= op.quantity

MarketSell(d, op) ==
    [d EXCEPT
      !.users[op.user] = Adjusted(@, ProceedsClp(op.quantity, op), 0),
      !.positions[<<op.user, op.symbol>>] = Sold(@, op.quantity),
      !.orders[op.order] = NewOrder(op, "SELL", "MARKET", 0, "EXECUTED", 0),
      !.trades[op.order] = Append(@, NewTrade(op.user, op.symbol, "SELL",
                                              op.quantity, op))]

-----------------------------------------------------------------------------
(* createStock and deleteStock of the market service *)

CanCreateStock(d, op) == ~Listed(d, op.symbol)

CreateStock(d, op) == [d EXCEPT !.stocks[op.symbol] = "admin"]

HasReferences(d, s) ==
    \/ \E o \in OrderIds : /\ d.orders[o].status = "PENDING"
                           /\ d.orders[o].symbol = s
    \/ \E u \in Users : d.positions[<<u, s>>].quantity > 0
    \/ \E o \in OrderIds : \E i \in 1..Len(d.trades[o]) : d.trades[o][i].symbol = s

\* Mutant: pending orders are not looked for.
CanDeleteOrderedStock(d, op) ==
    /\ d.stocks[op.symbol] = "admin"
    /\ \A u \in Users : d.positions[<<u, op.symbol>>].quantity = 0
    /\ \A o \in OrderIds : \A i \in 1..Len(d.trades[o]) :
           d.trades[o][i].symbol # op.symbol

CanDeleteStock(d, op) ==
    /\ d.stocks[op.symbol] = "admin"
    /\ ~HasReferences(d, op.symbol)

DeleteStock(d, op) == [d EXCEPT !.stocks[op.symbol] = "ABSENT"]
=============================================================================
