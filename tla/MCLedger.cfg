CONSTANTS
    Users = {u1, u2}
    Symbols = {s1}
    ProviderSymbols = {}
    MaxOrders = 3
    Quantities = {1, 2}
    PriceScale = 4
    Prices = {5, 7}
    FxRates = {0, 16000}
    CommissionRates = {5000}
    InitialBalance = 7
SYMMETRY Symmetric
SPECIFICATION Spec
INVARIANTS TypeOK ReservedBalanceBacked ReservedSharesBacked SharesCovered OneTradePerExecution LimitRespected ReferencesListed SharesConserved AverageWithinACent
PROPERTIES ClosedOrdersStay MoneyMovesWithATrade
CHECK_DEADLOCK FALSE
