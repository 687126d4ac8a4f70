CONSTANTS
    Users = {u1}
    Symbols = {s1}
    ProviderSymbols = {}
    MaxOrders = 5
    Quantities = {1}
    PriceScale = 2
    Prices = {3}
    FxRates = {0}
    CommissionRates = {2500}
    InitialBalance = 6
SPECIFICATION Spec
INVARIANTS SnapshotCurrent CashConserved DeletionSeesReferences
PROPERTIES ImplementsLedger
CHECK_DEADLOCK FALSE
