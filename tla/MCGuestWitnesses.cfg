SPECIFICATION Spec
CONSTANTS
    Accounts = {0}
    MaxPrice = 3
    Prices = {1, 3}
    Quantities = {0, 1, 2, 3}
    MaxOrders = 3
    NoOrder = NoOrder
    Requests <- MCRequests
    Amounts = {9}
    MaxNonce = 4
    BpsUnit = 4
    QtyUnit = 1
    PnlUnit = 1
    InitialMarginBps = 2
    MaintenanceMarginBps = 1
    RebateBps = 1
    TakerFeeBps = 2
    NoOne = NoOne
    GuestUnit = 1
    GuestLeverage = 2
    NoWitness = NoWitness
PROPERTIES
    ProperWitnessesAccepted
CHECK_DEADLOCK FALSE
