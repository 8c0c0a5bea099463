SPECIFICATION FairSpec
CONSTANTS
    Accounts = {1, 2}
    MaxPrice = 3
    Prices = {1, 2}
    Quantities = {0, 1, 2}
    MaxOrders = 3
    NoOrder = NoOrder
INVARIANTS
    TypeOK
    LevelsWellFormed
    IndexMatchesBook
    LevelTotalCovers
    NoCrossedBook
PROPERTIES
    PriceTimePriority
    ImplementsPriorityBook
    MatchTerminates
