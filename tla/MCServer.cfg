SPECIFICATION Spec
CONSTANTS
    ann = ann
    bob = bob
    eve = eve
    Clients = {ann, bob, eve}
    Timer = Timer
    Menu <- MCMenu
    MaxBatchSize = 2
    Markets = {m1}
    MaxPrices = 1
PROPERTIES EveryRequestReturns MempoolDrains UpdateAloneIsFresh
CHECK_DEADLOCK FALSE
