SPECIFICATION Spec
CONSTANTS
    Roots = {z, r}
    ZeroRoot = z
    TxLists <- MCOneList
    StoredForms = {"seal"}
    Seal = Seal
    CacheSize = 1
    MaxBatches = 2
    MaxCrashes = 1
    Environments <- MCFreshDir
    FlushMayFail = FALSE
    NoFile = NoFile
    Torn = Torn
    NoBatch = NoBatch
    NoDa = NoDa
    MaxVRestarts = 0
INVARIANTS AckedDurable
CHECK_DEADLOCK FALSE
