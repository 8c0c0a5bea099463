SPECIFICATION Spec
CONSTANTS
    Roots = {z, r}
    ZeroRoot = z
    TxLists <- MCOneList
    StoredForms = {"seal", "receipt"}
    Seal = Seal
    CacheSize = 1
    MaxBatches = 2
    MaxCrashes = 2
    Environments <- MCEnvironments
    FlushMayFail = FALSE
    NoFile = NoFile
    Torn = Torn
    NoBatch = NoBatch
    NoDa = NoDa
    MaxVRestarts = 1
INVARIANTS
    TypeOK
    Replayable
    ProvenHaveProofs
    CacheHonest
    VerifiedAreCommitted
    CountedIsWhole
    AckedDurableBeside
PROPERTIES ImplementsBatchChain
CHECK_DEADLOCK FALSE
