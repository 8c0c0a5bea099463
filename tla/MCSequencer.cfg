SPECIFICATION Spec
CONSTANTS
    alice = alice
    Accounts = {alice}
    Txs <- MixedTxs
    Handlers = {h1, h2, h3}
    Timer = timer
    Triggers = {api}
    MaxBatchSize = 2
    MaxRestarts = 1
    MaxDisconnects = 1
    ZeroRoot = ZeroRoot
    NoTx = NoTx
INVARIANTS
    TypeOK
    TxsConserved
    ExecutedOnce
    ChainContinuous
    PostRootCurrent
    RootsAdvance
    RefusedIfOvertaken
PROPERTIES
    ImplementsBatchChain
SYMMETRY HandlerSymmetry
CHECK_DEADLOCK FALSE
