SPECIFICATION Spec
CONSTANTS
    alice = alice
    Accounts = {alice}
    Txs <- TwoTxs
    Handlers = {h1, h2}
    Timer = timer
    Triggers = {api}
    MaxBatchSize = 3
    MaxRestarts = 0
    MaxDisconnects = 0
    ZeroRoot = ZeroRoot
    NoTx = NoTx
INVARIANTS
    NothingDropped
SYMMETRY HandlerSymmetry
CHECK_DEADLOCK FALSE
