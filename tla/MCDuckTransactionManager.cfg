SPECIFICATION Spec
CONSTANTS
    Txn = {t1, t2, t3}
    NoTxn = NoTxn
    Kind = {"update"}
    TRANSACTION_ID_START = 100
    MAXIMUM_QUERY_ID = 100
    MaxQuery = 4
SYMMETRY TxnSymmetry
INVARIANTS
    TypeOK
    RecentlyCommittedOrdered
    OldTransactionsOrdered
    UndoKeptWhileNeeded
    UndoMemorySafe
    NothingAwaitsWhenIdle
    LowestActiveStartExact
CHECK_DEADLOCK FALSE
