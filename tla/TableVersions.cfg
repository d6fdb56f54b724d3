SPECIFICATION Spec
CONSTANTS
    Txn = {t1, t2, t3}
    NoTxn = NoTxn
    NoValue = NoValue
    NoUpdates = NoUpdates
    STANDARD_VECTOR_SIZE = 2
    TRANSACTION_ID_START = 100
    NOT_DELETED_ID = 200
    InitialRows = 1
    RowSets <- FewRows
    AppendCounts = {1, 3}
    MaxRows = 4
    MaxEntries = 1
    MaxFaults = 1
SYMMETRY Symmetry
CHECK_DEADLOCK FALSE
INVARIANTS
    TypeOK
    FetchAgreesWithScan
    CommittedRowsVisible
    IndexConsistent
PROPERTY
    ImplementsSnapshotIsolation
