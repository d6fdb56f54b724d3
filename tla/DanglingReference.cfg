SPECIFICATION Spec
CONSTANTS
    Txn = {t1, t2}
    NoTxn = NoTxn
    NoEntry = NoEntry
    seq = seq
    tbl = tbl
    new_tbl = new_tbl
    Name <- SequenceAndTables
    Index = {}
    DependsOn <- UsesSequence
    Creates <- SequenceAndTableCreates
    Drops <- SequenceAndTableDrops
    Alters <- TableAndSequenceAlters
    InitialCatalog <- SequenceWithTable
    TRANSACTION_ID_START = 100
    MaxStatements = 2
    MaxFaults = 1
SYMMETRY Symmetry
CHECK_DEADLOCK FALSE
INVARIANT
    NoDanglingReference
