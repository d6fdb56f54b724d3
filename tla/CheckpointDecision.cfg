SPECIFICATION CFairSpec
CONSTANTS
    Txn = {t1, t2}
    NoTxn = NoTxn
    Checkpointer = Checkpointer
    Automatic = TRUE
    Kind = {"delete", "update"}
    TRANSACTION_ID_START = 100
    MAXIMUM_QUERY_ID = 100
    MaxQuery = 4
INVARIANTS
    CTypeOK
    FullCheckpointSafe
    CheckpointExcludesWriters
PROPERTY ForceCheckpointProceeds
CHECK_DEADLOCK FALSE
