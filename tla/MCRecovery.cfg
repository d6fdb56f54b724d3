SPECIFICATION Spec
CONSTANTS
    Txn = {t1, t2, t3}
    Nobody = Nobody
    Checkpointer = Checkpointer
    Closer = Closer
    INVALID_BLOCK = INVALID_BLOCK
    METADATA_BLOCK_COUNT = 3
    MaxBlock = 8
    CrashOverTail = FALSE
    CheckpointOnShutdown = {"open"}
    MaxRestarts = 3
    MaxFailures = 1
SYMMETRY Symmetry
INVARIANTS
    TypeOK
    ExactlyOnce
    CheckpointIntact
    BlocksAccounted
CHECK_DEADLOCK FALSE
