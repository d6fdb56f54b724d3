SPECIFICATION Spec
CONSTANTS
    Txn = {t1, t2, t3}
    Nobody = Nobody
    Checkpointer = Checkpointer
    Closer = Closer
    INVALID_BLOCK = INVALID_BLOCK
    METADATA_BLOCK_COUNT = 3
    MaxBlock = 8
    CrashOverTail = TRUE
    CheckpointOnShutdown = {"open"}
    MaxRestarts = 2
    MaxFailures = 0
SYMMETRY Symmetry
CHECK_DEADLOCK FALSE
INVARIANT ExactlyOnce
