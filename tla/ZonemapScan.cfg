SPECIFICATION Spec
CONSTANTS
    Width = 3
    Codes = 3
    Lanes = 2
    STANDARD_VECTOR_SIZE = 2
    Value = {0, 2}
    Operand = {0, 1, 2}
    Filter <- AllFilters
    ChunkSize = {1, 2}
    Sketched = {FALSE}
    SegmentEnds = {TRUE, FALSE}
    Modify = {"delete", "update"}
    Query = {q1}
    MaxRows = 3
INVARIANT NativeScanExact
