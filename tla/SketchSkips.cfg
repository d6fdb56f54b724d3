\* A sketch rejects a vector that has qualifying rows.
SPECIFICATION Spec
CONSTANTS
    Width = 3
    Codes = 2
    Lanes = 2
    STANDARD_VECTOR_SIZE = 3
    Value = {0, 2, 3}
    Operand = {1, 2, 3}
    Filter <- RangeFilters
    ChunkSize = {3}
    Sketched = {TRUE}
    SegmentEnds = {FALSE}
    Modify = {}
    Query = {q1}
    MaxRows = 6
INVARIANT RejectedHoldNothing
