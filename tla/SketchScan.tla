----------------------------- MODULE SketchScan -----------------------------
(***************************************************************************)
(* Filtered scans of one column of a row group (row_group.cpp,             *)
(* standard_column_data.cpp): the chunks that sketchAppend adds, and the   *)
(* vector-by-vector scan that prunes with the sketches or, for a table     *)
(* without sketches, with the zone map.                                    *)
(*                                                                         *)
(* Rows are numbered from 1, vectors from 0.  Updates and deletes are      *)
(* committed between scans, so every scan sees all of them.                *)
(***************************************************************************)
EXTENDS ColumnSketch

CONSTANTS
    STANDARD_VECTOR_SIZE,
    Value,              \* values of the column
    Filter,             \* filters that queries push into the scan
    ChunkSize,          \* sizes of the chunks that are appended
    Sketched,           \* whether the table is given sketches (subset of BOOLEAN)
    SegmentEnds,        \* whether a full segment may end inside a vector (same)
    Modify,             \* subset of {"delete", "update"}
    Query,
    MaxRows             \* bound: rows appended

ASSUME ScanConstants ==
    /\ STANDARD_VECTOR_SIZE \in Nat \ {0}
    /\ Value \subseteq Signed
    /\ \A f \in Filter : IsFilter(f)
    /\ Sketched \subseteq BOOLEAN /\ SegmentEnds \subseteq BOOLEAN
    /\ ChunkSize \subseteq 1..STANDARD_VECTOR_SIZE
    /\ MaxRows \in Nat

VARIABLES
    data,               \* the values as they were appended
    updates,            \* updated rows, with their new values
    deleted,            \* rows deleted by committed transactions
    is_sketched,
    segment_sketches, vector_sels,
    scan                \* the scan of each query

vars == <<data, updates, deleted, is_sketched, segment_sketches, vector_sels, scan>>

Idle == [phase |-> "idle"]

Init ==
    /\ data = <<>>
    /\ updates = <<>>
    /\ deleted = {}
    /\ is_sketched \in Sketched
    /\ segment_sketches = <<>>
    /\ vector_sels = <<>>
    /\ scan = [q \in Query |-> Idle]

NoScan == \A q \in Query : scan[q] = Idle

\* The value that a scan reads, and the rows of a vector.
Current(r) == IF r \in DOMAIN updates THEN updates[r] ELSE data[r]
Vector(v) == {r \in DOMAIN data : (r - 1) \div STANDARD_VECTOR_SIZE = v}
-----------------------------------------------------------------------------
(* Changing the table.                                                     *)

\* Mutation of SketchAppend: the selection is not added with the sketch.
SketchAppend_NoSelection(chunk) ==
    /\ NoScan
    /\ Len(data) + Len(chunk) <= MaxRows
    /\ data' = data \o chunk
    /\ IF is_sketched
       THEN segment_sketches' =
                Append(segment_sketches, BuildSketch([i \in DOMAIN chunk |-> Unsigned(chunk[i])]))
       ELSE UNCHANGED segment_sketches
    /\ UNCHANGED <<updates, deleted, is_sketched, vector_sels, scan>>

\* RowGroup::sketchAppend: one sketch per appended chunk, with a selection of
\* all its rows but an empty bitmask.
SketchAppend(chunk) ==
    /\ NoScan
    /\ Len(data) + Len(chunk) <= MaxRows
    /\ data' = data \o chunk
    /\ IF is_sketched
       THEN /\ segment_sketches' =
                   Append(segment_sketches, BuildSketch([i \in DOMAIN chunk |-> Unsigned(chunk[i])]))
            /\ vector_sels' = Append(vector_sels, [bitmask |-> {}, rows |-> DOMAIN chunk])
       ELSE UNCHANGED <<segment_sketches, vector_sels>>
    /\ UNCHANGED <<updates, deleted, is_sketched, scan>>

\* RowGroup::Delete, once committed: GetSelVector no longer selects the row.
Delete(r) ==
    /\ "delete" \in Modify
    /\ NoScan
    /\ r \notin deleted
    /\ deleted' = deleted \cup {r}
    /\ UNCHANGED <<data, updates, is_sketched, segment_sketches, vector_sels, scan>>

\* RowGroup::Update, once committed: the new value is kept beside the segment,
\* with statistics of its own.  A row is updated at most once (a bound).
Update(r, v) ==
    /\ "update" \in Modify
    /\ NoScan
    /\ r \notin deleted \cup DOMAIN updates
    /\ updates' = [x \in DOMAIN updates \cup {r} |-> IF x = r THEN v ELSE updates[x]]
    /\ UNCHANGED <<data, deleted, is_sketched, segment_sketches, vector_sels, scan>>
-----------------------------------------------------------------------------
(* Scanning.                                                               *)

\* The scan state of a query whose filter was pushed into the scan.
StartScan(q, f) ==
    /\ scan[q] = Idle
    /\ data # <<>>
    /\ scan' = [scan EXCEPT ![q] = [phase |-> "check", filter |-> f, vector_index |-> 0,
                                    rows |-> {}]]
    /\ UNCHANGED <<data, updates, deleted, is_sketched, segment_sketches, vector_sels>>

HasVector(q) == scan[q].vector_index * STANDARD_VECTOR_SIZE < Len(data)

\* The scan goes on: to the next vector, or to read this one.
NextVector(q) == [scan EXCEPT ![q].phase = "check", ![q].vector_index = @ + 1]
ReadThis(q)   == [scan EXCEPT ![q].phase = "read"]

\* Whether the segment ends inside vector v, so that the vector is not skipped:
\* the last segment ends where the data does, others where they are full.
EndsInside(v) ==
    IF (v + 1) * STANDARD_VECTOR_SIZE > Len(data) THEN {TRUE} ELSE SegmentEnds

\* CheckSketchSegments: the check leaves its selection in vector_sels.  A
\* vector in which the segment ends is read even if the check rejects it.
CheckSketchSegments(q) ==
    LET v == scan[q].vector_index
        i == v + 1
        r == CheckSketchStatistics(segment_sketches[i], scan[q].filter, vector_sels[i])
    IN  /\ scan[q].phase = "check"
        /\ HasVector(q)
        /\ is_sketched
        /\ vector_sels' = [vector_sels EXCEPT ![i] = r.msel]
        /\ \/ /\ r.result # "FILTER_ALWAYS_FALSE" \/ TRUE \in EndsInside(v)
              /\ scan' = ReadThis(q)
           \/ /\ r.result = "FILTER_ALWAYS_FALSE" /\ FALSE \in EndsInside(v)
              /\ scan' = NextVector(q)
        /\ UNCHANGED <<data, updates, deleted, is_sketched, segment_sketches>>

\* Mutation of Rejected: the statistics of the updates are not consulted.
Rejected_NoUpdates(f, v) ==
    LET values == {data[r] : r \in Vector(v)} IN
    CheckStatistics(Min(values), Max(values), f) = "FILTER_ALWAYS_FALSE"

\* StandardColumnData::CheckZonemap: the segment's statistics and those of
\* all updates of the column have to rule the filter out.
Rejected(f, v) ==
    LET values == {data[r] : r \in Vector(v)}
        newer  == {updates[r] : r \in DOMAIN updates}
    IN  /\ CheckStatistics(Min(values), Max(values), f) = "FILTER_ALWAYS_FALSE"
        /\ newer # {} => CheckStatistics(Min(newer), Max(newer), f) = "FILTER_ALWAYS_FALSE"

\* CheckZonemapSegments.  The statistics are those of the vector's own values,
\* the sharpest a segment can have; that a segment is checked only once per
\* scan is covered by the choice to read a vector that could be rejected.
CheckZonemapSegments(q) ==
    LET v        == scan[q].vector_index
        rejected == Rejected(scan[q].filter, v)
    IN  /\ scan[q].phase = "check"
        /\ HasVector(q)
        /\ ~ is_sketched
        /\ \/ /\ ~ rejected \/ TRUE \in EndsInside(v)
              /\ scan' = ReadThis(q)
           \/ /\ rejected /\ FALSE \in EndsInside(v)
              /\ scan' = NextVector(q)
        /\ UNCHANGED <<data, updates, deleted, is_sketched, segment_sketches, vector_sels>>

\* The rest of TemplatedScan for this vector.  Without sketches the visible
\* rows are filtered by ColumnData::Select; with them the rows are the ones
\* that vector_sels holds now.
ReadVector(q) ==
    LET v       == scan[q].vector_index
        visible == Vector(v) \ deleted
        sel     == IF is_sketched
                   THEN {v * STANDARD_VECTOR_SIZE + i : i \in vector_sels[v + 1].rows}
                   ELSE {r \in visible : FilterHolds(scan[q].filter, Current(r))}
    IN  /\ scan[q].phase = "read"
        /\ scan' = [NextVector(q) EXCEPT ![q].rows = IF visible = {} THEN @ ELSE @ \cup sel]
        /\ UNCHANGED <<data, updates, deleted, is_sketched, segment_sketches, vector_sels>>

\* vector_index is past the rows of the row group: TemplatedScan returns.
EndScan(q) ==
    /\ scan[q].phase = "check"
    /\ ~ HasVector(q)
    /\ scan' = [scan EXCEPT ![q] = Idle]
    /\ UNCHANGED <<data, updates, deleted, is_sketched, segment_sketches, vector_sels>>
-----------------------------------------------------------------------------
Next ==
    \/ \E n \in ChunkSize : \E chunk \in [1..n -> Value] : SketchAppend(chunk)
    \/ \E r \in DOMAIN data : Delete(r)
    \/ \E r \in DOMAIN data, v \in Value : Update(r, v)
    \/ \E q \in Query, f \in Filter : StartScan(q, f)
    \/ \E q \in Query : CheckSketchSegments(q)
    \/ \E q \in Query : CheckZonemapSegments(q)
    \/ \E q \in Query : ReadVector(q)
    \/ \E q \in Query : EndScan(q)

Spec == Init /\ [][Next]_vars
-----------------------------------------------------------------------------
(* Properties.                                                             *)

\* Every variable holds a value of its type, and each sketch has a selection.
TypeOK ==
    /\ data \in Seq(Value)
    /\ DOMAIN updates \subseteq DOMAIN data /\ deleted \subseteq DOMAIN data
    /\ is_sketched \in BOOLEAN
    /\ Len(vector_sels) = Len(segment_sketches)
    /\ \A i \in DOMAIN vector_sels :
           vector_sels[i].bitmask \cup vector_sels[i].rows
               \subseteq DOMAIN segment_sketches[i].base_data
    /\ DOMAIN scan = Query

\* Rows that the filter of q selects, and rows of the vectors q is done with.
Qualifying(q) == {r \in DOMAIN data \ deleted : FilterHolds(scan[q].filter, Current(r))}
Seen(q) == {r \in DOMAIN data : (r - 1) \div STANDARD_VECTOR_SIZE < scan[q].vector_index}

Scanning == {q \in Query : scan[q] # Idle}

\* Pruning with zone maps changes no result: a scan of a table without sketches
\* has returned exactly the qualifying rows of the vectors it is done with,
\* whatever was updated or deleted before.
NativeScanExact ==
    ~ is_sketched => \A q \in Scanning : scan[q].rows = Qualifying(q) \cap Seen(q)

\* A sketched scan returns only rows that satisfy its filter, although the
\* selection it reads is shared, left over from earlier scans, and merged.
SketchScanSound ==
    is_sketched => \A q \in Scanning : \A r \in scan[q].rows :
        FilterHolds(scan[q].filter, Current(r))

\* The comparisons of a filter, and the operand of the strict comparison that
\* each is evaluated as.
Comparisons(f) ==
    IF f.type = "and" THEN {g \in ToSet(f.children) : g.type = "constant"} ELSE {f}

StrictOperand(g) ==
    CASE g.op = ">=" -> g.c - 1
      [] g.op = "<=" -> g.c + 1
      [] OTHER       -> g.c

\* No endpoint parts row i from the operand, and the row itself is not looked
\* at: it is in a whole vector of codes of a chunk with few distinct values.
\* Only an operand below all values is recognised without the codes.
Overlooked(s, g, i) ==
    LET v == s.base_data[i]
        x == StrictOperand(g)
    IN  /\ ~ s.need_check_base /\ InBlock(s, i)
        /\ x >= s.min_data
        /\ ~ \E e \in ToSet(s.endpoints) :
                 IF g.op \in {"<", "<="} THEN v <= e /\ e < x ELSE x <= e /\ e < v

\* What need_check_base costs: of the qualifying rows a sketched scan misses
\* those that a comparison overlooks, and no others, whatever the order of the
\* comparisons, however their masks are merged, and whether the vector was
\* skipped or read.
SketchScanMissesOverlooked ==
    is_sketched => \A q \in Scanning : \A r \in Qualifying(q) \cap Seen(q) :
        LET v == (r - 1) \div STANDARD_VECTOR_SIZE IN
        r \in scan[q].rows <=>
            ~ \E g \in Comparisons(scan[q].filter) :
                  Overlooked(segment_sketches[v + 1], g, r - v * STANDARD_VECTOR_SIZE)

\* "Returns true if the statistics indicate that the segment can contain values
\* that satisfy that filter" (table_filter.hpp:41, on CheckStatistics and
\* CheckSketchStatistics): a vector that the sketch rejects has no such row.
RejectedHoldNothing ==
    is_sketched => \A q \in Scanning :
        LET v == scan[q].vector_index IN
        /\ scan[q].phase = "check"
        /\ HasVector(q)
        /\ CheckSketchStatistics(segment_sketches[v + 1], scan[q].filter,
                                 vector_sels[v + 1]).result = "FILTER_ALWAYS_FALSE"
        => Qualifying(q) \cap Vector(v) = {}

\* build_order_preserving_map: codes never contradict the order of the values
\* they stand for, the largest value's included.
CodesOrderPreserving ==
    \A n \in DOMAIN segment_sketches : LET s == segment_sketches[n] IN
        \A i, j \in DOMAIN s.base_data :
            s.base_data[i] < s.base_data[j] => s.sketch[i] <= s.sketch[j]
=============================================================================
