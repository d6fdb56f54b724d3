---------------------------- MODULE RowVersions ----------------------------
(***************************************************************************)
(* The version information of the rows of a row group (chunk_info.cpp,     *)
(* row_version_manager.cpp): for each vector nothing, one mark for the     *)
(* whole vector, or one insert and one delete mark per row.  A mark is the *)
(* id of a running transaction or the timestamp of a commit.               *)
(***************************************************************************)
EXTENDS Naturals, FiniteSetsExt, SequencesExt

CONSTANTS
    STANDARD_VECTOR_SIZE,
    TRANSACTION_ID_START,   \* ids of transactions, above all timestamps
    NOT_DELETED_ID          \* above all ids

ASSUME VersionConstants ==
    /\ STANDARD_VECTOR_SIZE \in Nat \ {0}
    /\ TRANSACTION_ID_START \in Nat /\ NOT_DELETED_ID \in Nat
    /\ 2 < TRANSACTION_ID_START /\ TRANSACTION_ID_START < NOT_DELETED_ID

Slot == 0..STANDARD_VECTOR_SIZE - 1

NoInfo == [type |-> "none"]
ConstantInfo(insert, delete) == [type |-> "constant", insert_id |-> insert, delete_id |-> delete]
NewVectorInfo ==
    [type |-> "vector", insert_id |-> 0, same_inserted_id |-> TRUE, any_deleted |-> FALSE,
     inserted |-> [i \in Slot |-> 0], deleted |-> [i \in Slot |-> NOT_DELETED_ID]]
-----------------------------------------------------------------------------
(* Visibility.  txn is the TransactionData of the reader.                  *)

\* TransactionVersionOperator.
UseInsertedVersion(txn, id) == id < txn.start_time \/ id = txn.transaction_id

UseDeletedVersion(txn, id) == ~ UseInsertedVersion(txn, id)

\* The insert mark that counts for slot i of a vector info.
InsertMark(info, i) == IF info.same_inserted_id THEN info.insert_id ELSE info.inserted[i]

\* The slots that a scan selects.
GetSelVector(info, txn) ==
    CASE info.type = "none" -> Slot
      [] info.type = "constant" ->
            {i \in Slot : /\ UseInsertedVersion(txn, info.insert_id)
                          /\ UseDeletedVersion(txn, info.delete_id)}
      [] info.type = "vector" ->
            {i \in Slot : /\ UseInsertedVersion(txn, InsertMark(info, i))
                          /\ info.any_deleted => UseDeletedVersion(txn, info.deleted[i])}

\* Whether a row that an index found is visible.
Fetch(info, txn, i) ==
    CASE info.type = "none" -> TRUE
      [] info.type = "constant" -> /\ UseInsertedVersion(txn, info.insert_id)
                                   /\ ~ UseInsertedVersion(txn, info.delete_id)
      [] info.type = "vector" -> /\ UseInsertedVersion(txn, info.inserted[i])
                                 /\ ~ UseInsertedVersion(txn, info.deleted[i])
-----------------------------------------------------------------------------
(* Appends.                                                                *)

\* ChunkVectorInfo::Append of the rows in slots, an interval.
AppendToVector(info, slots, id) ==
    LET other == 0 \notin slots /\ info.insert_id # id IN
    [info EXCEPT !.insert_id = IF 0 \in slots THEN id ELSE IF other THEN NOT_DELETED_ID ELSE @,
                 !.same_inserted_id = @ /\ ~ other,
                 !.inserted = [i \in Slot |-> IF i \in slots THEN id ELSE @[i]]]

\* The slots of vector v that the rows from..to-1 occupy.
Covered(v, from, to) == {i \in Slot : v * STANDARD_VECTOR_SIZE + i \in from..(to - 1)}

\* AppendVersionInfo throws: part of a vector that has one mark for all rows.
AppendVersionError(infos, from, to) ==
    \E v \in DOMAIN infos : /\ Covered(v, from, to) \notin {{}, Slot}
                            /\ infos[v].type = "constant"

\* RowVersionManager::AppendVersionInfo of the rows from..to-1.
AppendVersionInfo(infos, from, to, id) ==
    [v \in DOMAIN infos |->
        LET slots == Covered(v, from, to) IN
        CASE slots = {}   -> infos[v]
          [] slots = Slot -> ConstantInfo(id, NOT_DELETED_ID)
          [] OTHER -> AppendToVector(IF infos[v].type = "none" THEN NewVectorInfo ELSE infos[v],
                                     slots, id)]

\* RowVersionManager::CommitAppend.
CommitAppend(infos, from, to, id) ==
    [v \in DOMAIN infos |->
        LET slots == Covered(v, from, to)
            info  == infos[v]
        IN  IF slots = {} THEN info
            ELSE IF info.type = "constant" THEN [info EXCEPT !.insert_id = id]
            ELSE [info EXCEPT !.insert_id = IF info.same_inserted_id THEN id ELSE @,
                              !.inserted = [i \in Slot |-> IF i \in slots THEN id ELSE @[i]]]]

\* RowVersionManager::RevertAppend: the vectors that begin at or after the row
\* are reset; the marks of a vector that the append had entered stay.
RevertAppend(infos, from) ==
    [v \in DOMAIN infos |-> IF v * STANDARD_VECTOR_SIZE >= from THEN NoInfo ELSE infos[v]]
-----------------------------------------------------------------------------
(* Deletes.                                                                *)

\* Mutation of GetVectorInfo: the mark of the vector is not copied to its rows.
GetVectorInfo_NoCopy(info) ==
    CASE info.type = "none"     -> NewVectorInfo
      [] info.type = "constant" -> [NewVectorInfo EXCEPT !.insert_id = info.insert_id]
      [] info.type = "vector"   -> info

\* RowVersionManager::GetVectorInfo: one mark per row from now on.
GetVectorInfo(info) ==
    CASE info.type = "none"     -> NewVectorInfo
      [] info.type = "constant" -> [NewVectorInfo EXCEPT !.insert_id = info.insert_id,
                                                         !.inserted = [i \in Slot |-> info.insert_id]]
      [] info.type = "vector"   -> info

\* The first of the rows that another transaction has marked, or one past all.
FirstConflict(info, rows, id) ==
    Min({i \in rows : info.deleted[i] \notin {id, NOT_DELETED_ID}} \cup {STANDARD_VECTOR_SIZE})

\* ChunkVectorInfo::Delete of a set of slots, in the order of a scan: the rows
\* before a conflict are marked, whether or not there is one.
DeleteRows(info0, rows, id) ==
    LET info   == GetVectorInfo(info0)
        stop   == FirstConflict(info, rows, id)
        marked == {i \in rows : i < stop /\ info.deleted[i] = NOT_DELETED_ID}
    IN  [info |-> [info EXCEPT !.any_deleted = TRUE,
                               !.deleted = [i \in Slot |-> IF i \in marked THEN id ELSE @[i]]],
         rows |-> marked,
         conflict |-> stop \in rows]

\* The rows of a DeleteInfo: a run from the first slot is kept as its length.
DeleteInfo(v, rows) ==
    LET run == rows = 0..Cardinality(rows) - 1 IN
    [kind |-> "delete", vector_idx |-> v, count |-> Cardinality(rows), is_consecutive |-> run,
     rows |-> IF run THEN {} ELSE rows]

DeletedSlots(d) == IF d.is_consecutive THEN 0..(d.count - 1) ELSE d.rows

\* RowVersionManager::CommitDelete: id is a commit timestamp, or the
\* transaction's id again, or NOT_DELETED_ID.
CommitDelete(infos, d, id) ==
    LET info == GetVectorInfo(infos[d.vector_idx]) IN
    [infos EXCEPT ![d.vector_idx] =
        [info EXCEPT !.deleted = [i \in Slot |-> IF i \in DeletedSlots(d) THEN id ELSE @[i]]]]
-----------------------------------------------------------------------------
(* Checkpoints.                                                            *)

HasDeletes(info) ==
    CASE info.type = "none" -> FALSE
      [] info.type = "constant" -> \/ info.insert_id >= TRANSACTION_ID_START
                                   \/ info.delete_id < TRANSACTION_ID_START
      [] info.type = "vector" -> info.any_deleted

\* Whoever reads with this sees every commit and no running transaction.
AllCommitted == [start_time |-> TRANSACTION_ID_START - 1, transaction_id |-> NOT_DELETED_ID + 1]

\* Mutation of WriteAndRead: a partly deleted vector is read without its deletes.
WriteAndRead_AllOrNothing(info) ==
    IF HasDeletes(info) /\ GetSelVector(info, AllCommitted) = {} THEN ConstantInfo(0, 0) ELSE NoInfo

\* ChunkInfo::Write followed by ChunkInfo::Read: what a checkpoint keeps of a
\* vector, with a slot for every row the vector could hold.
WriteAndRead(info) ==
    LET visible == GetSelVector(info, AllCommitted) IN
    IF ~ HasDeletes(info) THEN NoInfo
    ELSE IF info.type = "constant" THEN ConstantInfo(0, 0)
    ELSE CASE visible = Slot -> NoInfo
           [] visible = {}   -> ConstantInfo(0, 0)
           [] OTHER -> [NewVectorInfo EXCEPT
                            !.any_deleted = TRUE,
                            !.deleted = [i \in Slot |-> IF i \in visible THEN @[i] ELSE 0]]
=============================================================================
