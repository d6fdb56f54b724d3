--------------------------- MODULE TableVersions ---------------------------
(***************************************************************************)
(* Transactions on one table with an index: local appends that are flushed *)
(* at commit, deletes and updates in place, the undo buffer that commits   *)
(* or takes them back entry by entry while other transactions read and     *)
(* write, and the cleanup of committed undo buffers.  The column that is   *)
(* updated is not indexed; a transaction writes its own name into it.      *)
(***************************************************************************)
EXTENDS RowVersions, UpdateSegment

CONSTANTS
    Txn,
    InitialRows,        \* rows of the table in the file
    RowSets,            \* the rows that the WHERE clauses select
    AppendCounts,       \* the sizes of the INSERTs
    NoTxn, NoValue,
    MaxRows,            \* bound: rows of the table
    MaxEntries,         \* bound: deletes and updates of one transaction
    MaxFaults           \* bound: failed commits and restarts together

ASSUME TableConstants ==
    /\ MaxRows \in Nat /\ InitialRows \in 0..MaxRows /\ AppendCounts \subseteq Nat
    /\ \A p \in RowSets : p \subseteq 0..MaxRows - 1
    /\ IsFiniteSet(Txn) /\ NoTxn \notin Txn /\ NoValue \notin Txn

VARIABLES
    phase,              \* idle, active, invalid, committing, rolling back, ended
    start_time, transaction_id, commit_id,
    current_start_timestamp, current_transaction_id,
    transaction_lock,   \* the transaction that commits or rolls back
    local,              \* rows in the local storage
    undo,               \* the undo buffers
    at,                 \* the entries that the commit or rollback has done
    total_rows,
    vector_info, updates, data,
    index,              \* the rows that the index holds
    recently_committed, \* whose undo buffers await their cleanup
    faults,
    live                \* ghost: the rows that commits have added and not deleted

vars == <<phase, start_time, transaction_id, commit_id, current_start_timestamp,
          current_transaction_id, transaction_lock, local, undo, at, total_rows, vector_info,
          updates, data, index, recently_committed, faults, live>>
clocks == <<start_time, transaction_id, current_start_timestamp, current_transaction_id>>
table  == <<total_rows, vector_info, updates, data, index>>

Row        == 0..MaxRows - 1
Vector     == 0..(MaxRows - 1) \div STANDARD_VECTOR_SIZE
VectorOf(r) == r \div STANDARD_VECTOR_SIZE
SlotOf(r)   == r % STANDARD_VECTOR_SIZE
RowAt(v, i) == v * STANDARD_VECTOR_SIZE + i

\* The TransactionData of t.
Data(t) == [start_time |-> start_time[t], transaction_id |-> transaction_id[t]]

\* The rows of vector v that a scan of txn returns, with these version infos.
Scan(infos, v, txn) == {i \in GetSelVector(infos[v], txn) : RowAt(v, i) < total_rows}

\* The slots of vector v that a statement of t with the condition p finds.
Matching(t, v, p) == {i \in Scan(vector_info, v, Data(t)) : RowAt(v, i) \in p}

Running == {t \in Txn : phase[t] \notin {"idle", "ended"}}

Init ==
    /\ phase = [t \in Txn |-> "idle"]
    /\ start_time = [t \in Txn |-> 0] /\ transaction_id = [t \in Txn |-> 0]
    /\ commit_id = [t \in Txn |-> 0]
    /\ current_start_timestamp = 2 /\ current_transaction_id = TRANSACTION_ID_START
    /\ transaction_lock = NoTxn
    /\ local = [t \in Txn |-> 0]
    /\ undo = [t \in Txn |-> <<>>] /\ at = 0
    /\ total_rows = InitialRows
    /\ vector_info = [v \in Vector |-> NoInfo]
    /\ updates = [v \in Vector |-> NoUpdates]
    /\ data = [r \in Row |-> NoTxn]
    /\ index = 0..InitialRows - 1
    /\ recently_committed = <<>>
    /\ faults = 0
    /\ live = 0..InitialRows - 1
-----------------------------------------------------------------------------
(* A transaction begins, appends to its local storage, deletes, updates.   *)

StartTransaction(t) ==
    /\ phase[t] = "idle" /\ transaction_lock = NoTxn
    /\ phase' = [phase EXCEPT ![t] = "active"]
    /\ start_time' = [start_time EXCEPT ![t] = current_start_timestamp]
    /\ transaction_id' = [transaction_id EXCEPT ![t] = current_transaction_id]
    /\ current_start_timestamp' = current_start_timestamp + 1
    /\ current_transaction_id' = current_transaction_id + 1
    /\ UNCHANGED <<commit_id, transaction_lock, local, undo, at, table, recently_committed, faults, live>>

\* INSERT; n rows are left of it at the commit.
LocalAppend(t, n) ==
    /\ phase[t] = "active" /\ local[t] = 0
    /\ total_rows + n + FoldFunction(+, 0, local) <= MaxRows
    /\ local' = [local EXCEPT ![t] = @ + n]
    /\ UNCHANGED <<phase, clocks, commit_id, transaction_lock, undo, at, table, recently_committed, faults, live>>

\* DELETE of the rows of p in vector v.  On a conflict the statement fails and
\* its transaction with it; the undo buffer knows nothing of the rows that were
\* marked before the conflict.
Delete(t, v, p) ==
    LET rows   == Matching(t, v, p)
        result == DeleteRows(vector_info[v], rows, transaction_id[t])
    IN  /\ phase[t] = "active" /\ rows # {}
        /\ Len(undo[t]) < MaxEntries
        /\ vector_info' = [vector_info EXCEPT ![v] = result.info]
        /\ IF result.conflict
           THEN phase' = [phase EXCEPT ![t] = "invalid"] /\ UNCHANGED undo
           ELSE /\ undo' = IF result.rows = {} THEN undo
                           ELSE [undo EXCEPT ![t] = Append(@, DeleteInfo(v, result.rows))]
                /\ UNCHANGED phase
        /\ UNCHANGED <<clocks, commit_id, transaction_lock, local, at, total_rows, updates, data,
                       index, recently_committed, faults, live>>

\* UPDATE of the rows of p in vector v.
Update(t, v, p) ==
    LET rows == Matching(t, v, p) IN
    /\ phase[t] = "active" /\ rows # {}
    /\ Len(undo[t]) < MaxEntries
    /\ IF CheckForConflicts(updates[v], rows, Data(t))
       THEN phase' = [phase EXCEPT ![t] = "invalid"] /\ UNCHANGED <<undo, updates>>
       ELSE /\ updates' = [updates EXCEPT ![v] =
                    UpdateRows(@, t, Data(t), rows, t, [i \in Slot |-> data[RowAt(v, i)]])]
            /\ undo' = IF \E n \in DOMAIN undo[t] : undo[t][n] = [kind |-> "update", vector_idx |-> v]
                       THEN undo
                       ELSE [undo EXCEPT ![t] = Append(@, [kind |-> "update", vector_idx |-> v])]
            /\ UNCHANGED phase
    /\ UNCHANGED <<clocks, commit_id, transaction_lock, local, at, total_rows, vector_info, data,
                   index, recently_committed, faults, live>>
-----------------------------------------------------------------------------
(* Commit.                                                                 *)

\* The rows of an entry of an undo buffer.
AppendedRows(e) == e.start_row..(e.start_row + e.count - 1)
DeletedRows(e)  == {RowAt(e.vector_idx, i) : i \in DeletedSlots(e)}

Kind(t, kind) == {undo[t][n] : n \in {m \in DOMAIN undo[t] : undo[t][m].kind = kind}}
Appended(t) == UNION {AppendedRows(e) : e \in Kind(t, "append")}
Deleted(t)  == UNION {DeletedRows(e) : e \in Kind(t, "delete")}

AppendEntry(t) == [kind |-> "append", start_row |-> total_rows, count |-> local[t]]

\* CommitTransaction takes a commit timestamp and flushes the local storage
\* (LocalStorage::Flush).  No other transaction can tell the two apart.
BeginCommit(t) ==
    LET to == total_rows + local[t] IN
    /\ phase[t] = "active" /\ transaction_lock = NoTxn
    /\ transaction_lock' = t
    /\ phase' = [phase EXCEPT ![t] = "committing"]
    /\ commit_id' = [commit_id EXCEPT ![t] = current_start_timestamp]
    /\ current_start_timestamp' = current_start_timestamp + 1
    /\ at' = 0
    /\ local' = [local EXCEPT ![t] = 0]
    /\ \/ local[t] = 0 /\ UNCHANGED <<undo, table>>
       \/ /\ local[t] > 0 /\ ~ AppendVersionError(vector_info, total_rows, to)
          /\ undo' = [undo EXCEPT ![t] = Append(@, AppendEntry(t))]
          /\ vector_info' = AppendVersionInfo(vector_info, total_rows, to, transaction_id[t])
          /\ index' = index \cup (total_rows..to - 1)
          /\ data' = [r \in Row |-> IF r \in total_rows..to - 1 THEN t ELSE data[r]]
          /\ total_rows' = to
          /\ UNCHANGED updates
    /\ UNCHANGED <<start_time, transaction_id, current_transaction_id, recently_committed, faults, live>>

\* The flush fails: on a duplicate key, and takes back what it has put into the
\* table and the index, or in AppendVersionInfo, and leaves the index entries.
\* RevertCommit then reads an iterator that was never set; whatever part of the
\* undo buffer it goes through, there is nothing committed to revert.
FlushFails(t) ==
    LET to    == total_rows + local[t]
        error == AppendVersionError(vector_info, total_rows, to)
    IN  /\ phase[t] = "active" /\ transaction_lock = NoTxn /\ local[t] > 0
        /\ error \/ faults < MaxFaults
        /\ transaction_lock' = t
        /\ phase' = [phase EXCEPT ![t] = "rolling_back"]
        /\ current_start_timestamp' = current_start_timestamp + 1
        /\ local' = [local EXCEPT ![t] = 0]
        /\ undo' = [undo EXCEPT ![t] = Append(@, AppendEntry(t))]
        /\ at' = Len(undo'[t])
        /\ index' = IF error THEN index \cup (total_rows..to - 1) ELSE index
        /\ faults' = IF error THEN faults ELSE faults + 1
        /\ UNCHANGED <<start_time, transaction_id, commit_id, current_transaction_id, total_rows,
                       vector_info, updates, data, recently_committed, live>>

\* CommitState::CommitEntry of the next entry.
CommitEntry(t) ==
    LET e == undo[t][at + 1] IN
    /\ phase[t] = "committing" /\ at < Len(undo[t])
    /\ at' = at + 1
    /\ \/ /\ e.kind = "append"
          /\ vector_info' = CommitAppend(vector_info, e.start_row, e.start_row + e.count, commit_id[t])
          /\ UNCHANGED updates
       \/ /\ e.kind = "delete"
          /\ vector_info' = CommitDelete(vector_info, e, commit_id[t])
          /\ UNCHANGED updates
       \/ /\ e.kind = "update"
          /\ updates' = [updates EXCEPT ![e.vector_idx] = SetVersion(@, t, commit_id[t])]
          /\ UNCHANGED vector_info
    /\ UNCHANGED <<phase, clocks, commit_id, transaction_lock, local, undo, total_rows, data, index,
                   recently_committed, faults, live>>

Table == [total_rows |-> total_rows, vector_info |-> vector_info, updates |-> updates, index |-> index]

\* Mutation of RevertAppendEntry: the index keeps the rows.
RevertAppendEntry_KeepsIndex(tab, e) ==
    [tab EXCEPT !.total_rows = e.start_row, !.vector_info = RevertAppend(@, e.start_row)]

\* DataTable::RevertAppend.
RevertAppendEntry(tab, e) ==
    [tab EXCEPT !.total_rows = e.start_row,
                !.vector_info = RevertAppend(@, e.start_row),
                !.index = @ \ (e.start_row..Min({e.start_row + e.count, tab.total_rows}) - 1)]

\* CommitState::RevertCommit of entry e of t.
RevertCommitEntry(tab, e, t) ==
    CASE e.kind = "append" -> RevertAppendEntry(tab, e)
      [] e.kind = "delete" -> [tab EXCEPT !.vector_info = CommitDelete(@, e, transaction_id[t])]
      [] e.kind = "update" -> [tab EXCEPT !.updates[e.vector_idx] = SetVersion(@, t, transaction_id[t])]

\* RollbackState::RollbackEntry.
RollbackEntryOf(tab, e, t) ==
    CASE e.kind = "append" -> RevertAppendEntry(tab, e)
      [] e.kind = "delete" -> [tab EXCEPT !.vector_info = CommitDelete(@, e, NOT_DELETED_ID)]
      [] e.kind = "update" -> [tab EXCEPT !.updates[e.vector_idx] = RollbackUpdate(@, t)]

TableBecomes(tab) ==
    /\ total_rows' = tab.total_rows /\ vector_info' = tab.vector_info
    /\ updates' = tab.updates /\ index' = tab.index
    /\ UNCHANGED data

\* Writing an entry to the log, or flushing the log after the last one, fails:
\* the entries so far, and the one that failed, are reverted.
CommitFails(t) ==
    LET reverted[n \in 0..Len(undo[t])] ==
            IF n = 0 THEN Table ELSE RevertCommitEntry(reverted[n - 1], undo[t][n], t) IN
    /\ phase[t] = "committing" /\ undo[t] # <<>>
    /\ faults < MaxFaults
    /\ TableBecomes(reverted[Min({at + 1, Len(undo[t])})])
    /\ phase' = [phase EXCEPT ![t] = "rolling_back"]
    /\ commit_id' = [commit_id EXCEPT ![t] = 0]
    /\ at' = Len(undo[t])
    /\ faults' = faults + 1
    /\ UNCHANGED <<clocks, transaction_lock, local, undo, recently_committed, live>>
-----------------------------------------------------------------------------
(* Rollback and the end of a transaction.                                  *)

\* Mutation of RollbackTransaction: it does not wait for the lock.
RollbackTransaction_Unlocked(t) ==
    /\ phase[t] \in {"active", "invalid"}
    /\ transaction_lock' = t
    /\ phase' = [phase EXCEPT ![t] = "rolling_back"]
    /\ local' = [local EXCEPT ![t] = 0]
    /\ at' = Len(undo[t])
    /\ UNCHANGED <<clocks, commit_id, undo, table, recently_committed, faults, live>>

\* RollbackTransaction: the local storage is dropped.
RollbackTransaction(t) ==
    /\ phase[t] \in {"active", "invalid"} /\ transaction_lock = NoTxn
    /\ transaction_lock' = t
    /\ phase' = [phase EXCEPT ![t] = "rolling_back"]
    /\ local' = [local EXCEPT ![t] = 0]
    /\ at' = Len(undo[t])
    /\ UNCHANGED <<clocks, commit_id, undo, table, recently_committed, faults, live>>

\* UndoBuffer::Rollback, the last entry first.
RollbackEntry(t) ==
    /\ phase[t] = "rolling_back" /\ at > 0
    /\ TableBecomes(RollbackEntryOf(Table, undo[t][at], t))
    /\ at' = at - 1
    /\ UNCHANGED <<phase, clocks, commit_id, transaction_lock, local, undo, recently_committed, faults, live>>

\* UndoBuffer::Cleanup of the undo buffers of these transactions.
Cleanup(Ts) ==
    /\ index' = index \ UNION {Deleted(u) : u \in Ts}
    /\ updates' = [v \in Vector |->
            IF updates[v] = NoUpdates THEN NoUpdates
            ELSE [updates[v] EXCEPT !.chain = SelectSeq(@, LAMBDA node : node.owner \notin Ts)]]

\* The start time of the oldest transaction other than t that is running.
LowestStart(t) == Min({start_time[u] : u \in Running \ {t}} \cup {TRANSACTION_ID_START})

\* How many of the committed transactions nobody can miss any more.
Cleanable(recent, lowest) ==
    LET kept == {n \in DOMAIN recent : commit_id[recent[n]] >= lowest}
    IN  Min(kept \cup {Len(recent) + 1}) - 1

\* The transactions in Ts are not looked at again.
Forget(Ts, f) == [u \in Txn |-> IF u \in Ts THEN 0 ELSE f[u]]

\* RemoveTransaction: a commit with updates is kept until nobody needs its undo
\* buffer; any other is cleaned up at once.
RemoveTransaction(t, committed) ==
    LET store  == committed /\ Kind(t, "update") # {}
        recent == IF store THEN Append(recently_committed, t) ELSE recently_committed
        n      == Cleanable(recent, LowestStart(t))
        done   == ToSet(SubSeq(recent, 1, n)) \cup (IF store THEN {} ELSE {t})
    IN  /\ Cleanup(IF committed THEN done ELSE done \ {t})
        /\ recently_committed' = SubSeq(recent, n + 1, Len(recent))
        /\ phase' = [phase EXCEPT ![t] = "ended"]
        /\ transaction_lock' = NoTxn
        /\ at' = 0
        /\ undo' = [u \in Txn |-> IF u \in done THEN <<>> ELSE undo[u]]
        /\ start_time' = Forget(done, start_time)
        /\ transaction_id' = Forget(done, transaction_id)
        /\ commit_id' = Forget(done, commit_id)
        /\ UNCHANGED <<current_start_timestamp, current_transaction_id, local, total_rows,
                       vector_info, data, faults>>

FinishCommit(t) ==
    /\ phase[t] = "committing" /\ at = Len(undo[t])
    /\ RemoveTransaction(t, TRUE)
    /\ live' = (live \cup Appended(t)) \ Deleted(t)

EndRollback(t) ==
    /\ phase[t] = "rolling_back" /\ at = 0
    /\ RemoveTransaction(t, FALSE)
    /\ UNCHANGED live

\* A checkpoint without transactions, then the database is opened again: the
\* file has the deletes and the newest values, the timestamps begin anew.
Restart ==
    /\ Running = {}
    /\ faults < MaxFaults
    /\ faults' = faults + 1
    /\ vector_info' = [v \in Vector |-> WriteAndRead(vector_info[v])]
    /\ data' = [r \in Row |-> FetchCommitted(updates[VectorOf(r)], SlotOf(r), data[r])]
    /\ updates' = [v \in Vector |-> NoUpdates]
    /\ current_start_timestamp' = 2 /\ current_transaction_id' = TRANSACTION_ID_START
    /\ UNCHANGED <<phase, start_time, transaction_id, commit_id, transaction_lock, local, undo, at,
                   total_rows, index, recently_committed, live>>

Next ==
    \/ \E t \in Txn :
        \/ StartTransaction(t)
        \/ \E n \in AppendCounts : LocalAppend(t, n)
        \/ \E v \in Vector, p \in RowSets : Delete(t, v, p) \/ Update(t, v, p)
        \/ BeginCommit(t) \/ FlushFails(t) \/ CommitEntry(t) \/ CommitFails(t)
        \/ RollbackTransaction(t) \/ RollbackEntry(t)
        \/ FinishCommit(t) \/ EndRollback(t)
    \/ Restart

Spec == Init /\ [][Next]_vars
-----------------------------------------------------------------------------
(* What the transactions read, as the abstract specification sees it.  The *)
(* marks of a commit in progress still count as those of its transaction.  *)

Reading == {t \in Txn : phase[t] \in {"active", "committing"}}

Committing == transaction_lock \in Reading

Pending(mark) ==
    IF Committing /\ mark = commit_id[transaction_lock] THEN transaction_id[transaction_lock] ELSE mark

PendingInfo(info) ==
    IF ~ Committing \/ info.type = "none" THEN info
    ELSE IF info.type = "constant"
    THEN [info EXCEPT !.insert_id = Pending(@), !.delete_id = Pending(@)]
    ELSE [info EXCEPT !.insert_id = Pending(@),
                      !.inserted = [i \in Slot |-> Pending(@[i])],
                      !.deleted = [i \in Slot |-> Pending(@[i])]]

PendingUpdates(seg) ==
    IF ~ Committing \/ seg = NoUpdates THEN seg
    ELSE [seg EXCEPT !.chain = [n \in DOMAIN @ |-> [@[n] EXCEPT !.version_number = Pending(@)]]]

\* The insert and delete marks of slot i.
Inserted(info, i) ==
    CASE info.type = "none" -> 0 [] info.type = "constant" -> info.insert_id [] OTHER -> InsertMark(info, i)
DeleteMark(info, i) ==
    CASE info.type = "none" -> NOT_DELETED_ID [] info.type = "constant" -> info.delete_id
      [] OTHER -> info.deleted[i]

\* Whoever begins now.
NewTransaction == [start_time |-> current_start_timestamp, transaction_id |-> NOT_DELETED_ID + 1]

\* A row is there or not, and has a value.  The code lets one transaction delete
\* a row and another update it, so these are two keys.
Key == Row \X {"row", "value"}

Reads(txn) ==
    LET rows == UNION {{RowAt(v, i) : i \in GetSelVector(PendingInfo(vector_info[v]), txn)} : v \in Vector}
        Value(r, v, i) ==
            IF r < total_rows /\ UseInsertedVersion(txn, Pending(Inserted(vector_info[v], i)))
            THEN FetchUpdates(PendingUpdates(updates[v]), i, txn, data[r])
            ELSE NoValue
    IN  [k \in Key |-> IF k[2] = "row" THEN k[1] < total_rows /\ k[1] \in rows
                       ELSE Value(k[1], VectorOf(k[1]), SlotOf(k[1]))]

UpdatedRows(t) ==
    {r \in Row : /\ updates[VectorOf(r)] # NoUpdates
                 /\ \E n \in DOMAIN updates[VectorOf(r)].chain :
                        LET node == updates[VectorOf(r)].chain[n]
                        IN  node.owner = t /\ SlotOf(r) \in DOMAIN node.old}

Writes(t) ==
    (Appended(t) \X {"row", "value"}) \cup (Deleted(t) \X {"row"}) \cup (UpdatedRows(t) \X {"value"})

\* Committed since t began.
Since(t, mark) == start_time[t] < Pending(mark) /\ Pending(mark) < TRANSACTION_ID_START

Misses(t) ==
    {k \in Key :
        LET v == VectorOf(k[1])
            i == SlotOf(k[1])
        IN  /\ k[1] < total_rows
            /\ \/ Since(t, Inserted(vector_info[v], i))
               \/ k[2] = "row" /\ Since(t, DeleteMark(vector_info[v], i))
               \/ /\ k[2] = "value" /\ updates[v] # NoUpdates
                  /\ \E n \in DOMAIN updates[v].chain :
                        /\ i \in DOMAIN updates[v].chain[n].old
                        /\ Since(t, updates[v].chain[n].version_number)}

SI == INSTANCE SnapshotIsolation WITH
        InitialStore <- [k \in Key |-> IF k[1] >= InitialRows THEN (IF k[2] = "row" THEN FALSE ELSE NoValue)
                                       ELSE IF k[2] = "row" THEN TRUE ELSE NoTxn],
        store  <- Reads(NewTransaction),
        active <- Reading,
        view   <- [t \in Txn |-> IF t \in Reading THEN Reads(Data(t)) ELSE <<>>],
        dirty  <- [t \in Txn |-> IF t \in Reading THEN Writes(t) ELSE {}],
        missed <- [t \in Txn |-> IF t \in Reading THEN Misses(t) ELSE {}]
-----------------------------------------------------------------------------
(* Properties.                                                             *)

Marks == 0..current_start_timestamp \cup TRANSACTION_ID_START..current_transaction_id \cup {NOT_DELETED_ID}

\* Every variable holds a value of its type; one transaction at a time commits or
\* rolls back, and it has the lock; a mark is that of a commit or a transaction.
TypeOK ==
    /\ phase \in [Txn -> {"idle", "active", "invalid", "committing", "rolling_back", "ended"}]
    /\ transaction_lock \in Txn \cup {NoTxn}
    /\ \A t \in Txn : phase[t] \in {"committing", "rolling_back"} <=> transaction_lock = t
    /\ total_rows \in 0..MaxRows
    /\ local \in [Txn -> 0..MaxRows]
    /\ transaction_lock # NoTxn => at \in 0..Len(undo[transaction_lock])
    /\ \A v \in Vector, i \in Slot : Inserted(vector_info[v], i) \in Marks

\* The marks on the rows and the update chains, with all the steps in which a
\* commit or a rollback changes them, give every transaction the snapshot of its
\* beginning with its own writes on top, and the first writer of a row its way.
ImplementsSnapshotIsolation == SI!Spec

\* A row found through the index is visible exactly if a scan returns it: the
\* shortcuts same_inserted_id and any_deleted agree with the marks of the rows.
FetchAgreesWithScan ==
    \A t \in Reading, r \in Row : r < total_rows =>
        (Fetch(vector_info[VectorOf(r)], Data(t), SlotOf(r))
            <=> SlotOf(r) \in GetSelVector(vector_info[VectorOf(r)], Data(t)))

\* Between commits a new transaction sees the rows that the commits have added
\* and not deleted: no failed commit, rollback or restart adds or loses one.
CommittedRowsVisible ==
    transaction_lock = NoTxn =>
        {r \in Row : Reads(NewTransaction)[<<r, "row">>]} = live

\* Between commits the index has every row of a new transaction and none past the
\* end of the table; when no transaction is running it has no deleted row either.
IndexConsistent ==
    transaction_lock = NoTxn =>
        /\ live \subseteq index /\ index \subseteq 0..total_rows - 1
        /\ Running = {} => index = live

\* The condition that UndoBuffer::Cleanup states for itself, "there is no active
\* transaction with start_id < commit_id of this transaction", in its effect: an
\* index scan of a running transaction finds every row that it can see.
IndexScanComplete ==
    \A t \in Reading, r \in Row :
        r < total_rows /\ SlotOf(r) \in GetSelVector(vector_info[VectorOf(r)], Data(t)) => r \in index
=============================================================================
