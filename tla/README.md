# TLA+ models of the storage core of DuckDB with column sketches

The repository is a fork of DuckDB. What is its own is the *column sketches*
branch: an access path that replaces zone maps in filtered scans. What makes a
database out of it is DuckDB's storage core: transactions, their undo buffers,
checkpoints and the lock between them. This directory models these parts in
TLA+, checks them with TLC and proves some of their properties with TLAPS. All
paths below are relative to `src/src/`.

## 1. Inventory

| Component | State | Operations | Talks to |
|---|---|---|---|
| Storage lock (`storage/storage_lock.cpp`) | `exclusive_lock` (a mutex), `read_count` (an atomic) | get shared, get exclusive (spins), try exclusive, try upgrade, release | the checkpoint lock of the transaction manager is one |
| Transaction manager (`transaction/duck_transaction_manager.cpp`) | two timestamps, `last_commit`, `lowest_active_start/id` (atomics), three lists of transactions, two mutexes, the checkpoint lock | start, commit, rollback, remove (garbage collection), checkpoint | called by MetaTransaction; reads query numbers of the DatabaseManager; calls the storage manager |
| Transactions and undo buffers (`transaction/*.cpp`) | start time, id, commit id, query numbers, undo entries, a shared lock | record a change, commit, revert, roll back, clean up | row versions, update segments and catalog sets point into the buffers |
| Client context (`main/client_context.cpp`) | the running query | begin and end a query, autocommit | announces query numbers without a lock |
| Row versions (`storage/table/chunk_info.cpp`, `row_version_manager.cpp`) | insert and delete marks, per vector or per row | append, delete, commit, revert, scan, fetch, checkpoint | undo buffers; checkpoints write the marks |
| Update segments (`storage/table/update_segment.cpp`) | newest values, a chain of replaced ones | update, fetch, commit, roll back, clean up | undo buffers own the chain's nodes |
| Local storage and table (`storage/local_storage.cpp`, `data_table.cpp`) | rows of a transaction, rows of the table, indexes | append locally, flush, revert | row versions, indexes |
| Catalog (`catalog/catalog_set.cpp`, `dependency_manager.cpp`) | version chains per name, two sets of dependency links | create, drop, alter, rename, commit, undo, clean up | undo buffers hold plain pointers into the chains |
| Write-ahead log and recovery (`storage/write_ahead_log.cpp`, `wal_replay.cpp`, `storage_manager.cpp`) | log file, its size, commit state | append, flush, truncate, mark a checkpoint, replay | commit and checkpoint |
| Checkpoint writer and block file (`storage/checkpoint_manager.cpp`, `single_file_block_manager.cpp`, `metadata/metadata_manager.cpp`) | two headers, free list, modified blocks, parts of metadata blocks | write, mark modified, write header, truncate, load | log, row groups |
| Column sketches (`include/duckdb/storage/statistics/column_sketch.hpp`) | endpoints, one code per value, a copy of the values | build, evaluate `<` and `>` | one per appended chunk, in `ColumnData` |
| Predicates (`storage/statistics/numeric_stats.cpp`, `planner/filter/*.cpp`) | none | `CheckSketch`, `CheckZonemap`, AND, OR | leave a selection in `vector_sels` as a side effect |
| Filtered scan (`storage/table/row_group.cpp`, `standard_column_data.cpp`) | position, the column's sketches and selections | append, check a vector, read a vector | both of the above; row versions for visibility |
| Buffer pool; task scheduler and pipelines | pins, eviction queue; events, task queues | pin, evict; schedule, block, finish | everything |

The behaviours that are hard to get right, and what correctness means:

* **The lock** decrements its counter outside the mutex. Correct: exclusion in
  every interleaving, a writer that is not starved once it has the mutex, an
  upgrade that succeeds only for the sole reader.
* **The transaction manager** lets queries begin and end while it collects
  garbage, relies on lists being sorted that nothing sorts, and has commits that
  fail half-way. Correct: old versions live as long as someone reads them, and no
  longer; memory is freed only when no query can be in it.
* **Checkpoints** decide from atomics read without a lock what they may vacuum.
  Correct: nothing an active transaction sees is removed, no checkpoint runs next
  to foreign uncommitted changes, a forced checkpoint gets through.
* **Versions** of rows and catalog entries are changed mark by mark while others
  read; commits fail in the middle and are taken back. Correct: every transaction
  reads a snapshot, the first writer wins, and nothing of a failed commit remains.
* **The files** are written in an order that crashes may cut anywhere. Correct: a
  transaction is there once and whole or not at all, the last checkpoint stays
  readable, no block is lost.
* **The catalog** alters entries outside its lock, keeps each dependency twice, and
  relinks chains that undo buffers point into. Correct: the same snapshots,
  pointers that stay valid, dependencies that are found.
* **Sketches** turn an inexact index into the exact result of the filter.
  Correct: no false row, no missing row, whatever scans ran before.

PROJECT.json lists these as hazards, each at its line. Some that the list leaves out
because they are close to others: an OR below an AND on sketches
(`conjunction_filter.cpp:118`), sketches of chunks smaller than a vector
(`row_group.cpp:858`), bulk appends that move row groups (`local_storage.cpp:465`), and
blocks torn in the middle (`metadata_manager.cpp:191`; checksums, not modelled).

## 2. Modules

| Module | Models | Built on |
|---|---|---|
| `SharedExclusiveLock` | what `storage_lock.hpp` promises | |
| `StorageLock` | `StorageLockInternals`, one action per access to mutex or counter | refines the above |
| `DuckTransactionManager` | start, commit, rollback, garbage collection, query numbers | |
| `CheckpointDecision` | the checkpoint lock, `start_transaction_lock`, the three kinds of checkpoint | extends `DuckTransactionManager`, uses the lock at the level of `SharedExclusiveLock` |
| `SnapshotIsolation` | what versions promise to transactions | |
| `RowVersions` | insert and delete marks, as operators | |
| `UpdateSegment` | version chains of updated values, as operators | |
| `TableVersions` | transactions on an indexed table | extends the two above, refines `SnapshotIsolation` |
| `CatalogSet` | version chains of catalog entries, as operators | |
| `Catalog` | transactions with DDL statements, and the dependency manager | extends `CatalogSet`, refines `SnapshotIsolation` |
| `BlockFile` | blocks, metadata parts, free list and headers, as operators | |
| `Recovery` | commits, checkpoints, crashes and restarts | extends `BlockFile` |
| `ColumnSketch` | sketches, zone maps and filters, as operators | |
| `SketchScan` | appends and scans of one column | extends `ColumnSketch` |
| `...Proofs` | theorems about the module of that name (`DuckTransactionManagerProofs`: also about `CheckpointDecision`) | that module |
| `InductionLemmas` | lemmas on minima, maxima, counting, folds and sums | used by `RecoveryProofs`, `SketchScanProofs`, `TableVersionsProofs`, `CatalogProofs` |
| `MC...` | symmetry and sets of statements or filters for TLC | |

Operators whose names end in `_Something` and whose comment begins with
"Mutation of" are not part of a specification. Each is a plausible bug in the
definition that follows it, and PROJECT.json names the property that notices it.

### 2.1 StorageLock

Variables keep the names of the code; `pc` is where a thread is inside a method,
`shared` and `exclusive` are the owners of `StorageLockKey`s. A thread owns at
most one shared key (the lock records no owners, so one thread with two keys is
two threads to it), and does not call a blocking method while it owns a key.

### 2.2 DuckTransactionManager

An element of `Txn` is one `DuckTransaction` object with its client, started at
most once. What it writes is reduced to the kinds of change that the manager tells
apart (`UndoBuffer::GetProperties`, `ChangesMade`).

Handlers run under `transaction_lock`, but others look in. They are therefore
split exactly where it matters:

* `StartTransaction` publishes the transaction, `GetTransaction` stores its query
  number afterwards (`meta_transaction.cpp`);
* a commit is `CommitTimestamp` (which publishes `last_commit`), then
  `CommitSucceeds` or `CommitFails`;
* `RemoveTransaction` is `ScanActive` (the minima, at the end of the step that
  commits or rolls back), `ReadQueryNumber`, and `RemoveTransaction` (the lists).
  Queries take no lock, so they begin and end between these.

`BeginQuery` takes a number and stores it in one step; in the code the store
follows, which can only make the number that a removal reads larger. `reading`
is the set of undo buffers that a running query may be walking. It
over-approximates as the comment in the source does ("actually, when all the
currently active scans have finished"). `late` is a history variable: the
transactions whose running query was announced in the middle of a removal.
`last_commit` has no initializer in the code, so its first value is arbitrary.

### 2.3 CheckpointDecision

The actions of the manager with the locks added, the `CheckpointDecision` of a
committing transaction (`CanCheckpoint`), and a client that runs `CHECKPOINT` and
`FORCE CHECKPOINT`. The two operands of `GetLastCommit() > LowestActiveStart()`
are loaded one by one, in either order. Of the checkpoint itself only the type is
kept, because `FULL_CHECKPOINT` is what vacuums deleted rows.
`AutomaticCheckpoint` depends on the size of the log; `CannotCheckpoint` is
therefore always possible. `ReadVersion` is left out: it touches nothing a
checkpoint reads.

### 2.4 ColumnSketch and SketchScan

Values are integers, converted to the unsigned base type by `Unsigned` with
width `Width`; codes have `Codes` values and an instruction compares `Lanes` of
them. A `ManagedSelection` is a pair of sets, the bitmask and the selection: they
differ after `sketchAppend` (empty mask, all rows selected), and every early
return leaves both as they were. As sets, masks have no length: in the code the two
evaluations leave masks of different numbers of words (`column_sketch.hpp:174` and
`:239`), but the one word more is zero and no result depends on it. `EndsInside` says when a rejected vector is
nevertheless read. Rows, updates and deletes are committed between scans; one
column is filtered and it has no NULL. `Sorted` says what `std::sort` returns, and
`IsFilter` which filters the planner builds: comparisons with constants of the
column's type and IS NOT NULL, below at most an AND and an OR.

### 2.5 SnapshotIsolation

The promise behind MVCC: a transaction reads the store of its beginning with its own
writes on top, writes only keys that no concurrent transaction has written, and
commits all at once. `Write` lets any set of keys change in one step; `dirty` and
`missed` say which keys a transaction has written and which others have committed
since it began. `TableVersions` and `Catalog` both implement it.

### 2.6 RowVersions, UpdateSegment, TableVersions

A vector's info is nothing, one mark for all rows (`ChunkConstantInfo`) or marks per
row (`ChunkVectorInfo`) with the shortcuts `same_inserted_id` and `any_deleted`. An
update segment has the newest values (`base`) and a chain of nodes with the replaced
ones. `TableVersions` puts a table, its index, and transactions on top:

* `LocalAppend` fills the local storage; `BeginCommit` takes the lock and flushes it
  into the table and the index, with the error path of `AppendVersionInfo`
  (`FlushFails`);
* `Delete` and `Update` take whole batches of rows of a vector, up to the first
  conflict, as the loops do;
* `CommitEntry`, `CommitFails`, `RollbackEntry` go through the undo buffer entry by
  entry while others read and write; a failed commit reverts what it did, then rolls
  back all of it;
* `FinishCommit` and `EndRollback` also clean up what no transaction needs any more,
  deletes at once as in `RemoveTransaction`;
* `Restart` writes and reads back the marks as a checkpoint does.

Under the refinement mapping a key is a row's existence or a row's value, the view of
a transaction is what `GetSelVector` and `FetchUpdates` give it, and a transaction
commits when its last entry is done. The updated column is not indexed, updates are of
whole values, bulk appends (which move row groups) and deletes of local rows are left
out.

### 2.7 BlockFile and Recovery

The block manager is a record that operators take and return. A block is a table's
rows or `METADATA_BLOCK_COUNT` parts; a checkpoint writes the table (if it changed), a
root part, the checkpoint marker in the log, the free list, the blocks, the header, and
truncates the log, each a step of its own. `file` is what has been written, `stable`
what is on the disk for sure. `Crash` keeps a prefix of the unsynced log, its last
entry possibly torn, and any of the unsynced blocks; `LoadDatabase` is both passes of
the replay. A commit logs two entries (so that half of it can be seen) and a flush
entry, or skips the log if it will checkpoint.

Assumed of the file system: a header is written whole or not at all, so is a block
(the code has checksums that would turn a torn one into an error); truncating and
removing files is durable at once. The version entry of a new log is folded into its
first entry. Left out: blocks shared by segments, direct I/O, `trim_free_blocks`, and
the metadata of deletes that a checkpoint keeps (`ClearModifiedBlocks`).

### 2.8 CatalogSet and Catalog

The chain of a name is a sequence, the newest entry first; an undo entry points to
what its transaction replaced. A statement becomes a list of operations in `todo`,
each of which takes the catalog's write lock anew: `CREATE` and `ALTER` register one
dependency after the other, `DROP` removes them, `ALTER` prepares its entry outside the
locks (`AlterEntry` fetches it again), `CASCADE` appends further drops. Errors abort the
statement and invalidate the transaction. Dependencies are entries of two more sets,
`Dependents` and `Subjects`. Ownership, default entries, the ALTERs that foreign keys
add to other tables, scans of committed entries and search paths are left out. The
operations on entries that are dropped along with their table (`Index`) are in the
module, but the run's catalog has none.

## 3. Runs

| Run | Instance | Result |
|---|---|---|
| `storage_lock` | 4 threads, fair | `TypeOK`, `Exclusion`, `UpgradeAssertion`, the refinement and `SpinTerminates` hold |
| `transactions` | 3 transactions, 4 queries, updates | all seven invariants hold, 1.3 million states |
| `checkpoints` | 2 transactions, 4 queries, deletes and updates, automatic checkpoints, fair | `CTypeOK`, `FullCheckpointSafe`, `CheckpointExcludesWriters`, `ForceCheckpointProceeds` hold, 250 thousand states |
| `sketch_scan` | 2 vectors of 3 rows, 3 values, 2 codes, 2 lanes, ranges with 3 operands | `SketchScanSound`, `SketchScanMissesOverlooked`, `CodesOrderPreserving` hold, 1.4 million states |
| `zonemap_scan` | 2 vectors of 2 rows, all filters, updates and deletes | `NativeScanExact` holds, 1.8 million states |
| `table_versions` | 3 transactions with one delete or update each, inserts of 1 and 3 rows, 2 rows per vector, one fault | the refinement of `SnapshotIsolation`, `FetchAgreesWithScan`, `CommittedRowsVisible`, `IndexConsistent` hold |
| `recovery` | 3 transactions, 3 crashes or shutdowns, a failed checkpoint, 8 blocks | `ExactlyOnce`, `CheckpointIntact`, `BlocksAccounted` hold |
| `catalog` | 3 transactions, a sequence, a table that uses it and a name to rename it to, 2 statements, of which one may be replaced by a failed commit | the refinement of `SnapshotIsolation`, `NoLostUpdate`, `UndoPointersValid`, `AlterFindsItsEntry`, `LinksMatch`, `DependenciesRegistered`, `NoVersionsWhenIdle` hold, 230 thousand states |
| `torn_log`, `index_cleanup`, `dangling_reference` | small | violated: see section 5 |
| `sketch_skips` | as `sketch_scan` | `RejectedHoldNothing` violated: see section 5 |

*Bounds.* Four threads are two readers, a writer and an upgrader at once. Three
transactions are an old reader, a writer that it holds back, and a third whose end
triggers the collection; the fourth query is one that begins during a removal. A
checkpoint needs an older reader and a transaction that deletes beside the
checkpointer; its invariants are proved for any number of transactions.
`TRANSACTION_ID_START` and `MAXIMUM_QUERY_ID` are only compared, and 100 is above
everything reached. The sketch run has more rows than lanes (whole blocks and a
tail), more values than codes (`need_check_base` both ways), repeated values,
further scans over the selections of the first, and operands inside and outside
the data. Its values are not negative, its operands positive, its vectors whole and its
rows neither updated nor deleted, because of the disagreements of section 5.

Inserts of 1 and 3 rows into a table of 1 row give vectors that are partly filled,
filled by two transactions, and filled at once (`ChunkConstantInfo`). With a single
fault, a failed commit or a restart, the run stays clear of the lost append of section 5,
which takes both. In
`recovery`, three transactions and three restarts allow a checkpoint, a crash in the
next one, and another one that reuses blocks; the guard of `WriteTables` keeps the
file within `MaxBlock` = 8, which no checkpoint of this run comes up against. `CrashOverTail = FALSE` keeps a second crash from following a restart that
left an unfinished end in the log, and `CheckpointOnShutdown = {"open"}` keeps a failed
checkpoint from being retried at shutdown: both lead to what section 5 reports, the
first of them as a run. Two statements are enough for a
conflict on every pair of operations, with the third transaction as reader or as
the one that holds back the cleanup.

*Deadlock* is checked for the lock and the scans. Elsewhere each transaction is
started once and faults are bounded, so in the end all have stopped.

*Fairness.* A thread inside a method of the lock keeps running and a key is a
scoped object that its owner destroys: weak fairness of `Step` and `Release`, no
fairness of calls. For `FORCE CHECKPOINT`: threads inside the manager finish what
they do (weak fairness), the waiting loop keeps trying (weak fairness of
`ForceLocks`: no transaction can start while it waits and a running one takes the
shared lock only once, so in the end the lock is free and stays free), queries end (weak fairness of `EndQuery`), and each transaction ends
although its client may issue further queries before (strong fairness, since
`CommitTimestamp` is disabled while a query runs or another thread commits). Nothing
obliges a client to begin a query or a transaction. The automatic checkpoint is
not assumed to happen, only to end.

## 4. Proofs

`StorageLockProofs`, for every finite set of threads: `TypeCorrect`,
`MutualExclusion`, `UpgradeAssertionHolds`, and `Implementation` (every step of
the mutex and counter is a step of the abstract lock or leaves it unchanged).
`Exclusion` is not inductive. `IInv` adds that the counter is the number of
readers (`Counted`), that the mutex is held exactly by the threads between lock
and unlock or with an exclusive key (`MutexHeld`), which keys a thread can have at
each place (`KeysAtPlace`), and that an exclusive owner tolerates no other reader.

`DuckTransactionManagerProofs`, for any set of transactions, kinds of change and
bound on query numbers: `TypeCorrect`, `RecentlyCommittedIsOrdered`,
`UndoIsKeptWhileNeeded`, `UndoMemoryIsSafe`, `LowestActiveStartIsExact`,
`OldTransactionsAreOrdered`. The inductive invariant `IInv` adds that

* the lists hold the transactions whose phase says so, once (`ListsMatchPhase`);
* every timestamp in use is below the next one (`ClockAhead`) and a transaction
  that commits has the newest (`CommittingIsNewest`), which is why the list stays
  sorted and why only a prefix of it can be collected;
* while a removal is under way its minima stay valid: transactions cannot start,
  and queries that end only raise them (`RemovalStable`);
* a running query that was not announced during the removal is counted in
  `lowest_active_query` and is below the number that was read (`QueriesCounted`,
  `QueryNumberRead`);
* what a query may be walking is linked, or has a stamp not below the query's
  number (`ReadersKnown`), so the loop that frees memory stops before it.

On top of it, `LInv` adds that start times are below the transaction ids (the guard of
`StartTransaction`), which is why the initial value of the loop's minimum never wins
over a live transaction; `OInv` adds that stamps are never ahead of the query counter
(`StampsBehind`) and that no transaction is stamped twice (`RecentNotOld`, which rests
on the strict order of the recently committed ones). `NothingAwaitsAtTheEnd` shows
`NothingAwaitsWhenIdle` under the hypothesis `[]TimestampsBelowIds`: without live
transactions the minimum that decides what is collected is `TRANSACTION_ID_START`, and
commits, unlike starts, take timestamps without comparing them with it.

In the same module, about `CheckpointDecision` and for any set of transactions:
`FullCheckpointIsSafe`, `CheckpointsExcludeWriters`, `CheckpointTypesCorrect`. Every step of the composition
is a step of the manager or leaves it alone (`StepsOfManager`), so `LInv` carries over.
`KInv` adds that whoever has uncommitted changes owns the shared lock
(`WritersLocked`), that the exclusive owner is alone (`LockExclusive`, `OwnerKnown`),
that commit ids are at most `last_commit` and never equal a start time
(`CommitIdsApart`), and, the heart of it, what the two unlocked loads mean once they are
out of date (`LoadsBound`). While the checkpointer owns the lock nothing is deleted,
so the loaded `last_commit` stays above all deletes; a transaction that is live later
either was counted in the loaded `lowest_active_start` or began after all deletes. It
does not matter which operand is loaded first, nor what `last_commit` was initially.

`RecoveryProofs`, for any number of transactions, blocks, metadata parts, crashes and
failures: `RecoveryTypeOK`, `CheckpointStaysIntact`, `BlocksStayAccounted` and
`TransactionsExactlyOnce`. The argument has two layers.

* The file (`FInv`). The header that a restart takes leads to a root, a free list and a
  table that are there both in what was written and in what is on the disk (`Held`);
  between checkpoints the managers describe exactly that checkpoint (`Settled`); during
  one, whatever has been written lies outside the blocks of the old checkpoint until the
  header is on the disk (`Writing`). With the types of the log and the managers
  (`LogTypes`, `SkipTypes`, `ManagerTypes`) this is inductive and gives the first three
  theorems.
* The contents (`EInv`). While the database is open, memory is the checkpoint and the
  entries of the log behind it, each transaction of which is complete or is the one that
  is being written (`MemoryInfo`, `LogInfo`, `TailInfo`); whatever prefix of the log and
  blocks a crash keeps (`CrashSafe`), a replay of it gives each transaction once or not
  at all and agrees with what clients and earlier restarts were shown (`RestartGood`).

Two hypotheses stand for disagreements of section 5. `CheckpointOnShutdown \subseteq
{"open"}`, for all four theorems: no checkpoint at shutdown after a `WriteHeader`
failed, since it would write over blocks of the old one. `CrashOverTail = FALSE`, for
`TransactionsExactlyOnce`: no crash over a log whose end an earlier restart skipped,
which is what `torn_log` refutes. The replay is a fold over the log; where a proof needs
induction on it, it takes the least place at which the claim fails.

`SketchScanProofs`, for any values, filters, numbers of codes and lanes, and vector
size. Without restriction: `ScanTypeOK`; `ZonemapsChangeNoResult` (zone maps of the
appended and of the updated values reject a vector only if no row of it satisfies the
filter, ANDs and ORs included); `CodesPreserveOrder`. Under `WithinReach`:
`SketchedScansAreSound` and `SketchedScansMissOverlooked`, which together say exactly
which rows a scan returns. `WithinReach` names what
section 5 says sketches cannot do: no negative values or operands and no `>= 0`, no
updates, full vectors only, segments that end between vectors, one scan at a time,
ranges and IS NOT NULL as filters. Deletes are allowed. The invariant behind both,
`ScansRight`, is that the shared selection is the filter's on the vector that is about
to be read (`SelectionFits`) and that the rows so far are, on the vectors seen, the
qualifying ones less those that a comparison overlooks; it rests on every sketch describing the rows of its vector (`Aligned`).
What the filters and the constructor compute are folds. `FoldLeft` and the operators
below it are defined by CHOOSE; `InductionLemmas` shows that a solution of the
equation exists and what it goes through step by step (`FoldSolution`, `FoldWay`,
`CountingUp`), by the well-foundedness of the naturals.

`TableVersionsProofs`, for any table, vector size and finite set of transactions:
`FetchesAgreeWithScans`, `TableTypesCorrect`, `CommittedRowsAreVisible` and
`IndexIsConsistent`. The hypothesis `[]InRange` of all four says that timestamps have not
reached the transaction ids, nor these `NOT_DELETED_ID`; `StartTransaction` of the code
checks only the first, and only when a transaction begins.

`FetchesAgreeWithScans`: scans believe `same_inserted_id` and `any_deleted`, fetches read
the marks of the row. That the shortcuts are true to the marks (`Shortcuts`) is not
inductive; `VInv` adds

* that the rows which the commit in progress has flushed carry its id, or from its last
  entry on its timestamp, and that a vector it entered in the middle has one mark per row
  (`Flushed`): otherwise `CommitAppend`, which replaces the one mark, would commit or
  hide rows of others;
* that `insert_id` of a vector is never the id of a transaction that may still append
  (`InsertIds`), so an append into a vector always notices the other mark;
* that a vector with deletes of a running transaction says so and lies below the flushed
  rows (`DeletesMarked`), so neither `CommitDelete` nor a `RevertAppend` of another commit
  makes it forget them;
* an append only at the end of an undo buffer (`Undos`), and a commit timestamp above the
  start of everyone running (`Clocks`), which is why nobody deletes rows that are being
  committed.

A failed commit reverts the entries in a recursive function over the undo buffer, which
`RevertsExist` and `CountingUp` follow step by step.

`TableTypesCorrect` needs `MInv` besides: every insert mark, those behind the last row
included, is one that was handed out, and the rows of the table and of all local storages
together fit. The latter is a sum in the order that CHOOSE gives; `InductionLemmas` shows
how it changes with one summand (`SumChanged`).

`CommittedRowsAreVisible` and `IndexIsConsistent` have a second hypothesis,
`[][CleanRestart]_vars`: a restart finds no insert mark of a dead transaction behind the
last row, and the clock below the ids. Without it the first of them is false, as the
lost append of section 5 shows; with a single fault it always holds, so the theorems say of every
instance what `table_versions` checks on one. `CommittedRowsVisible` speaks of the marks
only between commits. `RInv` says what they are in the middle of one:

* `DeletesOK`: the deletes that are pending, which are the delete entries of running
  transactions as far as they are not rolled back, are marked with the id of their
  transaction, or with its commit timestamp if its commit has come to them (`StampOf`). No
  row is in two of them, so taking one back never unmarks a row of another; and no row but
  theirs has the timestamp of the commit in progress. This is what makes it safe to revert
  a commit and then to roll it back, which takes the same entries back twice.
* `RowsOK`: below the first flushed row (`BaseRow`) every row is committed, and it is live
  exactly if its delete mark is not the timestamp of a commit that has ended. Marks that a
  conflict has left, of a transaction whose undo buffer does not list them, are ids and do
  no harm here.
* `ConstantsFull`: a vector with one mark for all rows is filled, and is deleted as a whole
  or not at all; so no statement reaches the branch of `GetVectorInfo` that forgets the
  delete mark, and `AppendVersionInfo` does not throw (`NoAppendError`): that, too, takes
  a mark left behind the last row and a restart.
* `IndexOK`: the index has the live and the flushed rows, and else only rows deleted by the
  commits that still await their cleanup, whose number (`RecentOK`) falls to zero with the
  last running transaction.

Each step is shown for explicit marks, deletes, base and clock (`Marking`, `Restamping`,
`TakesBack`, `Settling`), so that the entries which one failed commit reverts are followed
one at a time.

`CatalogProofs`, for any names, transactions, statements and initial catalog:
`CatalogTypesCorrect`, `UndoPointersAreValid`, `NothingIsLeft`, `AlterFindsIt`,
`CatalogIsSnapshotIsolated`, the refinement of `SnapshotIsolation`, and
`CatalogLosesNoUpdate`. No hypothesis beyond
the constants is needed. Three layers:

* Chains and undo buffers are woven into each other (`CInv`). Every entry of a chain but
  the last was put there by an undo entry that is still pending, and that undo entry
  points to the entry right below it (`Covering`); every pending undo entry finds its
  entry (`PointerOK`); newer entries are above older ones, where older means by an
  earlier operation of the same transaction, or by one that had ended before the other
  began (`Older`). Hence a rollback finds its entry on top of the chain and a cleanup
  finds it last but one, so both leave the rest of the chain as it was. `Woven` is stated
  over explicit chains, buffers, pending entries and timestamps, so that the loops over
  undo buffers (a failed commit reverts some entries, a cleanup empties several buffers)
  are followed one entry at a time: `RevertsExist`, `CleansExist` and the like show that
  the recursive functions are defined, and `CountingUp` goes through them. `Clocks` and
  `Recent` (the list of commits is sorted) say why a cleanup takes the oldest entries
  first. The first three theorems follow.
* What a transaction sees depends only on whom it sees: `SeenIn(chain, W)` is the newest
  entry by a transaction in `W`, otherwise the last one. `SInv` adds that the last entry
  of every chain is older than everyone running, and that ids stay below
  `2 * TRANSACTION_ID_START`; then comparing timestamps as `UseTimestamp` does gives
  `SeenIn` with the transaction itself and those committed before it began (`Seers`), and
  for whoever begins next with those that have ended (`Ended`), also while a commit has
  stamped some of its entries and not the others (`InvMapped`).
* Each kind of step then is a step of `SnapshotIsolation` or a stutter: an operation
  writes only keys whose top entry is no conflict, which are those that no other
  transaction has written and none has committed since; a commit turns from a set of
  stamped entries into a commit when it ends; a rollback or a cleanup changes no
  `SeenIn` of those that remain. `AlterFindsIt` uses the same: what the ALTER found
  outside the locks is still what its transaction sees.

`CatalogLosesNoUpdate` (`NoLostUpdate`) draws the consequence for concurrent writers.
`SnapshotIsolationProofs` has the lemmas for it: every step of the abstract
specification preserves `IInv`, which is that the first writer wins, that views are
current where nothing was written or missed, and that nothing is remembered of
inactive transactions (`Clean`); through the refinement this holds of the chains.

The assumptions are those of the modules (`ThreadAssumption`,
`ConstantsAssumption`, `CheckpointerAssumption`, `BlockConstants`, `RecoveryConstants`,
`SketchConstants`, `ScanConstants`, `VersionConstants`, `TableConstants`,
`CatalogConstants`): finitely many threads and names of catalog entries, names distinct
from the null values, `MAXIMUM_QUERY_ID` above every number handed out, values and
operands of the column's type, entries that refer to others but not to themselves and
keep doing so under a new name. `SketchConstants` also states that `2^Width` is twice
`2^(Width - 1)`, which the provers do not know; TLC evaluates it.

Only model-checked: the refinement of `SnapshotIsolation` by tables, for which `VInv` and
`RInv` would have to be extended by the update chains; of the catalog `LinksMatch` and `DependenciesRegistered`, which
statements break while they run and restore at their end, so that an inductive invariant
has to say what every list of pending operations will lead to; and all liveness, which is
out of the prover's reach.

## 5. Where the code and its text disagree

Shown by a run:

* `torn_log`. The replay skips the unfinished end of a log but leaves it in the file,
  and the next commit is appended behind it. After another restart that commit is
  unreadable, or carries with it entries of a transaction that had been rolled back.
  `write_ahead_log.hpp` calls the log the means of durability; the tests of torn logs
  restart once and do not commit again.
* `index_cleanup`. `UndoBuffer::Cleanup` says that "there is no active transaction with
  start_id < commit_id of this transaction". That holds for updates and catalog
  changes (`UndoKeptWhileNeeded`, proved) and not for deletes, which `RemoveTransaction`
  cleans up when they commit: older transactions lose index entries of rows they see.
* `dangling_reference`. A table that uses a sequence and a DROP of that sequence, in two
  concurrent transactions, both commit: the new entry never writes to the chain of what
  it refers to, so neither meets a conflict.
* `sketch_skips`. If a chunk has no more distinct values than there are codes, the base
  data is not compared (`need_check_base = false`, `column_sketch.hpp:78`). Codes alone
  cannot tell an operand between two endpoints from the values up to the upper one: in a
  vector that holds 0 and 2, `A > 1` gives 1 the code of 2, no row is found
  (`column_sketch.hpp:409-421`; lines 192-204, for `<`, lose values that are not
  endpoints themselves), and the vector is rejected as one that cannot
  "contain values that satisfy that filter" (`table_filter.hpp:41`). All its qualifying
  rows are lost. `SketchScanMissesOverlooked` says which rows are lost in general, and is
  checked and proved: those in whole blocks of codes of such a chunk that no endpoint
  parts from the operand, unless the operand is below all values.

Seen while modelling, and kept out of the passing runs by the bounds named in section 3:

* The memory cleanup waits for the queries that were active when it looked; a query that
  begins between that and `Cleanup()` is not waited for
  (`duck_transaction_manager.cpp:329`, "all the currently active queries"). This is no
  use of freed memory in itself, since chains are walked under locks of their own.
  `late` is the history variable that `UndoMemorySafe` excludes these queries with.
* "We cannot do a full checkpoint if any transaction needs to read old data"
  (`duck_transaction_manager.cpp:183`) is tested by `CHECKPOINT` but not by the
  checkpoint after a commit (line 102), which looks only at what the committing
  transaction changed. `FullCheckpointSafe` is therefore about explicit checkpoints.
* `ChunkVectorInfo::Delete` (`chunk_info.cpp:192`) marks rows up to the first conflict,
  but the undo entry is pushed only after it returns: the rows before the conflict keep
  the mark of a dead transaction and cannot be deleted until a restart
  (`rollback_state.cpp:33`, "reset the deleted flag on rollback").
* `RevertAppend` leaves insert marks in a vector that the append had entered
  (`row_version_manager.cpp:132`; `row_group.hpp:127` says "Revert a previous append made
  by RowGroup::AppendVersionInfo"). If the vector has had a delete, the next checkpoint
  goes through all its slots and takes these for deleted rows (`chunk_info.cpp:253`), and
  rows committed there after a restart stay invisible. With `MaxFaults = 2` and inserts of
  one row TLC finds this as a violation of `CommittedRowsVisible`, in 14 steps.
* `WriteHeader` (`single_file_block_manager.cpp:497`) moves the old checkpoint's blocks
  to the free list before the new header is on disk. If the write fails, the checkpoint
  at shutdown (`attached_database.cpp:174`) writes over them.
* Sketches: the README of the repository names `A = x` as a predicate that sketches
  evaluate, but it is not evaluated and every row is returned (`numeric_stats.cpp:244`);
  a rejected vector that is not full is read nevertheless, with no filter left to apply
  (`row_group.cpp:468`); the selection of visible rows is overwritten, so deleted rows
  are returned and updates are not seen (`row_group.cpp:594`); `A >= 0` is
  `A > 2^w - 1` for the sketch, and negative values are larger than positive ones
  (`numeric_stats.cpp:253`).
* A CREATE that fails because the entry exists has already registered its dependencies
  in the transaction, and they are committed with it. A create that is rolled back over
  a cleaned tombstone leaves the tombstone in the map. Neither breaks a property.

## 6. Not modelled, and the plan

Parser, planner, optimizer, operators, functions, compression, the radix trees of
indexes, extensions and tools are sequential transformations of data or third-party
code; they are nearly all of the repository's lines, and there is no protocol in them
to check. See "components" in PROJECT.json. Within the modelled parts: transactions
over several attached databases, sequence values, bulk appends, deletes of local rows,
shared blocks, NULL, strings and structs in predicates, filters on several columns, and
concurrent scans of one sketched column; ownership and foreign keys in the catalog.

In this order:

1. Proofs: the refinement of `SnapshotIsolation` by `TableVersions`, on top of `VInv` and
   `RInv` and along the argument of the catalog; `LinksMatch` for whole statements.
2. Sketched scans of several columns and by two queries at once.
3. Bulk appends and optimistically written blocks, composed with `Recovery`.
4. Buffer pool (pins, eviction queue with sequence numbers, the memory limit); events
   and pipelines (dependencies, blocked tasks).
