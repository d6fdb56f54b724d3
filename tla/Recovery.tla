------------------------------ MODULE Recovery ------------------------------
(***************************************************************************)
(* Commits, checkpoints and restarts of a database file with one table:    *)
(* the write-ahead log (write_ahead_log.cpp, buffered_file_writer.cpp),    *)
(* the commit state (storage_manager.cpp), the checkpoint                  *)
(* (checkpoint_manager.cpp) and the replay (wal_replay.cpp).               *)
(*                                                                         *)
(* A commit logs two entries and then a flush entry.  Commits and          *)
(* checkpoints do not overlap: commits hold transaction_lock, and a        *)
(* checkpoint holds the checkpoint lock exclusively.                       *)
(*                                                                         *)
(* What is written reaches the disk at the latest with the next Sync.  A   *)
(* crash keeps a prefix of the log that was not synced, with its last      *)
(* entry possibly torn, and any of the unsynced block and header writes;   *)
(* single blocks and headers are written whole or not at all.              *)
(***************************************************************************)
EXTENDS BlockFile, Sequences, SequencesExt

CONSTANTS
    Txn,
    Nobody, Checkpointer, Closer,   \* who works on the files, beside Txn
    CrashOverTail,      \* whether crashes may follow a restart that left a tail in the log
    CheckpointOnShutdown,   \* modes in which checkpoint_on_shutdown is set
    MaxRestarts,        \* bound: crashes and shutdowns together
    MaxFailures         \* bound: checkpoints that fail

ASSUME RecoveryConstants ==
    /\ {Nobody, Checkpointer, Closer} \cap Txn = {}
    /\ Nobody # Checkpointer /\ Nobody # Closer /\ Checkpointer # Closer
    /\ CrashOverTail \in BOOLEAN
    /\ CheckpointOnShutdown \subseteq {"open", "invalid"}
    /\ MaxRestarts \in Nat /\ MaxFailures \in Nat

VARIABLES
    mode,               \* open, invalid (after a fatal error), down, unreadable
    worker, step,       \* who commits or checkpoints, and what it does next
    wal, wal_synced,    \* the log, and how much of it is on disk for sure
    initial_wal_size, skip_writing,
    file, stable,       \* the database file, and its state at the last Sync
    bm,                 \* the block and metadata managers
    new_header, meta_block,
    rows, segment,      \* the committed rows in memory, and the table in the file
    outcome,            \* ghost: what a client or a restart has learnt of a transaction
    tail,               \* ghost: the log holds entries that the last replay skipped
    restarts, failures

vars == <<mode, worker, step, wal, wal_synced, initial_wal_size, skip_writing, file, stable, bm,
          new_header, meta_block, rows, segment, outcome, tail, restarts, failures>>
log      == <<wal, wal_synced, tail>>
commit   == <<initial_wal_size, skip_writing>>
storage  == <<file, stable, bm, new_header, meta_block, segment>>
history  == <<restarts, failures>>

\* The rows of a transaction; rows counts how often each was inserted.
RowsOf(t) == {<<t, 1>>, <<t, 2>>}
NoRows    == [r \in Txn \X {1, 2} |-> 0]
AddRows(content, S) == [r \in DOMAIN content |-> content[r] + (IF r \in S THEN 1 ELSE 0)]

Entry(r)         == [type |-> "insert", row |-> r]
Marker(p)        == [type |-> "checkpoint", meta_block |-> p]
Flush            == [type |-> "flush"]
Torn             == [type |-> "torn"]
LogOf(t)         == <<Entry(<<t, 1>>), Entry(<<t, 2>>)>>
NoTable          == [block |-> INVALID_BLOCK, rows |-> NoRows]

Init ==
    /\ mode = "open"
    /\ worker = Nobody /\ step = "idle"
    /\ wal = <<>> /\ wal_synced = 0
    /\ initial_wal_size = 0 /\ skip_writing = FALSE
    /\ file = NewFile /\ stable = NewFile
    /\ bm = NewManager
    /\ new_header = EmptyHeader /\ meta_block = INVALID_BLOCK
    /\ rows = NoRows /\ segment = NoTable
    /\ outcome = [t \in Txn |-> "none"]
    /\ tail = FALSE
    /\ restarts = 0 /\ failures = 0

GoTo(next)  == step' = next /\ UNCHANGED worker
Done        == step' = "idle" /\ worker' = Nobody
-----------------------------------------------------------------------------
(* Commits.                                                                *)

\* DuckTransaction::Commit: the commit state is created and the undo buffer
\* and local storage write to the log, unless a checkpoint is to follow.
WriteToWAL(t, checkpoint) ==
    /\ mode = "open" /\ step = "idle"
    /\ outcome[t] = "none"
    /\ outcome' = [outcome EXCEPT ![t] = "unknown"]
    /\ worker' = t
    /\ step' = "flush"
    /\ initial_wal_size' = Len(wal)
    /\ skip_writing' = checkpoint
    /\ wal' = IF checkpoint THEN wal ELSE wal \o LogOf(t)
    /\ UNCHANGED <<mode, wal_synced, storage, rows, tail, history>>

\* FlushCommit, WriteAheadLog::Flush: the flush entry is written ...
FlushCommit ==
    /\ mode = "open" /\ step = "flush"
    /\ ~ skip_writing
    /\ wal' = Append(wal, Flush)
    /\ GoTo("sync_log")
    /\ UNCHANGED <<mode, wal_synced, commit, storage, rows, outcome, tail, history>>

\* ... and synced.  The commit is done and the client is told.
SyncLog ==
    /\ mode = "open" /\ step = "sync_log"
    /\ wal_synced' = Len(wal)
    /\ rows' = AddRows(rows, RowsOf(worker))
    /\ outcome' = [outcome EXCEPT ![worker] = "committed"]
    /\ Done
    /\ UNCHANGED <<mode, wal, commit, storage, tail, history>>

\* FlushCommit of a commit that checkpoints: nothing was logged.  The changes
\* are visible from now on, and CommitTransaction goes on to CreateCheckpoint
\* with FORCE_CHECKPOINT.
SkipLog ==
    /\ mode = "open" /\ step = "flush"
    /\ skip_writing
    /\ skip_writing' = FALSE
    /\ rows' = AddRows(rows, RowsOf(worker))
    /\ GoTo("tables")
    /\ UNCHANGED <<mode, log, initial_wal_size, storage, outcome, history>>

\* Mutation of CommitFails: the log is cut to nothing.
CommitFails_WholeLog ==
    /\ mode = "open" /\ step \in {"flush", "sync_log"}
    /\ wal' = <<>>
    /\ skip_writing' = FALSE
    /\ outcome' = [outcome EXCEPT ![worker] = "failed"]
    /\ Done
    /\ UNCHANGED <<mode, wal_synced, initial_wal_size, storage, rows, tail, history>>

\* An exception before the end of FlushCommit, for example from a full disk:
\* ~SingleFileStorageCommitState cuts the log back to its size before.
CommitFails ==
    /\ mode = "open" /\ step \in {"flush", "sync_log"}
    /\ wal' = SubSeq(wal, 1, initial_wal_size)
    /\ skip_writing' = FALSE
    /\ outcome' = [outcome EXCEPT ![worker] = "failed"]
    /\ Done
    /\ UNCHANGED <<mode, wal_synced, initial_wal_size, storage, rows, tail, history>>
-----------------------------------------------------------------------------
(* Checkpoints.                                                            *)

\* CHECKPOINT: CreateCheckpoint does nothing while the log is empty.
Checkpoint ==
    /\ mode = "open" /\ step = "idle"
    /\ wal # <<>>
    /\ worker' = Checkpointer
    /\ step' = "tables"
    /\ UNCHANGED <<mode, log, commit, storage, rows, outcome, history>>

\* AttachedDatabase::Close, with a checkpoint: the log is deleted at its end.  A
\* database with a fatal error is closed in the same way.  Without checkpoint,
\* Crash covers what a shutdown may leave.
Close ==
    /\ mode \in CheckpointOnShutdown /\ step = "idle"
    /\ restarts < MaxRestarts
    /\ IF wal # <<>>
       THEN worker' = Closer /\ step' = "tables" /\ UNCHANGED <<mode, restarts>>
       ELSE mode' = "down" /\ restarts' = restarts + 1 /\ UNCHANGED <<worker, step>>
    /\ UNCHANGED <<log, commit, storage, rows, outcome, failures>>

\* ColumnDataCheckpointer: a table with changes is written to a new block and
\* its old block is marked as modified; otherwise its block is kept.
WriteTable(m) ==
    IF rows = segment.rows
    THEN [bm |-> m, segment |-> segment, block |-> file.block]
    ELSE LET fresh == GetFreeBlockId(MarkBlockAsModified(m, segment.block))
         IN  [bm      |-> fresh.bm,
              segment |-> [block |-> fresh.block, rows |-> rows],
              block   |-> [file.block EXCEPT ![fresh.block] = [type |-> "table", rows |-> rows]]]

\* SingleFileCheckpointWriter::CreateCheckpoint up to the flush of its metadata
\* writers: the first part of the catalog is the root of the checkpoint.  It, the
\* table and the free list may each need a new block (MaxBlock).
WriteTables ==
    /\ step = "tables"
    /\ bm.max_block + 3 <= MaxBlock
    /\ \E h \in AllocateHandle(bm) :
           LET w    == WriteTable(h.bm)
               root == [type |-> "root", iteration |-> bm.iteration_count + 1, segment |-> w.segment]
           IN  /\ bm' = WritePart(w.bm, h.pointer, root)
               /\ meta_block' = h.pointer
               /\ segment' = w.segment
               /\ file' = [file EXCEPT !.block = w.block]
    /\ GoTo("marker")
    /\ UNCHANGED <<mode, log, commit, stable, new_header, rows, outcome, history>>

\* Mutation of WriteCheckpoint: the log gets no marker.
WriteCheckpoint_NoMarker ==
    /\ step = "marker"
    /\ GoTo("free_list")
    /\ UNCHANGED <<mode, log, commit, storage, rows, outcome, history>>

\* A log that is not empty gets a marker with the root and a flush entry.
WriteCheckpoint ==
    /\ step = "marker"
    /\ IF wal = <<>>
       THEN GoTo("free_list") /\ UNCHANGED wal
       ELSE GoTo("sync_marker") /\ wal' = wal \o <<Marker(meta_block), Flush>>
    /\ UNCHANGED <<mode, wal_synced, tail, commit, storage, rows, outcome, history>>

SyncMarker ==
    /\ step = "sync_marker"
    /\ wal_synced' = Len(wal)
    /\ GoTo("free_list")
    /\ UNCHANGED <<mode, wal, tail, commit, storage, rows, outcome, history>>

\* SingleFileBlockManager::WriteHeader: the free list and all metadata blocks,
FlushFreeList ==
    /\ step = "free_list"
    /\ \E w \in WriteFreeList(bm, meta_block) :
           /\ bm' = w.bm
           /\ new_header' = w.header
           /\ file' = [file EXCEPT !.block = FlushMetadata(file.block, w.bm)]
    /\ GoTo("sync_blocks")
    /\ UNCHANGED <<mode, log, commit, stable, meta_block, segment, rows, outcome, history>>

\* the first Sync,
SyncBlocks ==
    /\ step = "sync_blocks"
    /\ stable' = file
    /\ GoTo("header")
    /\ UNCHANGED <<mode, log, commit, file, bm, new_header, meta_block, segment, rows, outcome,
                   history>>

\* the header that is not active, which becomes active,
WriteHeader ==
    /\ step = "header"
    /\ file' = [file EXCEPT !.header[1 - bm.active_header] = new_header]
    /\ bm' = [bm EXCEPT !.active_header = 1 - @]
    /\ GoTo("sync_header")
    /\ UNCHANGED <<mode, log, commit, stable, new_header, meta_block, segment, rows, outcome,
                   history>>

\* and the second Sync.
SyncHeader ==
    /\ step = "sync_header"
    /\ stable' = file
    /\ GoTo("truncate")
    /\ UNCHANGED <<mode, log, commit, file, bm, new_header, meta_block, segment, rows, outcome,
                   history>>

\* block_manager.Truncate()
TruncateBlocks ==
    /\ step = "truncate"
    /\ bm' = Truncate(bm)
    /\ file' = [file EXCEPT !.block = TruncateFile(file.block, bm')]
    /\ GoTo("reset")
    /\ UNCHANGED <<mode, log, commit, stable, new_header, meta_block, segment, rows, outcome,
                   history>>

\* ResetWAL, and the end of the checkpoint: a commit returns to its client, a
\* shutdown is complete.
ResetWAL ==
    /\ step = "reset"
    /\ wal' = <<>> /\ wal_synced' = 0 /\ tail' = FALSE
    /\ outcome' = IF worker \in Txn THEN [outcome EXCEPT ![worker] = "committed"] ELSE outcome
    /\ mode' = IF worker = Closer THEN "down" ELSE mode
    /\ restarts' = IF worker = Closer THEN restarts + 1 ELSE restarts
    /\ Done
    /\ UNCHANGED <<commit, storage, rows, failures>>

Checkpointing == step \notin {"idle", "flush", "sync_log"}

\* A write or Sync of the checkpoint fails: CreateCheckpoint throws a
\* FatalException, after which only Close works on the files.  Close ignores
\* the error and the process ends, which Crash covers.
CheckpointFails ==
    /\ Checkpointing
    /\ worker # Closer
    /\ failures < MaxFailures
    /\ failures' = failures + 1
    /\ mode' = "invalid"
    /\ Done
    /\ UNCHANGED <<log, commit, storage, rows, outcome, restarts>>
-----------------------------------------------------------------------------
(* Crashes and restarts.                                                   *)

\* What a crash may leave of the log and of the file.
LogImages ==
    {SubSeq(wal, 1, n) : n \in wal_synced..Len(wal)}
        \cup {Append(SubSeq(wal, 1, n), Torn) : n \in wal_synced..Len(wal) - 1}
FileImages ==
    LET blocks  == {b \in BlockId : file.block[b] # stable.block[b]}
        headers == {h \in 0..1 : file.header[h] # stable.header[h]}
    IN  {[header |-> [h \in 0..1 |-> IF h \in H THEN file.header[h] ELSE stable.header[h]],
          block  |-> [b \in BlockId |-> IF b \in B THEN file.block[b] ELSE stable.block[b]]]
         : H \in SUBSET headers, B \in SUBSET blocks}

\* All that was in memory is lost with a crash or a shutdown; the model sets it
\* to fixed values until the restart.
Crash ==
    /\ mode \in {"open", "invalid"}
    /\ restarts < MaxRestarts
    /\ tail => CrashOverTail
    /\ \E image \in LogImages : wal' = image /\ wal_synced' = Len(image)
    /\ \E image \in FileImages : file' = image /\ stable' = image
    /\ mode' = "down"
    /\ restarts' = restarts + 1
    /\ skip_writing' = FALSE
    /\ Done
    /\ UNCHANGED <<initial_wal_size, bm, new_header, meta_block, rows, segment, outcome, tail,
                   failures>>

\* WriteAheadLogDeserializer::Open: the entries before the first that is torn.
ReadableLog ==
    LET torn == {n \in DOMAIN wal : wal[n] = Torn}
    IN  IF torn = {} THEN wal ELSE SubSeq(wal, 1, Min(torn) - 1)
Positions(entries, type) == {n \in DOMAIN entries : entries[n].type = type}

\* The first pass of WriteAheadLog::Replay and IsCheckpointClean: the last
\* marker names the root of the file, so the file has all that is logged.
AlreadyCheckpointed(root) ==
    LET markers == Positions(ReadableLog, "checkpoint")
    IN  markers # {} /\ ReadableLog[Max(markers)].meta_block = root

\* The second pass: entries are committed at each flush entry; those after the
\* last are rolled back.
Committed == Max({0} \cup Positions(ReadableLog, "flush"))
Replay(content) ==
    LET inserts(r) == {n \in 1..Committed : wal[n] = Entry(r)}
    IN  [r \in DOMAIN content |-> content[r] + Cardinality(inserts(r))]

\* The table that a checkpoint's root leads to, if it can be read.
TableAt(f, root) ==
    LET part == PartAt(f.block, root)
    IN  IF root = INVALID_BLOCK THEN NoTable
        ELSE IF part.type # "root" THEN Empty
        ELSE IF part.segment.block = INVALID_BLOCK THEN NoTable
        ELSE IF f.block[part.segment.block].type # "table" THEN Empty
        ELSE [block |-> part.segment.block, rows |-> f.block[part.segment.block].rows]

\* What a restart shows of the transactions that nothing was known of.
Learn(t, content) ==
    LET counts == {content[r] : r \in RowsOf(t)}
    IN  IF outcome[t] # "unknown"
        THEN outcome[t]
        ELSE CASE counts = {1} -> "committed"
               [] counts = {0} -> "lost"
               [] OTHER -> "unknown"

\* SingleFileStorageManager::LoadDatabase.  The log is removed if the file has
\* all of it; otherwise it stays, torn entry included, and grows from its end.
LoadDatabase ==
    LET h     == file.header[ActiveHeader(file.header)]
        table == TableAt(file, h.meta_block)
        clean == AlreadyCheckpointed(h.meta_block)
    IN  /\ mode = "down"
        /\ stable' = file
        /\ IF table = Empty \/ (h.free_list # INVALID_BLOCK
                                    /\ PartAt(file.block, h.free_list).type # "free_list")
           THEN /\ mode' = "unreadable"
                /\ UNCHANGED <<bm, segment, rows, outcome, wal, wal_synced, tail>>
           ELSE /\ mode' = "open"
                /\ bm' = LoadManager(file)
                /\ segment' = table
                /\ rows' = IF clean THEN table.rows ELSE Replay(table.rows)
                /\ wal' = IF clean THEN <<>> ELSE wal
                /\ wal_synced' = Len(wal')
                /\ tail' = (~ clean /\ Committed < Len(wal))
                /\ outcome' = [t \in Txn |-> Learn(t, rows')]
        /\ meta_block' = INVALID_BLOCK /\ new_header' = EmptyHeader
        /\ initial_wal_size' = 0
        /\ UNCHANGED <<worker, step, skip_writing, file, history>>
-----------------------------------------------------------------------------
Next ==
    \/ \E t \in Txn, checkpoint \in BOOLEAN : WriteToWAL(t, checkpoint)
    \/ FlushCommit \/ SyncLog \/ SkipLog \/ CommitFails
    \/ Checkpoint \/ Close
    \/ WriteTables \/ WriteCheckpoint \/ SyncMarker \/ FlushFreeList
    \/ SyncBlocks \/ WriteHeader \/ SyncHeader \/ TruncateBlocks \/ ResetWAL
    \/ CheckpointFails
    \/ Crash
    \/ LoadDatabase

Spec == Init /\ [][Next]_vars
-----------------------------------------------------------------------------
(* Properties.                                                             *)

Header == [iteration : Nat, meta_block : (BlockId \X Index) \cup {INVALID_BLOCK},
           free_list : (BlockId \X Index) \cup {INVALID_BLOCK}, block_count : 0..MaxBlock]

\* Every variable holds a value of its type; the synced part of the log is a
\* part of it, and the managers stay within the file.
TypeOK ==
    /\ mode \in {"open", "invalid", "down", "unreadable"}
    /\ worker \in Txn \cup {Nobody, Checkpointer, Closer}
    /\ (worker = Nobody) = (step = "idle")
    /\ \A n \in DOMAIN wal : wal[n].type \in {"insert", "checkpoint", "flush", "torn"}
    /\ wal_synced \in 0..Len(wal)
    /\ skip_writing => step = "flush"
    /\ \A f \in {file, stable} :
           f.header \in [0..1 -> Header] /\ DOMAIN f.block = BlockId
    /\ new_header \in Header
    /\ bm.max_block \in 0..MaxBlock
    /\ bm.free_list \cup bm.modified_blocks \cup DOMAIN bm.blocks \subseteq 0..bm.max_block - 1
    /\ DOMAIN bm.modified \subseteq DOMAIN bm.blocks
    /\ segment.block \in BlockId \cup {INVALID_BLOCK}
    /\ \A t \in Txn : outcome[t] \in {"none", "unknown", "committed", "failed", "lost"}

\* The log "is used to provide durability": whenever the database is open, a
\* transaction is there completely and once, or not at all; it is there if a
\* client was told so or an earlier restart showed it, and it is not if its
\* commit failed or an earlier restart did not show it.
ExactlyOnce ==
    /\ mode # "unreadable"
    /\ mode = "open" =>
           \A t \in Txn :
               /\ \E n \in {0, 1} : \A r \in RowsOf(t) : rows[r] = n
               /\ outcome[t] = "committed" => rows[<<t, 1>>] = 1
               /\ outcome[t] \in {"none", "failed", "lost"} => rows[<<t, 1>>] = 0

\* A checkpoint that header h leads to can be read in the blocks of f: root and
\* free list are the ones that were written for it, and so is the table.
Intact(h, f) ==
    LET root == PartAt(f.block, h.meta_block)
        list == PartAt(f.block, h.free_list)
    IN  h.iteration = 0 \/
        /\ root.type = "root" /\ root.iteration = h.iteration
        /\ list.type = "free_list" /\ list.iteration = h.iteration
        /\ root.segment.block # INVALID_BLOCK =>
               f.block[root.segment.block] = [type |-> "table", rows |-> root.segment.rows]

\* Modified blocks are reused only "after a checkpoint": no write reaches a
\* block of the last checkpoint before the next one's header is on disk, and no
\* header is written before its blocks are on disk.
CheckpointIntact ==
    \A f, g \in {file, stable} : Intact(f.header[ActiveHeader(f.header)], g)

\* Between checkpoints every block of the file is either free or used, and not
\* both: no crash or checkpoint loses blocks for good.
BlocksAccounted ==
    mode = "open" /\ ~ Checkpointing =>
        LET used == DOMAIN bm.blocks \cup ({segment.block} \ {INVALID_BLOCK})
        IN  /\ used \cap bm.free_list = {}
            /\ segment.block \notin DOMAIN bm.blocks
            /\ used \cup bm.free_list = 0..bm.max_block - 1
=============================================================================
