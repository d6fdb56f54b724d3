--------------------------- MODULE RecoveryProofs ---------------------------
(***************************************************************************)
(* Proofs about Recovery, for any number of transactions, blocks, crashes  *)
(* and failures: the last checkpoint stays readable, no block is lost or   *)
(* used twice, and every restart shows each transaction exactly once or    *)
(* not at all.                                                             *)
(***************************************************************************)
EXTENDS Recovery, SequenceTheorems, InductionLemmas

-----------------------------------------------------------------------------
(* The checkpoint that a header leads to.                                  *)

\* The header that a restart would take.
Active(f) == f.header[ActiveHeader(f.header)]

\* The parts of metadata blocks that the checkpoint occupies, their blocks, and
\* what is free in these when P is occupied.
Parts(h)     == {h.meta_block, h.free_list} \ {INVALID_BLOCK}
BlocksOf(P)  == {p[1] : p \in P}
FreeIn(P, b) == {i \in Index : <<b, i>> \notin P}

\* Sets of parts of metadata blocks.
PartSet == SUBSET (BlockId \X Index)

UsedBy(seg) == {seg.block} \ {INVALID_BLOCK}

\* Blocks with metadata, free blocks and others make up the first n blocks.
Accounts(M, F, U, n) ==
  /\ M \cap F = {} /\ M \cap U = {} /\ F \cap U = {}
  /\ M \cup F \cup U = 0..n - 1

RootPart(n, seg) == [type |-> "root", iteration |-> n, segment |-> seg]
ListPart(n, free, P) ==
  [type |-> "free_list", iteration |-> n, free_list |-> free,
   blocks |-> [b \in BlocksOf(P) |-> FreeIn(P, b)]]
TableBlock(content) == [type |-> "table", rows |-> content]

\* The part at pointer p of the blocks B, which is one of a metadata block.
Part(B, p)       == B[p[1]].content[p[2]]
IsMetadata(B, p) == B[p[1]].type = "metadata" /\ DOMAIN B[p[1]].content = Index

Content == [Txn \X {1, 2} -> Nat]
IsSegment(seg) ==
  /\ seg \in [block : BlockId \cup {INVALID_BLOCK}, rows : Content]
  /\ seg.block = INVALID_BLOCK => seg = NoTable

\* The table and the free list that header h leads to in the blocks B.
Seg(h, B)  == IF h = EmptyHeader THEN NoTable ELSE Part(B, h.meta_block).segment
Free(h, B) == IF h = EmptyHeader THEN {} ELSE Part(B, h.free_list).free_list

\* B holds the checkpoint of header h with this table and free list.
Stored(h, seg, free, B) ==
  /\ h.iteration \in Nat \ {0}
  /\ h.meta_block \in BlockId \X Index /\ h.free_list \in BlockId \X Index
  /\ h.meta_block # h.free_list
  /\ h.block_count \in 0..MaxBlock
  /\ IsSegment(seg)
  /\ Accounts(BlocksOf(Parts(h)), free, UsedBy(seg), h.block_count)
  /\ \A p \in Parts(h) : IsMetadata(B, p)
  /\ Part(B, h.meta_block) = RootPart(h.iteration, seg)
  /\ Part(B, h.free_list) = ListPart(h.iteration, free, Parts(h))
  /\ seg.block # INVALID_BLOCK => B[seg.block] = TableBlock(seg.rows)

\* The checkpoint of header h is in the blocks B of the file and in those, C, of
\* its last Sync.
Held(h, B, C) ==
  \/ h = EmptyHeader
  \/ Stored(h, Seg(h, B), Free(h, B), B) /\ Stored(h, Seg(h, B), Free(h, B), C)

-----------------------------------------------------------------------------
(* The managers.                                                           *)

\* The metadata blocks are those of the parts P, and P is what is not free.
Occupies(m, P) ==
  /\ DOMAIN m.blocks = BlocksOf(P)
  /\ \A b \in BlocksOf(P) :
        /\ m.blocks[b] \in [free_blocks : {FreeIn(P, b)}, content : {m.blocks[b].content}]
        /\ DOMAIN m.blocks[b].content = Index

\* The parts P are the ones that the next checkpoint releases.
Releases(m, P) ==
  /\ DOMAIN m.modified = BlocksOf(P)
  /\ \A b \in BlocksOf(P) : m.modified[b] = Index \ FreeIn(P, b)

\* The managers' record; Occupies, Releases and Accounts say what is in its sets.
IsManager(m) ==
  m \in [free_list : {m.free_list}, modified_blocks : {m.modified_blocks}, max_block : 0..MaxBlock,
         active_header : 0..1, iteration_count : {m.iteration_count}, blocks : {m.blocks},
         modified : {m.modified}]

\* What the managers m know of the parts P agrees with the blocks B.
Agrees(m, P, B) == \A p \in P : m.blocks[p[1]].content[p[2]] = Part(B, p)

\* The managers m and the table seg are those of the checkpoint of header h in B.
Settled(h, B, m, seg) ==
  /\ IsManager(m)
  /\ m.iteration_count = h.iteration
  /\ m.modified_blocks = {}
  /\ Occupies(m, Parts(h)) /\ Releases(m, Parts(h)) /\ Agrees(m, Parts(h), B)
  /\ seg = Seg(h, B)
  /\ Accounts(BlocksOf(Parts(h)), m.free_list, UsedBy(seg), m.max_block)

\* A checkpoint after that of header h has written its table seg and its root.
Writing(h, B, m, seg, root) ==
  /\ IsManager(m)
  /\ m.max_block < MaxBlock
  /\ m.iteration_count = h.iteration
  /\ root \in BlockId \X Index /\ root \notin Parts(h)
  /\ Occupies(m, Parts(h) \cup {root}) /\ Releases(m, Parts(h)) /\ Agrees(m, Parts(h), B)
  /\ m.blocks[root[1]].content[root[2]] = RootPart(h.iteration + 1, seg)
  /\ IsSegment(seg)
  /\ seg.block # INVALID_BLOCK => B[seg.block] = TableBlock(seg.rows)
  /\ UsedBy(Seg(h, B)) \subseteq UsedBy(seg) \cup m.modified_blocks
  /\ UsedBy(seg) \cap m.modified_blocks = {}
  /\ Accounts(BlocksOf(Parts(h) \cup {root}), m.free_list, UsedBy(seg) \cup m.modified_blocks,
              m.max_block)

-----------------------------------------------------------------------------
(* The inductive invariant about the file.                                 *)

Steps == {"idle", "flush", "sync_log", "tables", "marker", "sync_marker", "free_list",
          "sync_blocks", "header", "sync_header", "truncate", "reset"}

Early == {"idle", "flush", "sync_log", "tables", "reset"}
Middle == {"marker", "sync_marker", "free_list"}

\* Headers are written one at a time.
HeadersClose == \E i \in 0..1 : file.header[i] = stable.header[i]

FileTypes ==
  /\ mode \in {"open", "invalid", "down"}
  /\ step \in Steps
  /\ mode # "open" => step = "idle"
  /\ \A f \in {file, stable} :
        f \in [header : [0..1 -> Header], block : {f.block}] /\ DOMAIN f.block = BlockId
  /\ new_header \in Header
  /\ rows \in Content

OpenFile ==
  LET h == Active(file)
      B == file.block
  IN
  /\ step \in {"idle", "flush", "sync_log", "tables", "reset"} =>
        Settled(h, B, bm, segment) /\ file.header = stable.header
  /\ step \in {"marker", "sync_marker", "free_list"} =>
        Writing(h, B, bm, segment, meta_block) /\ file.header = stable.header
  /\ step \in {"sync_blocks", "header", "sync_header", "truncate"} =>
        /\ Settled(new_header, B, bm, segment)
        /\ Stored(new_header, Seg(new_header, B), Free(new_header, B), B)
  /\ step \in {"sync_blocks", "header"} =>
        file.header = stable.header /\ new_header.iteration = h.iteration + 1
  /\ step \in {"header", "sync_header"} => file.block = stable.block
  /\ step \in {"sync_header", "truncate"} => h = new_header
  /\ step = "truncate" => file = stable
  /\ bm.active_header = ActiveHeader(file.header)

FInv ==
  /\ FileTypes /\ HeadersClose
  /\ Held(Active(file), file.block, stable.block)
  /\ Held(Active(stable), file.block, stable.block)
  /\ mode = "open" => OpenFile
-----------------------------------------------------------------------------
(* The log.                                                                *)

WalEntry ==
  {Entry(r) : r \in Txn \X {1, 2}} \cup {Marker(q) : q \in BlockId \X Index} \cup {Flush, Torn}
Outcome == {"none", "unknown", "committed", "failed", "lost"}

\* Of the first n entries of a log w: the last flush entry, whether the last
\* marker names this root, and a replay of the entries on top of counts c.
FlushTo(w, n)       == Max({0} \cup {k \in 1..n : w[k].type = "flush"})
Markers(w, n)       == {k \in 1..n : w[k].type = "checkpoint"}
Clean(w, n, root)   == Markers(w, n) # {} /\ w[Max(Markers(w, n))].meta_block = root
Inserts(w, n, r)    == {k \in 1..n : w[k] = Entry(r)}
Replayed(c, w, n)   == [r \in Txn \X {1, 2} |-> c[r] + Cardinality(Inserts(w, n, r))]

\* The counts c are what ExactlyOnce asks for, with these outcomes.
Good(c, out) ==
  \A t \in Txn :
    /\ \E n \in {0, 1} : \A r \in RowsOf(t) : c[r] = n
    /\ out[t] = "committed" => c[<<t, 1>>] = 1
    /\ out[t] \in {"none", "failed", "lost"} => c[<<t, 1>>] = 0

\* The rows of the checkpoint that header h leads to.
Base(h) == Seg(h, file.block).rows

\* What a restart shows if it finds header h and the first n entries.
Recovered(h, n) ==
  IF Clean(wal, n, h.meta_block) THEN Base(h) ELSE Replayed(Base(h), wal, FlushTo(wal, n))

\* Types of what FInv leaves out.
WalTypes == wal \in Seq(WalEntry) /\ wal_synced \in 0..Len(wal)
WorkTypes ==
  /\ worker \in Txn \cup {Nobody, Checkpointer, Closer}
  /\ (worker = Nobody) <=> (step = "idle")
  /\ step \in {"flush", "sync_log"} => worker \in Txn
  /\ outcome \in [Txn -> Outcome]
SizeTypes ==
  /\ initial_wal_size \in Nat
  /\ step \in {"flush", "sync_log"} => initial_wal_size \in wal_synced..Len(wal)
LogTypes == WalTypes /\ WorkTypes /\ SizeTypes
SkipTypes == skip_writing \in BOOLEAN /\ (skip_writing => step = "flush")

\* The managers stay within the file, also when they are of no use any more.
ManagerTypes ==
  /\ bm.max_block \in 0..MaxBlock
  /\ bm.free_list \cup bm.modified_blocks \cup DOMAIN bm.blocks \subseteq 0..bm.max_block - 1
  /\ DOMAIN bm.modified \subseteq DOMAIN bm.blocks
  /\ segment.block \in BlockId \cup {INVALID_BLOCK}

\* The rows in memory, whatever is in the log: those of a transaction that commits
\* with a checkpoint are visible, those of one that writes to the log are not yet.
MemoryInfo ==
  /\ Good(rows, outcome)
  /\ step \in {"flush", "sync_log"} =>
        outcome[worker] = "unknown" /\ \A r \in RowsOf(worker) : rows[r] = 0
  /\ Checkpointing /\ worker \in Txn =>
        outcome[worker] = "unknown" /\ \A r \in RowsOf(worker) : rows[r] = 1
  /\ step \notin {"idle", "flush", "sync_log", "tables"} => segment.rows = rows
  /\ step \in {"sync_blocks", "header", "sync_header", "truncate"} =>
        new_header.meta_block = meta_block
  /\ step \in {"sync_header", "truncate", "reset"} => Active(file).meta_block = meta_block

\* An empty log has no tail, and neither has one that a failing commit makes empty.
Emptied  == wal = <<>> \/ (step \in {"flush", "sync_log"} /\ initial_wal_size = 0)
TailInfo == Emptied => ~ tail

\* The first n entries end with a flush entry, and they are not in the checkpoint
\* of header h, which together with them gives counts that are good.
Replayable(h, n) ==
  /\ FlushTo(wal, n) = n
  /\ ~ Clean(wal, n, h.meta_block)
  /\ Good(Replayed(Base(h), wal, n), outcome)

\* A commit that logs its changes has done so, after what was there before; one that
\* checkpoints has not.
Logged ==
  /\ Len(wal) = initial_wal_size + (IF step = "flush" THEN 2 ELSE 3)
  /\ wal[initial_wal_size + 1] = Entry(<<worker, 1>>)
  /\ wal[initial_wal_size + 2] = Entry(<<worker, 2>>)
CommitLog ==
  /\ wal_synced = initial_wal_size
  /\ Replayable(Active(file), initial_wal_size)
  /\ rows = Replayed(Base(Active(file)), wal, initial_wal_size)
  /\ ~ skip_writing => Logged
  /\ skip_writing => Len(wal) = initial_wal_size
  /\ step = "sync_log" => wal[Len(wal)] = Flush

\* The log of an open database, if the last replay did not leave entries in it.
LogInfo ==
  LET h == Active(file)
      N == Len(wal)
  IN
  /\ \A k \in 1..N : wal[k] # Torn
  /\ step \notin {"flush", "sync_log", "sync_marker"} => wal_synced = N
  /\ step \in {"idle", "tables", "marker", "free_list", "sync_blocks", "header"} => Replayable(h, N)
  /\ step = "sync_header" => Replayable(Active(stable), N)
  /\ step = "idle" => rows = Replayed(Base(h), wal, N)
  /\ step \in {"flush", "sync_log"} => CommitLog
  /\ step = "sync_marker" =>
        /\ N \in Nat /\ N > 2 /\ wal_synced = N - 2 /\ Replayable(h, N - 2)
        /\ wal[N - 1] = Marker(meta_block) /\ wal[N] = Flush
  /\ step \in {"free_list", "sync_blocks", "header", "sync_header", "truncate", "reset"} =>
        wal = <<>> \/ Clean(wal, N, meta_block)

\* Whatever a crash leaves of the log and of the headers, a restart is good.
CrashSafe ==
  /\ \A k \in 1..Len(wal) : wal[k] # Torn
  /\ \A h \in {Active(file), Active(stable)}, n \in wal_synced..Len(wal) :
        Good(Recovered(h, n), outcome)

\* What the next restart shows.
Restored ==
  IF AlreadyCheckpointed(Active(file).meta_block)
  THEN Base(Active(file)) ELSE Replay(Base(Active(file)))

\* The restart of a database that is down is good.
RestartGood == Good(Restored, outcome)

\* The next restart reads the first n entries.
Reads(n) ==
  /\ \A k \in 1..n : wal[k] # Torn
  /\ n < Len(wal) => wal[n + 1] = Torn
  /\ Committed = FlushTo(wal, n)
  /\ AlreadyCheckpointed(Active(file).meta_block) <=> Clean(wal, n, Active(file).meta_block)
  /\ Restored = Recovered(Active(file), n)

TInv == FInv /\ LogTypes /\ SkipTypes /\ ManagerTypes

EInv ==
  /\ mode = "open" => MemoryInfo /\ TailInfo
  /\ mode = "open" /\ ~ tail => LogInfo
  /\ mode = "invalid" /\ ~ tail => CrashSafe
  /\ mode = "down" => ~ tail /\ RestartGood
-----------------------------------------------------------------------------
(* Logs.                                                                   *)

\* The entries of a log tell their kinds apart.
LEMMA EntryKinds ==
  /\ \A r : Entry(r).type = "insert" /\ Entry(r).row = r
  /\ \A q : Marker(q).type = "checkpoint" /\ Marker(q).meta_block = q
  /\ Flush.type = "flush" /\ Torn.type = "torn"
  /\ \A e \in WalEntry : e.type \in {"insert", "checkpoint", "flush", "torn"}
  /\ \A r \in Txn \X {1, 2} : Entry(r) \in WalEntry
  /\ \A q \in BlockId \X Index : Marker(q) \in WalEntry
  /\ Flush \in WalEntry /\ Torn \in WalEntry
<1>1. /\ \A r : Entry(r).type = "insert" /\ Entry(r).row = r
      /\ \A q : Marker(q).type = "checkpoint" /\ Marker(q).meta_block = q
      /\ Flush.type = "flush" /\ Torn.type = "torn"
  BY DEF Entry, Marker, Flush, Torn
<1> QED
  BY <1>1 DEF WalEntry

\* The last flush entry is one of the first n entries, or there is none.
LEMMA FlushToType ==
  ASSUME NEW w, NEW n \in Nat
  PROVE  /\ FlushTo(w, n) \in 0..n
         /\ \A k \in 1..n : w[k].type = "flush" => k <= FlushTo(w, n)
         /\ FlushTo(w, n) # 0 => w[FlushTo(w, n)].type = "flush"
<1> DEFINE S == {0} \cup {k \in 1..n : w[k].type = "flush"}
<1>1. S \in SUBSET (0..n) /\ S # {}
  OBVIOUS
<1>2. Max(S) \in S /\ \A x \in S : x <= Max(S)
  BY <1>1, MaxIsGreatest
<1>3. FlushTo(w, n) = Max(S)
  BY DEF FlushTo
<1> HIDE DEF S
<1>4. Max(S) \in 0..n
  BY <1>1, <1>2
<1>5. \A k \in 1..n : w[k].type = "flush" => k \in S
  BY DEF S
<1>6. \A k \in S : k # 0 => w[k].type = "flush"
  BY DEF S
<1> QED
  BY <1>2, <1>3, <1>4, <1>5, <1>6

\* A log that ends with a flush entry is flushed to its end.
LEMMA FlushedToEnd ==
  ASSUME NEW w, NEW n \in Nat \ {0}, w[n] = Flush
  PROVE  FlushTo(w, n) = n
<1>1. w[n].type = "flush" /\ n \in 1..n
  BY EntryKinds
<1>2. n <= FlushTo(w, n) /\ FlushTo(w, n) \in 0..n
  BY <1>1, FlushToType
<1> QED
  BY <1>2

\* What is read from the first n entries depends on them only.
LEMMA SamePrefix ==
  ASSUME NEW w, NEW v, NEW n \in Nat, \A k \in 1..n : w[k] = v[k]
  PROVE  /\ FlushTo(w, n) = FlushTo(v, n)
         /\ \A root : Clean(w, n, root) <=> Clean(v, n, root)
         /\ \A m \in 0..n : \A r : Inserts(w, m, r) = Inserts(v, m, r)
         /\ \A m \in 0..n : \A c : Replayed(c, w, m) = Replayed(c, v, m)
<1>1. {k \in 1..n : w[k].type = "flush"} = {k \in 1..n : v[k].type = "flush"}
  OBVIOUS
<1>2. FlushTo(w, n) = FlushTo(v, n)
  BY <1>1 DEF FlushTo
<1>3. Markers(w, n) = Markers(v, n)
  BY DEF Markers
<1>4. Markers(w, n) # {} => Max(Markers(w, n)) \in 1..n
  <2>1. Markers(w, n) \in SUBSET (0..n) /\ Markers(w, n) \subseteq 1..n
    BY DEF Markers
  <2> QED
    BY <2>1, MaxIsGreatest
<1>5. \A root : Clean(w, n, root) <=> Clean(v, n, root)
  BY <1>3, <1>4 DEF Clean
<1>6. ASSUME NEW m \in 0..n, NEW r PROVE Inserts(w, m, r) = Inserts(v, m, r)
  <2>1. \A k \in 1..m : k \in 1..n
    OBVIOUS
  <2> QED
    BY <2>1 DEF Inserts
<1>7. ASSUME NEW m \in 0..n, NEW c PROVE Replayed(c, w, m) = Replayed(c, v, m)
  BY <1>6 DEF Replayed
<1> QED
  BY <1>2, <1>5, <1>6, <1>7

\* Entries without flush entry or marker change nothing for a restart.
LEMMA LongerLog ==
  ASSUME NEW w, NEW m \in Nat, NEW n \in Nat, m <= n,
         \A k \in m + 1..n : w[k].type = "insert"
  PROVE  /\ FlushTo(w, n) = FlushTo(w, m)
         /\ \A root : Clean(w, n, root) <=> Clean(w, m, root)
<1>1. \A k \in 1..n : w[k].type # "insert" => k \in 1..m
  OBVIOUS
<1>2. \A k \in 1..m : k \in 1..n
  OBVIOUS
<1>3. {k \in 1..n : w[k].type = "flush"} = {k \in 1..m : w[k].type = "flush"}
  BY <1>1, <1>2
<1>4. Markers(w, n) = Markers(w, m)
  BY <1>1, <1>2 DEF Markers
<1> QED
  BY <1>3, <1>4 DEF FlushTo, Clean

\* Entries other than those of row r do not count for it.
LEMMA SameInserts ==
  ASSUME NEW w, NEW m \in Nat, NEW n \in Nat, m <= n, NEW r,
         \A k \in m + 1..n : w[k] # Entry(r)
  PROVE  Inserts(w, n, r) = Inserts(w, m, r)
<1>1. \A k \in 1..n : k \in 1..m \/ k \in m + 1..n
  OBVIOUS
<1>2. \A k \in 1..m : k \in 1..n
  OBVIOUS
<1> QED
  BY <1>1, <1>2 DEF Inserts

\* The entries of a row are finitely many; each counts for one.
LEMMA InsertsFinite ==
  ASSUME NEW w, NEW n \in Nat, NEW r
  PROVE  IsFiniteSet(Inserts(w, n, r)) /\ Cardinality(Inserts(w, n, r)) \in Nat
<1>1. IsFiniteSet(1..n)
  BY FS_Interval
<1>2. Inserts(w, n, r) \subseteq 1..n
  BY DEF Inserts
<1>3. IsFiniteSet(Inserts(w, n, r))
  BY <1>1, <1>2, FS_Subset
<1> QED
  BY <1>3, FS_CardinalityType

LEMMA ReplayedType ==
  ASSUME NEW c \in Content, NEW w, NEW n \in Nat
  PROVE  Replayed(c, w, n) \in Content /\ \A r \in Txn \X {1, 2} : Replayed(c, w, n)[r] >= c[r]
<1>1. \A r : Cardinality(Inserts(w, n, r)) \in Nat
  BY InsertsFinite
<1>2. \A r \in Txn \X {1, 2} : c[r] \in Nat
  BY DEF Content
<1> QED
  BY <1>1, <1>2 DEF Replayed, Content

\* An empty log adds nothing.
LEMMA EmptyLog ==
  ASSUME NEW c \in Content, NEW w
  PROVE  /\ Replayed(c, w, 0) = c
         /\ FlushTo(w, 0) = 0 /\ \A root : ~ Clean(w, 0, root)
<1>1. \A r : Inserts(w, 0, r) = {}
  BY DEF Inserts
<1>2. Cardinality({}) = 0
  BY FS_EmptySet
<1>3. \A r \in Txn \X {1, 2} : c[r] \in Nat /\ c[r] + 0 = c[r]
  BY DEF Content
<1>4. Replayed(c, w, 0) = [r \in Txn \X {1, 2} |-> c[r]]
  BY <1>1, <1>2, <1>3 DEF Replayed
<1>5. Replayed(c, w, 0) = c
  BY <1>4 DEF Content
<1>6. FlushTo(w, 0) = 0
  BY FlushToType
<1>7. Markers(w, 0) = {}
  BY DEF Markers
<1> QED
  BY <1>5, <1>6, <1>7 DEF Clean

\* The first n entries of a log.
LEMMA Prefix ==
  ASSUME NEW w \in Seq(WalEntry), NEW n \in 0..Len(w)
  PROVE  /\ SubSeq(w, 1, n) \in Seq(WalEntry) /\ Len(SubSeq(w, 1, n)) = n
         /\ \A k \in 1..n : SubSeq(w, 1, n)[k] = w[k]
<1>1. n \in Int /\ 1 \in Int /\ \A k \in 1..n : w[k] \in WalEntry
  OBVIOUS
<1>2. /\ SubSeq(w, 1, n) \in Seq(WalEntry)
      /\ Len(SubSeq(w, 1, n)) = IF 1 <= n THEN n - 1 + 1 ELSE 0
      /\ \A k \in 1..n - 1 + 1 : SubSeq(w, 1, n)[k] = w[1 + k - 1]
  BY <1>1, SubSeqProperties
<1>3. n - 1 + 1 = n /\ \A k \in 1..n : 1 + k - 1 = k
  OBVIOUS
<1> QED
  BY <1>2, <1>3

\* Two entries more.
LEMMA TwoMore ==
  ASSUME NEW w \in Seq(WalEntry), NEW x \in WalEntry, NEW y \in WalEntry,
         NEW v, v = w \o <<x, y>>
  PROVE  /\ v \in Seq(WalEntry) /\ Len(v) = Len(w) + 2 /\ v # <<>>
         /\ \A k \in 1..Len(w) : v[k] = w[k]
         /\ v[Len(w) + 1] = x /\ v[Len(w) + 2] = y
<1>1. <<x, y>> \in Seq(WalEntry) /\ Len(<<x, y>>) = 2 /\ Len(w) \in Nat
  OBVIOUS
<1>2. /\ v \in Seq(WalEntry)
      /\ Len(v) = Len(w) + Len(<<x, y>>)
      /\ \A i \in 1..Len(w) + Len(<<x, y>>) :
            v[i] = IF i <= Len(w) THEN w[i] ELSE <<x, y>>[i - Len(w)]
  BY <1>1, ConcatProperties
<1>3. /\ Len(w) + 1 \in 1..Len(w) + 2 /\ ~ (Len(w) + 1 <= Len(w)) /\ Len(w) + 1 - Len(w) = 1
      /\ Len(w) + 2 \in 1..Len(w) + 2 /\ ~ (Len(w) + 2 <= Len(w)) /\ Len(w) + 2 - Len(w) = 2
      /\ \A k \in 1..Len(w) : k \in 1..Len(w) + 2 /\ k <= Len(w)
  BY <1>1
<1>4. v[Len(w) + 1] = x /\ v[Len(w) + 2] = y
  BY <1>1, <1>2, <1>3
<1>5. v # <<>>
  BY <1>1, <1>2
<1> QED
  BY <1>1, <1>2, <1>3, <1>4, <1>5

\* One entry more.
LEMMA OneMore ==
  ASSUME NEW w \in Seq(WalEntry), NEW x \in WalEntry, NEW v, v = Append(w, x)
  PROVE  /\ v \in Seq(WalEntry) /\ Len(v) = Len(w) + 1 /\ v # <<>>
         /\ \A k \in 1..Len(w) : v[k] = w[k]
         /\ v[Len(w) + 1] = x
BY AppendProperties

\* A restart reads the entries before the first that is torn: the first n.
LEMMA Readable ==
  ASSUME NEW w \in Seq(WalEntry), NEW v,
         v = LET torn == {k \in DOMAIN w : w[k] = Torn}
             IN  IF torn = {} THEN w ELSE SubSeq(w, 1, Min(torn) - 1)
  PROVE  \E n \in 0..Len(w) :
            /\ \A k \in 1..n : w[k] # Torn
            /\ n < Len(w) => w[n + 1] = Torn
            /\ Max({0} \cup Positions(v, "flush")) = FlushTo(w, n)
            /\ \A root : (LET markers == Positions(v, "checkpoint")
                          IN  markers # {} /\ v[Max(markers)].meta_block = root)
                            <=> Clean(w, n, root)
<1> DEFINE torn == {k \in DOMAIN w : w[k] = Torn}
<1>0. Len(w) \in Nat /\ DOMAIN w = 1..Len(w)
  OBVIOUS
<1>1. \E n \in 0..Len(w) : /\ v \in Seq(WalEntry) /\ Len(v) = n
                           /\ \A k \in 1..n : v[k] = w[k] /\ w[k] # Torn
                           /\ n < Len(w) => w[n + 1] = Torn
  <2>1. CASE torn = {}
    <3>1. v = w
      BY <2>1
    <3>2. \A k \in 1..Len(w) : w[k] # Torn
      BY <1>0, <2>1
    <3>3. Len(w) \in 0..Len(w) /\ ~ (Len(w) < Len(w))
      BY <1>0
    <3> HIDE DEF torn
    <3> QED
      BY <3>1, <3>2, <3>3
  <2>2. CASE torn # {}
    <3>1. torn \in SUBSET Nat
      BY <1>0
    <3>2. Min(torn) \in torn /\ \A k \in torn : Min(torn) <= k
      BY <2>2, <3>1, MinIsLeast
    <3> DEFINE n == Min(torn) - 1
    <3>3. Min(torn) \in 1..Len(w) /\ n \in 0..Len(w) - 1 /\ n + 1 = Min(torn)
      BY <1>0, <3>2
    <3>4. v = SubSeq(w, 1, n)
      BY <2>2
    <3>5. v \in Seq(WalEntry) /\ Len(v) = n /\ \A k \in 1..n : v[k] = w[k]
      <4>1. n \in 0..Len(w)
        BY <1>0, <3>3
      <4> HIDE DEF n, torn
      <4> QED
        BY <3>4, <4>1, Prefix
    <3>6. \A k \in 1..n : k \in DOMAIN w /\ k \notin torn
      <4>1. \A k \in 1..n : k \in Int /\ k < Min(torn) /\ k \in 1..Len(w)
        BY <1>0, <3>3
      <4>2. \A k \in torn : ~ (k < Min(torn))
        <5> SUFFICES ASSUME NEW k \in torn PROVE ~ (k < Min(torn))
          OBVIOUS
        <5>1. k \in Int /\ Min(torn) \in Int /\ Min(torn) <= k
          BY <1>0, <3>2, <3>3
        <5> QED
          BY <5>1
      <4> QED
        BY <1>0, <4>1, <4>2
    <3>7. w[n + 1] = Torn
      BY <3>2, <3>3
    <3> HIDE DEF n
    <3>8. n \in 0..Len(w)
      BY <1>0, <3>3
    <3> QED
      BY <3>5, <3>6, <3>7, <3>8
  <2> QED
    BY <2>1, <2>2
<1>2. PICK n \in 0..Len(w) : /\ v \in Seq(WalEntry) /\ Len(v) = n
                             /\ \A k \in 1..n : v[k] = w[k] /\ w[k] # Torn
                             /\ n < Len(w) => w[n + 1] = Torn
  BY <1>1
<1>3. DOMAIN v = 1..n /\ n \in Nat
  BY <1>2
<1>4. Positions(v, "flush") = {k \in 1..n : v[k].type = "flush"}
  BY <1>3 DEF Positions
<1>5. Max({0} \cup Positions(v, "flush")) = FlushTo(v, n)
  BY <1>4 DEF FlushTo
<1>6. Positions(v, "checkpoint") = Markers(v, n)
  BY <1>3 DEF Positions, Markers
<1>7. FlushTo(v, n) = FlushTo(w, n) /\ \A root : Clean(v, n, root) <=> Clean(w, n, root)
  <2>1. \A k \in 1..n : v[k] = w[k]
    BY <1>2
  <2> HIDE DEF torn
  <2> QED
    BY <1>3, <2>1, SamePrefix
<1>8. \A root : (LET markers == Positions(v, "checkpoint")
                 IN  markers # {} /\ v[Max(markers)].meta_block = root) <=> Clean(w, n, root)
  BY <1>6, <1>7 DEF Clean
<1> QED
  BY <1>2, <1>5, <1>7, <1>8

\* The same of the log of a database that starts, with the outcome of the replay.
LEMMA ReadableLogs ==
  ASSUME wal \in Seq(WalEntry)
  PROVE  \E n \in 0..Len(wal) :
            /\ \A k \in 1..n : wal[k] # Torn
            /\ n < Len(wal) => wal[n + 1] = Torn
            /\ Committed = FlushTo(wal, n)
            /\ \A root : AlreadyCheckpointed(root) <=> Clean(wal, n, root)
            /\ \A c \in Content : Replay(c) = Replayed(c, wal, FlushTo(wal, n))
<1>1. PICK n \in 0..Len(wal) :
            /\ \A k \in 1..n : wal[k] # Torn
            /\ n < Len(wal) => wal[n + 1] = Torn
            /\ Committed = FlushTo(wal, n)
            /\ \A root : AlreadyCheckpointed(root) <=> Clean(wal, n, root)
  BY Readable DEF Committed, AlreadyCheckpointed, ReadableLog
<1>2. ASSUME NEW c \in Content
      PROVE  Replay(c) = Replayed(c, wal, FlushTo(wal, n))
  <2>1. DOMAIN c = Txn \X {1, 2}
    BY DEF Content
  <2> QED
    BY <1>1, <2>1 DEF Replay, Replayed, Inserts
<1> QED
  BY <1>1, <1>2
-----------------------------------------------------------------------------
(* The operators of BlockFile.                                             *)

\* r: a block that was free or is new, and the managers that have handed it out.
BlockTaken(m, M, U, r) ==
  /\ IsManager(r.bm)
  /\ r.block \in BlockId /\ r.block \notin M \cup U
  /\ Accounts(M \cup {r.block}, r.bm.free_list, U, r.bm.max_block)
  /\ Accounts(M, r.bm.free_list, U \cup {r.block}, r.bm.max_block)
  /\ r.bm.max_block <= m.max_block + 1
  /\ r.bm.modified_blocks = m.modified_blocks /\ r.bm.active_header = m.active_header
  /\ r.bm.iteration_count = m.iteration_count
  /\ r.bm.blocks = m.blocks /\ r.bm.modified = m.modified

\* A block that is handed out was free or is new, and is neither afterwards.
LEMMA FreeBlock ==
  ASSUME NEW m, IsManager(m), m.max_block < MaxBlock, NEW M, NEW U,
         Accounts(M, m.free_list, U, m.max_block), NEW r, r = GetFreeBlockId(m)
  PROVE  BlockTaken(m, M, U, r)
<1>0. MaxBlock \in Nat /\ m.max_block \in Nat /\ m.max_block \in 0..MaxBlock - 1
  BY BlockConstants DEF IsManager
<1>1. CASE m.free_list # {}
  <2>1. m.free_list \in SUBSET Nat /\ m.free_list \subseteq 0..m.max_block - 1
    BY <1>0 DEF Accounts
  <2>2. PICK b \in m.free_list : b = Min(m.free_list)
    BY <1>1, <2>1, MinIsLeast
  <2>3. r = [block |-> b, bm |-> [m EXCEPT !.free_list = m.free_list \ {b}]]
    BY <1>1, <2>2 DEF GetFreeBlockId
  <2>4. /\ IsManager(r.bm)
        /\ r.block = b
        /\ r.bm.free_list = m.free_list \ {b} /\ r.bm.max_block = m.max_block
        /\ r.bm.modified_blocks = m.modified_blocks /\ r.bm.active_header = m.active_header
        /\ r.bm.iteration_count = m.iteration_count
        /\ r.bm.blocks = m.blocks /\ r.bm.modified = m.modified
    BY <2>3 DEF IsManager
  <2>5. b \in BlockId /\ b \notin M \cup U
    BY <1>0, <2>1 DEF Accounts, BlockId
  <2>6. /\ Accounts(M \cup {b}, m.free_list \ {b}, U, m.max_block)
        /\ Accounts(M, m.free_list \ {b}, U \cup {b}, m.max_block)
    BY DEF Accounts
  <2> QED
    BY <1>0, <2>4, <2>5, <2>6 DEF BlockTaken
<1>2. CASE m.free_list = {}
  <2> DEFINE b == m.max_block
  <2>1. r = [block |-> b, bm |-> [m EXCEPT !.max_block = b + 1]]
    BY <1>2 DEF GetFreeBlockId
  <2>2. /\ IsManager(r.bm)
        /\ r.block = b
        /\ r.bm.free_list = m.free_list /\ r.bm.max_block = b + 1
        /\ r.bm.modified_blocks = m.modified_blocks /\ r.bm.active_header = m.active_header
        /\ r.bm.iteration_count = m.iteration_count
        /\ r.bm.blocks = m.blocks /\ r.bm.modified = m.modified
    BY <1>0, <2>1 DEF IsManager
  <2>3. b \in BlockId /\ b \notin M \cup U
    BY <1>0 DEF Accounts, BlockId
  <2>4. 0..(b + 1) - 1 = (0..b - 1) \cup {b}
    BY <1>0
  <2>5. /\ Accounts(M \cup {b}, m.free_list, U, b + 1)
        /\ Accounts(M, m.free_list, U \cup {b}, b + 1)
    BY <1>2, <2>3, <2>4 DEF Accounts
  <2> QED
    BY <1>0, <2>2, <2>3, <2>5 DEF BlockTaken
<1> QED
  BY <1>1, <1>2

\* Where a set of parts has blocks, and what is free in them.
LEMMA BlocksOfParts ==
  ASSUME NEW P \in PartSet
  PROVE  /\ \A b : b \in BlocksOf(P) <=> \E i \in Index : <<b, i>> \in P
         /\ \A p \in P :
               p[1] \in BlocksOf(P) /\ p[1] \in BlockId /\ p[2] \in Index /\ p = <<p[1], p[2]>>
         /\ \A b : b \in BlocksOf(P) <=> FreeIn(P, b) # Index
         /\ \A b : FreeIn(P, b) \in SUBSET Nat
<1>1. \A p \in P : p[1] \in BlockId /\ p[2] \in Index /\ p = <<p[1], p[2]>>
  BY DEF PartSet
<1>2. \A b : b \in BlocksOf(P) <=> \E i \in Index : <<b, i>> \in P
  BY <1>1 DEF BlocksOf
<1>3. \A b : b \in BlocksOf(P) <=> FreeIn(P, b) # Index
  BY <1>2 DEF FreeIn
<1>4. Index \subseteq Nat
  BY BlockConstants DEF Index
<1> QED
  BY <1>1, <1>2, <1>3, <1>4 DEF BlocksOf, FreeIn

LEMMA OneMorePart ==
  ASSUME NEW P \in PartSet, NEW x \in BlockId, NEW i \in Index
  PROVE  /\ BlocksOf(P \cup {<<x, i>>}) = BlocksOf(P) \cup {x}
         /\ \A b : b # x => FreeIn(P \cup {<<x, i>>}, b) = FreeIn(P, b)
         /\ FreeIn(P \cup {<<x, i>>}, x) = FreeIn(P, x) \ {i}
<1>1. BlocksOf({<<x, i>>}) = {x} /\ BlocksOf(P \cup {<<x, i>>}) = BlocksOf(P) \cup BlocksOf({<<x, i>>})
  BY DEF BlocksOf
<1> QED
  BY <1>1 DEF FreeIn

\* r: a part that was not occupied, and the managers that have handed it out.
PartTaken(m, P, U, r) ==
  /\ r.pointer \in BlockId \X Index /\ r.pointer \notin P
  /\ IsManager(r.bm) /\ Occupies(r.bm, P \cup {r.pointer})
  /\ Accounts(BlocksOf(P \cup {r.pointer}), r.bm.free_list, U, r.bm.max_block)
  /\ r.bm.max_block <= m.max_block + 1
  /\ r.bm.modified_blocks = m.modified_blocks /\ r.bm.active_header = m.active_header
  /\ r.bm.iteration_count = m.iteration_count /\ r.bm.modified = m.modified
  /\ \A b \in BlocksOf(P) : r.bm.blocks[b].content = m.blocks[b].content

\* A part that is handed out was not occupied and is occupied now.
LEMMA AllocatesPart ==
  ASSUME NEW m, IsManager(m), m.max_block < MaxBlock,
         NEW P \in PartSet, Occupies(m, P),
         NEW U, Accounts(BlocksOf(P), m.free_list, U, m.max_block),
         NEW r \in AllocateHandle(m)
  PROVE  PartTaken(m, P, U, r)
<1> DEFINE roomy == {b \in DOMAIN m.blocks : m.blocks[b].free_blocks # {}}
           fresh == GetFreeBlockId(m)
           new   == [free_blocks |-> Index \ {0}, content |-> [i \in Index |-> Empty]]
<1>0. DOMAIN m.blocks = BlocksOf(P) /\ 0 \in Index
  BY BlockConstants DEF Occupies, Index
<1>1. CASE roomy = {}
  <2> DEFINE x == fresh.block
  <2>1. /\ IsManager(fresh.bm)
        /\ x \in BlockId /\ x \notin BlocksOf(P) \cup U
        /\ Accounts(BlocksOf(P) \cup {x}, fresh.bm.free_list, U, fresh.bm.max_block)
        /\ fresh.bm.max_block <= m.max_block + 1
        /\ fresh.bm.modified_blocks = m.modified_blocks
        /\ fresh.bm.active_header = m.active_header
        /\ fresh.bm.iteration_count = m.iteration_count
        /\ fresh.bm.blocks = m.blocks /\ fresh.bm.modified = m.modified
    <3>1. BlockTaken(m, BlocksOf(P), U, fresh)
      BY FreeBlock
    <3> QED
      BY <3>1 DEF BlockTaken
  <2>2. r = [pointer |-> <<x, 0>>,
             bm |-> [fresh.bm EXCEPT !.blocks =
                        [b \in DOMAIN fresh.bm.blocks \cup {x} |->
                            IF b = x THEN new ELSE fresh.bm.blocks[b]]]]
    BY <1>1 DEF AllocateHandle
  <2> HIDE DEF fresh, x, new, roomy
  <2>3. /\ IsManager(r.bm)
        /\ r.pointer = <<x, 0>>
        /\ r.bm.free_list = fresh.bm.free_list /\ r.bm.max_block = fresh.bm.max_block
        /\ r.bm.modified_blocks = m.modified_blocks /\ r.bm.active_header = m.active_header
        /\ r.bm.iteration_count = m.iteration_count /\ r.bm.modified = m.modified
        /\ r.bm.blocks = [b \in BlocksOf(P) \cup {x} |-> IF b = x THEN new ELSE m.blocks[b]]
    BY <1>0, <2>1, <2>2 DEF IsManager
  <2>4. r.pointer \in BlockId \X Index /\ r.pointer \notin P
    BY <1>0, <2>1, <2>3, BlocksOfParts
  <2>5. /\ BlocksOf(P \cup {r.pointer}) = BlocksOf(P) \cup {x}
        /\ \A b : b # x => FreeIn(P \cup {r.pointer}, b) = FreeIn(P, b)
        /\ FreeIn(P \cup {r.pointer}, x) = FreeIn(P, x) \ {0}
    <3>0. x \in BlockId /\ 0 \in Index
      BY <1>0, <2>1
    <3>1. /\ BlocksOf(P \cup {<<x, 0>>}) = BlocksOf(P) \cup {x}
          /\ \A b : b # x => FreeIn(P \cup {<<x, 0>>}, b) = FreeIn(P, b)
          /\ FreeIn(P \cup {<<x, 0>>}, x) = FreeIn(P, x) \ {0}
      BY <3>0, OneMorePart
    <3> QED
      BY <2>3, <3>1
  <2>6. FreeIn(P, x) = Index
    BY <2>1, BlocksOfParts
  <2>7. Occupies(r.bm, P \cup {r.pointer})
    <3>1. DOMAIN r.bm.blocks = BlocksOf(P \cup {r.pointer})
      BY <2>3, <2>5
    <3>2. ASSUME NEW b \in BlocksOf(P), b # x
          PROVE  /\ r.bm.blocks[b] \in [free_blocks : {FreeIn(P \cup {r.pointer}, b)},
                                        content : {r.bm.blocks[b].content}]
                 /\ DOMAIN r.bm.blocks[b].content = Index
      BY <2>3, <2>5, <3>2 DEF Occupies
    <3>3. /\ r.bm.blocks[x] \in [free_blocks : {FreeIn(P \cup {r.pointer}, x)},
                                 content : {r.bm.blocks[x].content}]
          /\ DOMAIN r.bm.blocks[x].content = Index
      <4>1. r.bm.blocks[x] = new /\ FreeIn(P \cup {r.pointer}, x) = Index \ {0}
        BY <2>3, <2>5, <2>6
      <4>2. /\ new \in [free_blocks : {Index \ {0}}, content : {new.content}]
            /\ DOMAIN new.content = Index
        BY DEF new
      <4> QED
        BY <4>1, <4>2
    <3> QED
      BY <2>5, <3>1, <3>2, <3>3 DEF Occupies
  <2>8. ASSUME NEW b \in BlocksOf(P) PROVE r.bm.blocks[b] = m.blocks[b]
    BY <2>1, <2>3
  <2> QED
    BY <2>1, <2>3, <2>4, <2>5, <2>7, <2>8 DEF PartTaken
<1>2. CASE roomy # {}
  <2>1. PICK x \in roomy :
           r = [pointer |-> <<x, Min(m.blocks[x].free_blocks)>>,
                bm      |-> [m EXCEPT !.blocks[x].free_blocks =
                                m.blocks[x].free_blocks \ {Min(m.blocks[x].free_blocks)}]]
    BY <1>2 DEF AllocateHandle
  <2> DEFINE i == Min(m.blocks[x].free_blocks)
  <2>2. x \in BlocksOf(P) /\ m.blocks[x].free_blocks = FreeIn(P, x) /\ FreeIn(P, x) # {}
    BY <1>0 DEF Occupies
  <2>3. i \in FreeIn(P, x)
    BY <2>2, BlocksOfParts, MinIsLeast
  <2> HIDE DEF roomy, i
  <2>4. r = [pointer |-> <<x, i>>,
             bm |-> [m EXCEPT !.blocks[x].free_blocks = FreeIn(P, x) \ {i}]]
    BY <2>1, <2>2 DEF i
  <2>5. /\ IsManager(r.bm)
        /\ r.pointer = <<x, i>>
        /\ r.bm.free_list = m.free_list /\ r.bm.max_block = m.max_block
        /\ r.bm.modified_blocks = m.modified_blocks /\ r.bm.active_header = m.active_header
        /\ r.bm.iteration_count = m.iteration_count /\ r.bm.modified = m.modified
        /\ r.bm.blocks = [m.blocks EXCEPT ![x] =
                             [m.blocks[x] EXCEPT !.free_blocks = FreeIn(P, x) \ {i}]]
    BY <2>4 DEF IsManager
  <2>6. x \in BlockId /\ i \in Index /\ <<x, i>> \notin P
    BY <2>2, <2>3, BlocksOfParts DEF FreeIn
  <2>7. /\ BlocksOf(P \cup {r.pointer}) = BlocksOf(P)
        /\ \A b : b # x => FreeIn(P \cup {r.pointer}, b) = FreeIn(P, b)
        /\ FreeIn(P \cup {r.pointer}, x) = FreeIn(P, x) \ {i}
    <3>1. /\ BlocksOf(P \cup {<<x, i>>}) = BlocksOf(P) \cup {x}
          /\ \A b : b # x => FreeIn(P \cup {<<x, i>>}, b) = FreeIn(P, b)
          /\ FreeIn(P \cup {<<x, i>>}, x) = FreeIn(P, x) \ {i}
      BY SMTT(40), <2>6, OneMorePart
    <3>2. r.pointer = <<x, i>> /\ BlocksOf(P) \cup {x} = BlocksOf(P)
      BY <2>2, <2>5
    <3> QED
      BY <3>1, <3>2
  <2>8. /\ DOMAIN r.bm.blocks = BlocksOf(P)
        /\ r.bm.blocks[x] \in [free_blocks : {FreeIn(P, x) \ {i}},
                               content : {m.blocks[x].content}]
        /\ \A b \in BlocksOf(P) : b # x => r.bm.blocks[b] = m.blocks[b]
    BY <1>0, <2>2, <2>5 DEF Occupies
  <2>9. Occupies(r.bm, P \cup {r.pointer})
    BY <2>7, <2>8 DEF Occupies
  <2>10. \A b \in BlocksOf(P) : r.bm.blocks[b].content = m.blocks[b].content
    BY <2>8
  <2>11. r.bm.max_block <= m.max_block + 1
    BY <2>5, BlockConstants DEF IsManager
  <2>12. Accounts(BlocksOf(P \cup {r.pointer}), r.bm.free_list, U, r.bm.max_block)
    BY <2>5, <2>7
  <2>13. r.pointer \in BlockId \X Index /\ r.pointer \notin P
    BY <2>5, <2>6
  <2> QED
    BY <2>5, <2>9, <2>10, <2>11, <2>12, <2>13 DEF PartTaken
<1> QED
  BY <1>1, <1>2

\* r: the managers m after a write of x to part p, one of the occupied parts P.
PartWritten(m, P, p, x, r) ==
  /\ IsManager(r) /\ Occupies(r, P)
  /\ r.free_list = m.free_list /\ r.max_block = m.max_block
  /\ r.modified_blocks = m.modified_blocks /\ r.active_header = m.active_header
  /\ r.iteration_count = m.iteration_count /\ r.modified = m.modified
  /\ r.blocks[p[1]].content[p[2]] = x
  /\ \A b \in BlocksOf(P), i \in Index :
        <<b, i>> # p => r.blocks[b].content[i] = m.blocks[b].content[i]

\* Writing a part changes the content of that part only.
LEMMA WritesPart ==
  ASSUME NEW m, IsManager(m), NEW P \in PartSet, Occupies(m, P),
         NEW p \in P, NEW x, NEW r, r = WritePart(m, p, x)
  PROVE  PartWritten(m, P, p, x, r)
<1>1. p[1] \in BlocksOf(P) /\ p[2] \in Index /\ p = <<p[1], p[2]>>
  BY BlocksOfParts DEF PartSet
<1>2. r = [m EXCEPT !.blocks[p[1]].content[p[2]] = x]
  BY DEF WritePart
<1>3. /\ IsManager(r)
      /\ r.free_list = m.free_list /\ r.max_block = m.max_block
      /\ r.modified_blocks = m.modified_blocks /\ r.active_header = m.active_header
      /\ r.iteration_count = m.iteration_count /\ r.modified = m.modified
      /\ r.blocks = [m.blocks EXCEPT ![p[1]] = [m.blocks[p[1]] EXCEPT !.content =
                        [m.blocks[p[1]].content EXCEPT ![p[2]] = x]]]
  BY <1>2 DEF IsManager
<1>4. /\ DOMAIN r.blocks = BlocksOf(P)
      /\ r.blocks[p[1]] \in [free_blocks : {FreeIn(P, p[1])},
                             content : {[m.blocks[p[1]].content EXCEPT ![p[2]] = x]}]
      /\ \A b \in BlocksOf(P) : b # p[1] => r.blocks[b] = m.blocks[b]
  BY <1>1, <1>3 DEF Occupies
<1>5. /\ DOMAIN r.blocks[p[1]].content = Index
      /\ r.blocks[p[1]].content[p[2]] = x
      /\ \A i \in Index \ {p[2]} : r.blocks[p[1]].content[i] = m.blocks[p[1]].content[i]
  BY <1>1, <1>4 DEF Occupies
<1>6. Occupies(r, P)
  BY <1>4, <1>5 DEF Occupies
<1>7. ASSUME NEW b \in BlocksOf(P), NEW i \in Index, <<b, i>> # p
      PROVE  r.blocks[b].content[i] = m.blocks[b].content[i]
  <2>1. b # p[1] \/ i # p[2]
    BY <1>1, <1>7
  <2> QED
    BY <1>4, <1>5, <2>1
<1> QED
  BY <1>3, <1>5, <1>6, <1>7 DEF PartWritten

\* r: the managers m after the release of P, with Q still occupied.
PartsReleased(m, P, Q, r) ==
  /\ IsManager(r) /\ Occupies(r, Q) /\ Releases(r, Q)
  /\ r.modified_blocks = m.modified_blocks \cup (BlocksOf(P) \ BlocksOf(Q))
  /\ r.free_list = m.free_list /\ r.max_block = m.max_block
  /\ r.active_header = m.active_header /\ r.iteration_count = m.iteration_count
  /\ \A b \in BlocksOf(Q) : r.blocks[b].content = m.blocks[b].content

\* MarkBlocksAsModified releases the parts P of the last checkpoint: only Q stays
\* occupied, and the blocks without parts in Q become modified.
LEMMA MarksModified ==
  ASSUME NEW m, IsManager(m),
         NEW P \in PartSet, NEW Q \in PartSet, P \cap Q = {},
         NEW R, R = P \cup Q, Occupies(m, R), Releases(m, P), NEW r, r = MarkBlocksAsModified(m)
  PROVE  PartsReleased(m, P, Q, r)
<1> DEFINE free(b) == m.blocks[b].free_blocks
                         \cup (IF b \in DOMAIN m.modified THEN m.modified[b] ELSE {})
           freed   == {b \in DOMAIN m.modified : free(b) = Index}
           kept    == DOMAIN m.blocks \ freed
<1>0. /\ DOMAIN m.modified = BlocksOf(P) /\ DOMAIN m.blocks = BlocksOf(R)
      /\ BlocksOf(R) = BlocksOf(P) \cup BlocksOf(Q)
  BY DEF Occupies, Releases, BlocksOf
<1>1. ASSUME NEW b \in BlocksOf(R)
      PROVE  free(b) = FreeIn(Q, b)
  <2>1. m.blocks[b].free_blocks = FreeIn(R, b)
    BY DEF Occupies
  <2>2. (IF b \in DOMAIN m.modified THEN m.modified[b] ELSE {}) = Index \ FreeIn(P, b)
    <3>1. CASE b \in BlocksOf(P)
      BY <1>0, <3>1 DEF Releases
    <3>2. CASE b \notin BlocksOf(P)
      BY <1>0, <3>2, BlocksOfParts
    <3> QED
      BY <3>1, <3>2
  <2>3. FreeIn(R, b) \cup (Index \ FreeIn(P, b)) = FreeIn(Q, b)
    BY DEF FreeIn
  <2> QED
    BY <2>1, <2>2, <2>3
<1>2. freed = BlocksOf(P) \ BlocksOf(Q)
  <2>1. \A b \in BlocksOf(P) : free(b) = Index <=> b \notin BlocksOf(Q)
    BY <1>0, <1>1, BlocksOfParts
  <2> QED
    BY <1>0, <2>1
<1>3. kept = BlocksOf(Q)
  BY <1>0, <1>2
<1>4. r = [m EXCEPT !.blocks = [b \in kept |-> [m.blocks[b] EXCEPT !.free_blocks = free(b)]],
                    !.modified_blocks = m.modified_blocks \cup freed,
                    !.modified = [b \in kept |-> Index \ free(b)]]
  BY DEF MarkBlocksAsModified
<1> HIDE DEF free, freed, kept
<1>5. /\ IsManager(r)
      /\ r.free_list = m.free_list /\ r.max_block = m.max_block
      /\ r.active_header = m.active_header /\ r.iteration_count = m.iteration_count
      /\ r.modified_blocks = m.modified_blocks \cup freed
      /\ r.blocks = [b \in kept |-> [m.blocks[b] EXCEPT !.free_blocks = free(b)]]
      /\ r.modified = [b \in kept |-> Index \ free(b)]
  BY <1>4 DEF IsManager
<1>6. /\ DOMAIN r.blocks = BlocksOf(Q) /\ DOMAIN r.modified = BlocksOf(Q)
      /\ \A b \in BlocksOf(Q) :
            /\ r.modified[b] = Index \ FreeIn(Q, b)
            /\ r.blocks[b] = [m.blocks[b] EXCEPT !.free_blocks = FreeIn(Q, b)]
  <2>1. DOMAIN r.blocks = BlocksOf(Q) /\ DOMAIN r.modified = BlocksOf(Q)
    BY <1>3, <1>5
  <2>2. ASSUME NEW b \in BlocksOf(Q)
        PROVE  /\ r.modified[b] = Index \ FreeIn(Q, b)
               /\ r.blocks[b] = [m.blocks[b] EXCEPT !.free_blocks = FreeIn(Q, b)]
    <3>1. free(b) = FreeIn(Q, b) /\ b \in kept
      BY <1>0, <1>1, <1>3
    <3>2. r.modified[b] = Index \ free(b)
      BY <1>5, <3>1
    <3>3. r.blocks[b] = [m.blocks[b] EXCEPT !.free_blocks = free(b)]
      BY <1>5, <3>1
    <3> QED
      BY <3>1, <3>2, <3>3
  <2> QED
    BY <2>1, <2>2
<1>7. \A b \in BlocksOf(Q) :
         /\ r.blocks[b] \in [free_blocks : {FreeIn(Q, b)}, content : {m.blocks[b].content}]
         /\ DOMAIN m.blocks[b].content = Index
  BY ZenonT(60), <1>0, <1>6 DEF Occupies
<1>8. Occupies(r, Q) /\ Releases(r, Q)
  BY <1>6, <1>7 DEF Occupies, Releases
<1>9. \A b \in BlocksOf(Q) : r.blocks[b].content = m.blocks[b].content
  BY <1>7
<1> QED
  BY <1>2, <1>5, <1>8, <1>9 DEF PartsReleased

\* r: the managers m without the free blocks at the end.
CutOff(m, M, U, r) ==
  /\ IsManager(r)
  /\ Accounts(M, r.free_list, U, r.max_block)
  /\ r.modified_blocks = m.modified_blocks /\ r.active_header = m.active_header
  /\ r.iteration_count = m.iteration_count
  /\ r.blocks = m.blocks /\ r.modified = m.modified
  /\ \A b \in M \cup U : b \in Nat /\ b < r.max_block

\* Truncate cuts off free blocks only.
LEMMA TruncatesFree ==
  ASSUME NEW m, IsManager(m), NEW M, NEW U, Accounts(M, m.free_list, U, m.max_block),
         NEW r, r = Truncate(m)
  PROVE  CutOff(m, M, U, r)
<1> DEFINE S == {k \in 0..m.max_block : k..m.max_block - 1 \subseteq m.free_list}
           n == Min(S)
           F == {b \in m.free_list : b < n}
<1>0. MaxBlock \in Nat /\ m.max_block \in Nat /\ m.max_block <= MaxBlock
  BY BlockConstants DEF IsManager
<1>1. m.max_block \in S
  BY <1>0
<1>2. S \in SUBSET Nat
  OBVIOUS
<1>3. n \in S
  BY <1>1, <1>2, MinIsLeast
<1>4. r = [m EXCEPT !.max_block = n, !.free_list = F]
  BY DEF Truncate
<1>5. n \in 0..m.max_block /\ n..m.max_block - 1 \subseteq m.free_list
  BY <1>3
<1>5a. n \in 0..MaxBlock
  BY <1>0, <1>5
<1> HIDE DEF S, n, F
<1>6. /\ IsManager(r)
      /\ r.max_block = n /\ r.free_list = F
      /\ r.modified_blocks = m.modified_blocks /\ r.active_header = m.active_header
      /\ r.iteration_count = m.iteration_count
      /\ r.blocks = m.blocks /\ r.modified = m.modified
  BY <1>5a, <1>4 DEF IsManager
<1>7. \A b \in M \cup U : b \in 0..n - 1
  <2> SUFFICES ASSUME NEW b \in M \cup U PROVE b \in 0..n - 1
    OBVIOUS
  <2>1. b \in 0..m.max_block - 1 /\ b \notin m.free_list
    BY DEF Accounts
  <2>2. b \notin n..m.max_block - 1
    BY <1>5, <2>1
  <2> QED
    BY <1>0, <1>5, <2>1, <2>2
<1>8. \A b : b \in F <=> b \in m.free_list /\ b \in 0..n - 1
  BY <1>0, <1>5 DEF Accounts, F
<1>9. 0..n - 1 \subseteq 0..m.max_block - 1
  BY <1>0, <1>5
<1>10. Accounts(M, F, U, n)
  BY <1>7, <1>8, <1>9 DEF Accounts
<1> QED
  BY <1>0, <1>5, <1>6, <1>7, <1>10 DEF CutOff
-----------------------------------------------------------------------------
(* Checkpoints in the file.                                                *)

\* A pointer to a part is not INVALID_BLOCK, and neither is the id of a block.
LEMMA Pointers ==
  /\ BlockId \subseteq Nat /\ Index \subseteq Nat
  /\ INVALID_BLOCK \notin BlockId /\ INVALID_BLOCK \notin BlockId \X Index
<1>1. BlockId \subseteq Int /\ Index \subseteq Int /\ BlockId \subseteq Nat /\ Index \subseteq Nat
  BY BlockConstants DEF BlockId, Index
<1> QED
  BY <1>1, BlockConstants

\* A file without checkpoint has no parts and no table.
LEMMA NoCheckpoint ==
  /\ Parts(EmptyHeader) = {} /\ BlocksOf({}) = {} /\ EmptyHeader.iteration = 0
  /\ EmptyHeader.meta_block = INVALID_BLOCK /\ EmptyHeader.free_list = INVALID_BLOCK
  /\ EmptyHeader.block_count = 0
  /\ UsedBy(NoTable) = {} /\ IsSegment(NoTable)
  /\ \A B : Seg(EmptyHeader, B) = NoTable /\ Free(EmptyHeader, B) = {}
  /\ EmptyHeader \in Header
BY BlockConstants DEF Parts, BlocksOf, EmptyHeader, UsedBy, NoTable, IsSegment, Content, NoRows, Seg,
   Free, Header

\* What a stored checkpoint consists of can be found from its header.
LEMMA StoredParts ==
  ASSUME NEW h, NEW seg, NEW free, NEW B, Stored(h, seg, free, B)
  PROVE  /\ h # EmptyHeader
         /\ Seg(h, B) = seg /\ Free(h, B) = free
         /\ Parts(h) = {h.meta_block, h.free_list}
         /\ Parts(h) \in PartSet
         /\ UsedBy(seg) \subseteq BlockId
<1>1. h # EmptyHeader
  BY NoCheckpoint DEF Stored
<1>2. Parts(h) = {h.meta_block, h.free_list}
  BY Pointers DEF Stored, Parts
<1>3. Seg(h, B) = seg
  BY <1>1 DEF Stored, Seg, RootPart
<1>4. Free(h, B) = free
  <2>1. ListPart(h.iteration, free, Parts(h)).free_list = free
    BY DEF ListPart
  <2> QED
    BY <1>1, <2>1 DEF Stored, Free
<1>5. UsedBy(seg) \subseteq BlockId
  BY DEF Stored, IsSegment, UsedBy
<1>6. Parts(h) \in PartSet
  BY <1>2 DEF Stored, PartSet
<1> QED
  BY <1>1, <1>2, <1>3, <1>4, <1>5, <1>6

\* A checkpoint stays stored while its parts and its table are left alone.
LEMMA StoredKept ==
  ASSUME NEW h, NEW seg, NEW free, NEW B, NEW C, Stored(h, seg, free, B),
         \A p \in Parts(h) : IsMetadata(C, p) /\ Part(C, p) = Part(B, p),
         \A b \in UsedBy(seg) : C[b] = B[b]
  PROVE  Stored(h, seg, free, C)
<1>1. Part(C, h.meta_block) = Part(B, h.meta_block) /\ Part(C, h.free_list) = Part(B, h.free_list)
  BY StoredParts
<1>2. seg.block # INVALID_BLOCK => C[seg.block] = B[seg.block]
  BY DEF UsedBy
<1> QED
  BY <1>1, <1>2 DEF Stored

LEMMA StoredSame ==
  ASSUME NEW h, NEW seg, NEW free, NEW B, NEW C, Stored(h, seg, free, B),
         \A b \in BlocksOf(Parts(h)) \cup UsedBy(seg) : C[b] = B[b]
  PROVE  Stored(h, seg, free, C)
<1>1. \A p \in Parts(h) : p[1] \in BlocksOf(Parts(h))
  BY DEF BlocksOf
<1>2. \A p \in Parts(h) : IsMetadata(C, p) /\ Part(C, p) = Part(B, p)
  BY <1>1 DEF IsMetadata, Part, Stored
<1> QED
  BY <1>2, StoredKept

\* A crash may keep any of the unsynced writes of blocks.
LEMMA StoredMix ==
  ASSUME NEW h, NEW seg, NEW free, NEW B, NEW C, NEW D,
         Stored(h, seg, free, B), Stored(h, seg, free, C),
         \A b \in BlockId : D[b] = B[b] \/ D[b] = C[b]
  PROVE  Stored(h, seg, free, D)
<1>1. Parts(h) = {h.meta_block, h.free_list} /\ Parts(h) \in PartSet
  BY StoredParts
<1>2. \A p \in Parts(h) : Part(B, p) = Part(C, p)
  BY <1>1 DEF Stored
<1>3. \A p \in Parts(h) : D[p[1]] = B[p[1]] \/ D[p[1]] = C[p[1]]
  BY <1>1 DEF PartSet
<1>4. \A p \in Parts(h) : IsMetadata(D, p) /\ Part(D, p) = Part(B, p)
  BY <1>2, <1>3 DEF Stored, IsMetadata, Part
<1>5. \A b \in UsedBy(seg) : D[b] = B[b]
  <2> SUFFICES ASSUME NEW b \in UsedBy(seg) PROVE D[b] = B[b]
    OBVIOUS
  <2>1. b \in BlockId /\ b = seg.block /\ b # INVALID_BLOCK
    BY StoredParts DEF UsedBy
  <2>2. B[b] = C[b]
    BY <2>1 DEF Stored
  <2> QED
    BY <2>1, <2>2
<1> QED
  BY <1>4, <1>5, StoredKept

\* A restart finds the table of a stored checkpoint.
LEMMA TableFound ==
  ASSUME NEW h, NEW f, NEW seg, NEW free, Stored(h, seg, free, f.block)
  PROVE  /\ TableAt(f, h.meta_block) = seg /\ seg # Empty
         /\ PartAt(f.block, h.free_list) = ListPart(h.iteration, free, Parts(h))
         /\ PartAt(f.block, h.free_list).type = "free_list"
         /\ h.meta_block # INVALID_BLOCK /\ h.free_list # INVALID_BLOCK
<1> DEFINE B == f.block
           list == ListPart(h.iteration, free, Parts(h))
<1>1. h.meta_block # INVALID_BLOCK /\ h.free_list # INVALID_BLOCK
  BY Pointers DEF Stored
<1>2. h.meta_block \in Parts(h) /\ h.free_list \in Parts(h)
  BY StoredParts
<1>3. PartAt(B, h.meta_block) = RootPart(h.iteration, seg)
  BY <1>1, <1>2 DEF PartAt, Stored, IsMetadata, Part
<1>4. PartAt(B, h.free_list) = list
  BY <1>1, <1>2 DEF PartAt, Stored, IsMetadata, Part
<1>5. list.type = "free_list"
  BY DEF ListPart
<1>6. /\ RootPart(h.iteration, seg).type = "root"
      /\ RootPart(h.iteration, seg).segment = seg
  BY DEF RootPart
<1>7. seg = [block |-> seg.block, rows |-> seg.rows]
  BY DEF Stored, IsSegment
<1>8. seg.block # INVALID_BLOCK => B[seg.block].type = "table" /\ B[seg.block].rows = seg.rows
  BY DEF Stored, TableBlock
<1>9. seg.block = INVALID_BLOCK => seg = NoTable
  BY DEF Stored, IsSegment
<1>10. TableAt(f, h.meta_block) = seg
  BY <1>1, <1>3, <1>6, <1>7, <1>8, <1>9 DEF TableAt
<1>11. seg # Empty
  <2>1. DOMAIN seg = {"block", "rows"} /\ DOMAIN Empty = {"type"}
    BY <1>7 DEF Empty
  <2> QED
    BY <2>1
<1> QED
  BY <1>1, <1>4, <1>5, <1>10, <1>11

\* Opening a file gives the managers of its last checkpoint.
LEMMA LoadsManager ==
  ASSUME NEW f, f.header \in [0..1 -> Header], NEW h, h = f.header[ActiveHeader(f.header)],
         h = EmptyHeader \/ Stored(h, Seg(h, f.block), Free(h, f.block), f.block)
  PROVE  /\ Settled(h, f.block, LoadManager(f), Seg(h, f.block))
         /\ LoadManager(f).active_header = ActiveHeader(f.header)
<1> DEFINE B == f.block
           active == ActiveHeader(f.header)
           loaded == [NewManager EXCEPT !.active_header = active, !.iteration_count = h.iteration,
                                        !.max_block = h.block_count]
<1>0. active \in 0..1 /\ h \in Header
  BY DEF ActiveHeader
<1>1. /\ IsManager(loaded)
      /\ loaded.free_list = {} /\ loaded.modified_blocks = {}
      /\ loaded.max_block = h.block_count
      /\ loaded.active_header = active /\ loaded.iteration_count = h.iteration
      /\ loaded.blocks = NoBlocks /\ loaded.modified = NoBlocks
  BY <1>0 DEF IsManager, NewManager, Header
<1>2. CASE h = EmptyHeader
  <2>1. LoadManager(f) = loaded
    BY <1>2, NoCheckpoint DEF LoadManager
  <2>2. Parts(h) = {} /\ BlocksOf({}) = {} /\ Seg(h, B) = NoTable /\ UsedBy(NoTable) = {}
        /\ h.block_count = 0
    BY <1>2, NoCheckpoint
  <2> HIDE DEF loaded
  <2>3. Occupies(loaded, {}) /\ Releases(loaded, {}) /\ Agrees(loaded, {}, B)
    BY <1>1, <2>2 DEF Occupies, Releases, Agrees, NoBlocks
  <2>4. Accounts({}, loaded.free_list, {}, loaded.max_block)
    BY <1>1, <2>2 DEF Accounts
  <2> QED
    BY <1>1, <2>1, <2>2, <2>3, <2>4 DEF Settled
<1>3. CASE Stored(h, Seg(h, B), Free(h, B), B)
  <2> DEFINE seg == Seg(h, B)
             free == Free(h, B)
             P == Parts(h)
             list == ListPart(h.iteration, free, P)
             m == [loaded EXCEPT !.free_list = list.free_list,
                                 !.blocks = [b \in DOMAIN list.blocks |->
                                                [free_blocks |-> list.blocks[b],
                                                 content |-> B[b].content]]]
  <2>1. h.free_list # INVALID_BLOCK /\ PartAt(B, h.free_list) = list
    BY <1>3, TableFound
  <2>2. LoadManager(f) = MarkBlocksAsModified(m)
    <3> HIDE DEF list
    <3> QED
      BY <2>1 DEF LoadManager
  <2>3. P \in PartSet
    BY <1>3, StoredParts
  <2>4. list.free_list = free /\ list.blocks = [b \in BlocksOf(P) |-> FreeIn(P, b)]
    BY DEF ListPart
  <2> HIDE DEF loaded, seg, free, P, list
  <2>5. /\ IsManager(m)
        /\ m.free_list = free /\ m.modified_blocks = {}
        /\ m.max_block = h.block_count
        /\ m.active_header = active /\ m.iteration_count = h.iteration
        /\ m.blocks = [b \in DOMAIN list.blocks |-> [free_blocks |-> list.blocks[b],
                                                     content |-> B[b].content]]
        /\ m.modified = NoBlocks
    BY <1>1, <2>4 DEF IsManager
  <2> HIDE DEF m
  <2>6. /\ DOMAIN m.blocks = BlocksOf(P)
        /\ \A b \in BlocksOf(P) : m.blocks[b] = [free_blocks |-> FreeIn(P, b),
                                                 content |-> B[b].content]
    BY <2>4, <2>5
  <2>7. \A b \in BlocksOf(P) : DOMAIN B[b].content = Index
    BY <1>3 DEF Stored, IsMetadata, BlocksOf, P
  <2>8. Occupies(m, P) /\ Releases(m, {})
    <3>1. ASSUME NEW b \in BlocksOf(P)
          PROVE  /\ m.blocks[b] \in [free_blocks : {FreeIn(P, b)}, content : {m.blocks[b].content}]
                 /\ DOMAIN m.blocks[b].content = Index
      <4>1. m.blocks[b] = [free_blocks |-> FreeIn(P, b), content |-> B[b].content]
        BY <2>6
      <4>2. m.blocks[b].content = B[b].content
        BY <4>1
      <4>3. m.blocks[b] \in [free_blocks : {FreeIn(P, b)}, content : {m.blocks[b].content}]
        BY <4>1, <4>2
      <4>4. DOMAIN B[b].content = Index
        BY <2>7
      <4> QED
        BY <4>2, <4>3, <4>4
    <3>2. Releases(m, {})
      BY <2>5, NoCheckpoint DEF Releases, NoBlocks
    <3> QED
      BY <2>6, <3>1, <3>2 DEF Occupies
  <2> DEFINE r == MarkBlocksAsModified(m)
  <2>9. /\ IsManager(r) /\ Occupies(r, P) /\ Releases(r, P)
        /\ r.modified_blocks = m.modified_blocks \cup (BlocksOf({}) \ BlocksOf(P))
        /\ r.free_list = m.free_list /\ r.max_block = m.max_block
        /\ r.active_header = m.active_header /\ r.iteration_count = m.iteration_count
        /\ \A b \in BlocksOf(P) : r.blocks[b].content = m.blocks[b].content
    <3> DEFINE none == {}
    <3>1. /\ none \in PartSet /\ none \cap P = {} /\ P = none \cup P
          /\ IsManager(m) /\ Occupies(m, P) /\ Releases(m, none)
      BY <2>5, <2>8 DEF PartSet
    <3>2. r = MarkBlocksAsModified(m)
      BY DEF r
    <3> HIDE DEF r, none
    <3>3. PartsReleased(m, none, P, r)
      BY <2>3, <3>1, <3>2, MarksModified
    <3> QED
      BY <3>3 DEF PartsReleased, none
  <2> HIDE DEF r
  <2>10. Agrees(r, P, B)
    <3> SUFFICES ASSUME NEW p \in P PROVE r.blocks[p[1]].content[p[2]] = Part(B, p)
      BY DEF Agrees
    <3>1. p[1] \in BlocksOf(P)
      BY DEF BlocksOf
    <3>2. r.blocks[p[1]].content = m.blocks[p[1]].content
      BY <2>9, <3>1
    <3>3. m.blocks[p[1]] = [free_blocks |-> FreeIn(P, p[1]), content |-> B[p[1]].content]
      BY <2>6, <3>1
    <3>4. m.blocks[p[1]].content = B[p[1]].content
      BY <3>3
    <3> QED
      BY <3>2, <3>4 DEF Part
  <2>11. r.modified_blocks = {}
    BY <2>5, <2>9, NoCheckpoint
  <2>12. Accounts(BlocksOf(P), r.free_list, UsedBy(seg), r.max_block)
    BY <1>3, <2>5, <2>9 DEF Stored, P, seg, free
  <2>13. Settled(h, B, r, seg)
    BY <2>5, <2>9, <2>10, <2>11, <2>12 DEF Settled, P, seg
  <2> QED
    BY <2>2, <2>5, <2>9, <2>13 DEF r, seg
<1> QED
  BY <1>2, <1>3

\* Headers lead to parts of metadata blocks.
LEMMA PartsOfHeader ==
  ASSUME NEW h \in Header
  PROVE  Parts(h) \in PartSet
BY DEF Header, Parts, PartSet

\* r: the managers and the header of a checkpoint that follows that of header h, and C:
\* the blocks with its metadata.
Completed(h, B, m, seg, r, C) ==
  /\ r.header \in Header
  /\ r.header.iteration = h.iteration + 1
  /\ r.bm.active_header = m.active_header
  /\ Settled(r.header, C, r.bm, seg)
  /\ Stored(r.header, seg, r.bm.free_list, C)
  /\ DOMAIN C = BlockId
  /\ \A free : Stored(h, Seg(h, B), free, B) => Stored(h, Seg(h, B), free, C)

\* Writing the free list completes a checkpoint: it is stored with a new header,
\* and the one before, of header h, still is.
LEMMA FreeListWritten ==
  ASSUME NEW h \in Header, NEW B, DOMAIN B = BlockId, NEW m, NEW seg, NEW root,
         Writing(h, B, m, seg, root), NEW r \in WriteFreeList(m, root),
         NEW C, C = FlushMetadata(B, r.bm)
  PROVE  Completed(h, B, m, seg, r, C)
<1> DEFINE P == Parts(h)
           R == P \cup {root}
<1>0. /\ P \in PartSet /\ R \in PartSet
      /\ root \in BlockId \X Index /\ root \notin P
      /\ h.iteration \in Nat
  BY PartsOfHeader DEF Writing, Header, PartSet
<1> DEFINE U == UsedBy(seg) \cup m.modified_blocks
<1>1. PICK a \in AllocateHandle(m) :
        LET marked == MarkBlocksAsModified(a.bm)
            freed  == [marked EXCEPT !.iteration_count = @ + 1,
                                     !.free_list = @ \cup marked.modified_blocks,
                                     !.modified_blocks = {}]
            part   == [type |-> "free_list", iteration |-> freed.iteration_count,
                       free_list |-> freed.free_list,
                       blocks |-> [b \in DOMAIN freed.blocks |-> freed.blocks[b].free_blocks]]
        IN  r = [bm     |-> WritePart(freed, a.pointer, part),
                 header |-> [iteration |-> freed.iteration_count, meta_block |-> root,
                             free_list |-> a.pointer, block_count |-> freed.max_block]]
  BY DEF WriteFreeList
<1> DEFINE ptr    == a.pointer
           Q      == {root, ptr}
           marked == MarkBlocksAsModified(a.bm)
           freed  == [marked EXCEPT !.iteration_count = @ + 1,
                                    !.free_list = @ \cup marked.modified_blocks,
                                    !.modified_blocks = {}]
           part   == [type |-> "free_list", iteration |-> freed.iteration_count,
                      free_list |-> freed.free_list,
                      blocks |-> [b \in DOMAIN freed.blocks |-> freed.blocks[b].free_blocks]]
\* the part for the free list,
<1>2. /\ ptr \in BlockId \X Index /\ ptr \notin R
      /\ IsManager(a.bm) /\ Occupies(a.bm, R \cup {ptr})
      /\ Accounts(BlocksOf(R \cup {ptr}), a.bm.free_list, U, a.bm.max_block)
      /\ a.bm.max_block <= m.max_block + 1
      /\ a.bm.modified_blocks = m.modified_blocks /\ a.bm.active_header = m.active_header
      /\ a.bm.iteration_count = m.iteration_count /\ a.bm.modified = m.modified
      /\ \A b \in BlocksOf(R) : a.bm.blocks[b].content = m.blocks[b].content
  <2>1. /\ IsManager(m) /\ m.max_block < MaxBlock /\ Occupies(m, R)
        /\ Accounts(BlocksOf(R), m.free_list, U, m.max_block)
    BY DEF Writing
  <2>2. R \in PartSet /\ a \in AllocateHandle(m)
    BY <1>0
  <2> HIDE DEF R, P, U
  <2>3. PartTaken(m, R, U, a)
    BY <2>1, <2>2, AllocatesPart
  <2> QED
    BY <2>3 DEF PartTaken
<1>3. r = [bm     |-> WritePart(freed, ptr, part),
           header |-> [iteration |-> freed.iteration_count, meta_block |-> root,
                       free_list |-> ptr, block_count |-> freed.max_block]]
  BY <1>1
\* the parts of the last checkpoint released,
<1>4. Q \in PartSet /\ P \cap Q = {} /\ R \cup {ptr} = P \cup Q
  BY <1>0, <1>2 DEF PartSet
<1>5. /\ IsManager(marked) /\ Occupies(marked, Q) /\ Releases(marked, Q)
      /\ marked.modified_blocks = m.modified_blocks \cup (BlocksOf(P) \ BlocksOf(Q))
      /\ marked.free_list = a.bm.free_list /\ marked.max_block = a.bm.max_block
      /\ marked.active_header = m.active_header /\ marked.iteration_count = h.iteration
      /\ \A b \in BlocksOf(Q) : marked.blocks[b].content = a.bm.blocks[b].content
  <2> DEFINE T == R \cup {ptr}
  <2>1. /\ Releases(a.bm, P) /\ m.iteration_count = h.iteration
        /\ T = P \cup Q /\ Occupies(a.bm, T) /\ IsManager(a.bm)
    BY <1>2, <1>4 DEF Writing, Releases
  <2>2. marked = MarkBlocksAsModified(a.bm)
    OBVIOUS
  <2> HIDE DEF T, P, Q, R, marked, ptr
  <2>3. PartsReleased(a.bm, P, Q, marked)
    BY <1>0, <1>4, <2>1, <2>2, MarksModified
  <2> QED
    BY <1>2, <2>1, <2>3 DEF PartsReleased
\* modified blocks freed,
<1> HIDE DEF marked
<1>6. /\ IsManager(freed)
      /\ freed.free_list = a.bm.free_list \cup marked.modified_blocks
      /\ freed.modified_blocks = {} /\ freed.max_block = a.bm.max_block
      /\ freed.active_header = m.active_header
      /\ freed.iteration_count = h.iteration + 1
      /\ freed.blocks = marked.blocks /\ freed.modified = marked.modified
  BY <1>5 DEF IsManager
<1> HIDE DEF freed
<1>7. Occupies(freed, Q) /\ Releases(freed, Q)
  BY <1>5, <1>6 DEF Occupies, Releases
<1>8. Accounts(BlocksOf(Q), freed.free_list, UsedBy(seg), freed.max_block)
  <2>1. BlocksOf(R \cup {ptr}) = BlocksOf(P) \cup BlocksOf(Q)
    BY <1>4 DEF BlocksOf
  <2>2. UsedBy(seg) \cap m.modified_blocks = {}
    BY DEF Writing
  <2> HIDE DEF P, Q, R
  <2> QED
    BY <1>2, <1>5, <1>6, <2>1, <2>2 DEF Accounts
\* and the part written.
<1> HIDE DEF part
<1>9. r.bm = WritePart(freed, ptr, part) /\ ptr \in Q
  BY <1>3
<1>10. /\ IsManager(r.bm) /\ Occupies(r.bm, Q) /\ Releases(r.bm, Q)
       /\ r.bm.free_list = freed.free_list /\ r.bm.max_block = freed.max_block
       /\ r.bm.modified_blocks = {} /\ r.bm.active_header = m.active_header
       /\ r.bm.iteration_count = h.iteration + 1
       /\ r.bm.blocks[ptr[1]].content[ptr[2]] = part
       /\ \A b \in BlocksOf(Q), i \in Index :
             <<b, i>> # ptr => r.bm.blocks[b].content[i] = freed.blocks[b].content[i]
  <2> HIDE DEF Q, ptr
  <2>1. PartWritten(freed, Q, ptr, part, r.bm)
    BY <1>4, <1>6, <1>7, <1>9, WritesPart
  <2> QED
    BY <1>6, <1>7, <2>1 DEF PartWritten, Releases
<1>11. part = ListPart(h.iteration + 1, r.bm.free_list, Q)
  <2>1. \A b \in BlocksOf(Q) : freed.blocks[b].free_blocks = FreeIn(Q, b)
    BY <1>7 DEF Occupies
  <2>2. [b \in DOMAIN freed.blocks |-> freed.blocks[b].free_blocks]
           = [b \in BlocksOf(Q) |-> FreeIn(Q, b)]
    BY <1>7, <2>1 DEF Occupies
  <2> QED
    BY <1>6, <1>10, <2>2 DEF ListPart, part
<1>12. /\ r.header = [iteration |-> h.iteration + 1, meta_block |-> root, free_list |-> ptr,
                      block_count |-> freed.max_block]
       /\ r.header.iteration = h.iteration + 1 /\ r.header.meta_block = root
       /\ r.header.free_list = ptr /\ r.header.block_count = r.bm.max_block
  BY <1>3, <1>6, <1>10
<1>13. r.header \in Header
  BY <1>0, <1>2, <1>10, <1>12 DEF Header, IsManager
<1>14. Parts(r.header) = Q
  BY <1>0, <1>2, <1>12, Pointers DEF Parts
\* The contents that the new checkpoint took over from the last one.
<1>15. ASSUME NEW p \in R, p[1] \in BlocksOf(Q)
       PROVE  r.bm.blocks[p[1]].content[p[2]] = m.blocks[p[1]].content[p[2]]
  <2>1. p[1] \in BlocksOf(R) /\ p[2] \in Index /\ p = <<p[1], p[2]>> /\ p # ptr
    BY <1>0, <1>2, BlocksOfParts DEF PartSet
  <2>2. r.bm.blocks[p[1]].content[p[2]] = freed.blocks[p[1]].content[p[2]]
    BY <1>10, <1>15, <2>1
  <2>3. freed.blocks[p[1]].content = a.bm.blocks[p[1]].content
    BY <1>5, <1>6, <1>15
  <2>4. a.bm.blocks[p[1]].content = m.blocks[p[1]].content
    BY <1>2, <2>1
  <2> QED
    BY <2>2, <2>3, <2>4
<1>16. /\ DOMAIN C = BlockId
       /\ \A b \in BlocksOf(Q) : C[b] = [type |-> "metadata", content |-> r.bm.blocks[b].content]
       /\ \A b \in BlockId : b \notin BlocksOf(Q) => C[b] = B[b]
  <2>1. DOMAIN r.bm.blocks = BlocksOf(Q) /\ BlocksOf(Q) \subseteq BlockId
    BY <1>4, <1>10 DEF Occupies, BlocksOf, PartSet
  <2> HIDE DEF Q
  <2> QED
    BY <2>1 DEF FlushMetadata
<1>17. ASSUME NEW p \in BlockId \X Index, p[1] \in BlocksOf(Q)
       PROVE  IsMetadata(C, p) /\ Part(C, p) = r.bm.blocks[p[1]].content[p[2]]
  <2>1. DOMAIN r.bm.blocks[p[1]].content = Index
    BY <1>10, <1>17 DEF Occupies
  <2>2. C[p[1]] = [type |-> "metadata", content |-> r.bm.blocks[p[1]].content]
    BY <1>16, <1>17
  <2>3. C[p[1]].type = "metadata" /\ C[p[1]].content = r.bm.blocks[p[1]].content
    BY <2>2
  <2> QED
    BY <2>1, <2>3 DEF IsMetadata, Part
<1>18. root[1] \in BlocksOf(Q) /\ ptr[1] \in BlocksOf(Q) /\ BlocksOf(Q) \subseteq BlockId
  BY <1>4 DEF BlocksOf, PartSet
<1>19. Part(C, root) = RootPart(h.iteration + 1, seg)
  <2>1. m.blocks[root[1]].content[root[2]] = RootPart(h.iteration + 1, seg)
    BY DEF Writing
  <2> QED
    BY <1>0, <1>15, <1>17, <1>18, <2>1
<1>20. Part(C, ptr) = part
  BY <1>2, <1>10, <1>17, <1>18
<1>21. \A b \in UsedBy(seg) : b \in BlockId /\ b \notin BlocksOf(Q) /\ C[b] = B[b]
  <2>1. UsedBy(seg) \subseteq BlockId
    BY DEF Writing, IsSegment, UsedBy
  <2>2. UsedBy(seg) \cap BlocksOf(Q) = {}
    BY <1>8 DEF Accounts
  <2> QED
    BY <1>16, <2>1, <2>2
<1>22. Stored(r.header, seg, r.bm.free_list, C)
  <2>1. /\ r.header.iteration \in Nat \ {0}
        /\ r.header.meta_block \in BlockId \X Index /\ r.header.free_list \in BlockId \X Index
        /\ r.header.meta_block # r.header.free_list
        /\ r.header.block_count \in 0..MaxBlock
    BY <1>0, <1>2, <1>10, <1>12 DEF IsManager
  <2>2. IsSegment(seg) /\ (seg.block # INVALID_BLOCK => C[seg.block] = TableBlock(seg.rows))
    BY <1>21 DEF Writing, UsedBy
  <2>3. Accounts(BlocksOf(Parts(r.header)), r.bm.free_list, UsedBy(seg), r.header.block_count)
    BY <1>8, <1>10, <1>12, <1>14
  <2>4. \A p \in Parts(r.header) : IsMetadata(C, p)
    BY <1>4, <1>14, <1>17, BlocksOfParts DEF PartSet
  <2> HIDE DEF Q, ptr
  <2> QED
    BY <1>11, <1>12, <1>14, <1>19, <1>20, <2>1, <2>2, <2>3, <2>4 DEF Stored
<1>23. Settled(r.header, C, r.bm, seg)
  <2>1. Agrees(r.bm, Q, C)
    BY <1>4, <1>17, BlocksOfParts DEF Agrees, PartSet
  <2>2. seg = Seg(r.header, C)
    BY <1>22, StoredParts
  <2> HIDE DEF Q
  <2> QED
    BY <1>8, <1>10, <1>12, <1>14, <2>1, <2>2 DEF Settled
<1>24. ASSUME NEW free, Stored(h, Seg(h, B), free, B)
       PROVE  Stored(h, Seg(h, B), free, C)
  <2> DEFINE old == Seg(h, B)
  <2>1. ASSUME NEW p \in P
        PROVE  IsMetadata(C, p) /\ Part(C, p) = Part(B, p)
    <3>1. p \in BlockId \X Index /\ p \in R /\ p[1] \in BlockId
      BY <1>0 DEF PartSet
    <3>2. CASE p[1] \in BlocksOf(Q)
      <4>1. m.blocks[p[1]].content[p[2]] = Part(B, p)
        BY DEF Writing, Agrees
      <4> QED
        BY <1>15, <1>17, <3>1, <3>2, <4>1
    <3>3. CASE p[1] \notin BlocksOf(Q)
      <4>1. C[p[1]] = B[p[1]]
        BY <1>16, <3>1, <3>3
      <4>2. IsMetadata(B, p)
        BY <1>24 DEF Stored
      <4> QED
        BY <4>1, <4>2 DEF IsMetadata, Part
    <3> QED
      BY <3>2, <3>3
  <2>2. ASSUME NEW b \in UsedBy(old)
        PROVE  C[b] = B[b]
    <3>1. b \in UsedBy(seg) \cup m.modified_blocks
      BY DEF Writing
    <3>2. b \notin BlocksOf(R \cup {ptr}) /\ b \in BlockId
      <4>1. b \in BlockId
        BY <1>24, StoredParts
      <4> QED
        BY <1>2, <3>1, <4>1 DEF Accounts
    <3>3. BlocksOf(Q) \subseteq BlocksOf(R \cup {ptr})
      BY DEF BlocksOf
    <3> QED
      BY <1>16, <3>2, <3>3
  <2> QED
    BY <1>24, <2>1, <2>2, StoredKept
<1> QED
  BY <1>10, <1>12, <1>13, <1>16, <1>22, <1>23, <1>24 DEF Completed
-----------------------------------------------------------------------------
(* Every step keeps the invariant about the file.                          *)

\* The header that a restart would take is a header, with its checkpoint.
LEMMA ActiveFacts ==
  ASSUME NEW f, f.header \in [0..1 -> Header]
  PROVE  /\ ActiveHeader(f.header) \in 0..1
         /\ Active(f) \in Header
         /\ Parts(Active(f)) \in PartSet
<1>1. ActiveHeader(f.header) \in 0..1
  BY DEF ActiveHeader
<1>2. Active(f) \in Header
  BY <1>1 DEF Active
<1> QED
  BY <1>1, <1>2, PartsOfHeader

LEMMA InitFInv == Init => FInv
<1> SUFFICES ASSUME Init PROVE FInv
  OBVIOUS
<1> DEFINE B == file.block
<1>1. /\ file = NewFile /\ stable = NewFile
      /\ NewFile \in [header : [0..1 -> Header], block : {NewFile.block}]
      /\ DOMAIN NewFile.block = BlockId
      /\ Active(NewFile) = EmptyHeader
  BY NoCheckpoint DEF Init, NewFile, Active, ActiveHeader
<1>2. FileTypes
  <2>1. rows \in Content
    BY DEF Init, NoRows, Content
  <2>2. new_header \in Header
    BY NoCheckpoint DEF Init
  <2> QED
    BY <1>1, <2>1, <2>2 DEF Init, FileTypes, Steps
<1>3. bm = NewManager /\ NewManager.active_header = 1 /\ IsManager(NewManager)
      /\ NewManager.free_list = {} /\ NewManager.modified_blocks = {}
      /\ NewManager.max_block = 0 /\ NewManager.iteration_count = 0
      /\ NewManager.blocks = NoBlocks /\ NewManager.modified = NoBlocks
  BY BlockConstants DEF Init, NewManager, IsManager
<1>4. Settled(EmptyHeader, B, bm, segment)
  <2>1. Occupies(bm, {}) /\ Releases(bm, {}) /\ Agrees(bm, {}, B)
    BY <1>3, NoCheckpoint DEF Occupies, Releases, Agrees, NoBlocks
  <2>2. segment = NoTable
    BY DEF Init
  <2>3. Accounts({}, bm.free_list, {}, bm.max_block)
    BY <1>3 DEF Accounts
  <2> QED
    BY <1>3, <2>1, <2>2, <2>3, NoCheckpoint DEF Settled
<1>5. ActiveHeader(file.header) = 1
  BY <1>1 DEF ActiveHeader, NewFile, EmptyHeader
<1>6. OpenFile
  BY <1>1, <1>3, <1>4, <1>5 DEF OpenFile, Init
<1>7. HeadersClose
  BY <1>1 DEF HeadersClose
<1> QED
  BY <1>1, <1>2, <1>6, <1>7 DEF FInv, Held

\* Steps that leave the file and the managers alone.
LEMMA FileUntouched ==
  ASSUME FInv, UNCHANGED storage,
         mode' \in {"open", "invalid", "down"}, step' \in Steps, mode' # "open" => step' = "idle",
         rows' \in Content,
         mode' = "open" => /\ mode = "open"
                           /\ \/ step \in Early /\ step' \in Early
                              \/ step \in Middle /\ step' \in Middle
  PROVE  FInv'
<1>1. /\ file' = file /\ stable' = stable /\ bm' = bm /\ new_header' = new_header
      /\ meta_block' = meta_block /\ segment' = segment
  BY DEF storage
<1>2. FileTypes'
  BY <1>1 DEF FInv, FileTypes
<1>3. HeadersClose'
  BY <1>1 DEF FInv, HeadersClose
<1>4. ASSUME mode' = "open" PROVE OpenFile'
  <2>1. OpenFile
    BY <1>4 DEF FInv
  <2>2. CASE step \in Early /\ step' \in Early
    BY <1>1, <2>1, <2>2 DEF OpenFile, Early
  <2>3. CASE step \in Middle /\ step' \in Middle
    BY <1>1, <2>1, <2>3 DEF OpenFile, Middle
  <2> QED
    BY <1>4, <2>2, <2>3
<1>5. Held(Active(file), file.block, stable.block)' /\ Held(Active(stable), file.block, stable.block)'
  BY <1>1 DEF FInv
<1> QED
  BY <1>2, <1>3, <1>4, <1>5 DEF FInv

\* The rows of a transaction are added to counts, which stay counts.
LEMMA AddRowsType ==
  ASSUME NEW c \in Content, NEW S
  PROVE  AddRows(c, S) \in Content
BY DEF AddRows, Content

LEMMA WriteTablesFInv == FInv /\ WriteTables => FInv'
<1> SUFFICES ASSUME FInv, WriteTables PROVE FInv'
  OBVIOUS
<1> DEFINE h == Active(file)
           B == file.block
           P == Parts(h)
           old == Seg(h, B)
<1>1. /\ mode = "open" /\ step = "tables" /\ OpenFile
      /\ Settled(h, B, bm, segment) /\ file.header = stable.header
      /\ bm.max_block + 3 <= MaxBlock
      /\ bm.active_header = ActiveHeader(file.header)
  BY DEF FInv, FileTypes, WriteTables, OpenFile
<1>2. PICK a \in AllocateHandle(bm) :
         LET w    == WriteTable(a.bm)
             root == [type |-> "root", iteration |-> bm.iteration_count + 1, segment |-> w.segment]
         IN  /\ bm' = WritePart(w.bm, a.pointer, root)
             /\ meta_block' = a.pointer
             /\ segment' = w.segment
             /\ file' = [file EXCEPT !.block = w.block]
  BY DEF WriteTables
<1> DEFINE w == WriteTable(a.bm)
           root == RootPart(h.iteration + 1, w.segment)
           R == P \cup {a.pointer}
<1>3. /\ mode' = mode /\ step' = "marker" /\ stable' = stable /\ new_header' = new_header
      /\ rows' = rows
  BY DEF WriteTables, GoTo
<1>4. /\ bm' = WritePart(w.bm, a.pointer, root) /\ meta_block' = a.pointer
      /\ segment' = w.segment /\ file' = [file EXCEPT !.block = w.block]
  BY <1>1, <1>2 DEF Settled, RootPart
<1>5. /\ h \in Header /\ P \in PartSet /\ DOMAIN B = BlockId
      /\ file \in [header : [0..1 -> Header], block : {file.block}]
      /\ rows \in Content
      /\ MaxBlock \in Nat /\ bm.max_block \in Nat /\ bm.max_block < MaxBlock
  <2>1. file.header \in [0..1 -> Header] /\ DOMAIN B = BlockId /\ rows \in Content
        /\ file \in [header : [0..1 -> Header], block : {file.block}]
    BY DEF FInv, FileTypes
  <2>2. MaxBlock \in Nat /\ bm.max_block \in Nat
    BY <1>1, BlockConstants DEF Settled, IsManager
  <2> QED
    BY <1>1, <2>1, <2>2, ActiveFacts
<1>6. segment = old /\ IsSegment(old) /\ (h # EmptyHeader => Stored(h, old, Free(h, B), B))
  <2>1. segment = old
    BY <1>1 DEF Settled
  <2>2. CASE h = EmptyHeader
    BY <2>1, <2>2, NoCheckpoint
  <2>3. CASE h # EmptyHeader
    BY <2>1, <2>3 DEF FInv, Held, Stored
  <2> QED
    BY <2>2, <2>3
\* The part for the root.
<1>7. /\ a.pointer \in BlockId \X Index /\ a.pointer \notin P
      /\ IsManager(a.bm) /\ Occupies(a.bm, R)
      /\ Accounts(BlocksOf(R), a.bm.free_list, UsedBy(old), a.bm.max_block)
      /\ a.bm.max_block <= bm.max_block + 1
      /\ a.bm.modified_blocks = {} /\ a.bm.active_header = bm.active_header
      /\ a.bm.iteration_count = h.iteration /\ a.bm.modified = bm.modified
      /\ \A b \in BlocksOf(P) : a.bm.blocks[b].content = bm.blocks[b].content
  <2>1. /\ IsManager(bm) /\ Occupies(bm, P) /\ bm.modified_blocks = {}
        /\ bm.iteration_count = h.iteration
        /\ Accounts(BlocksOf(P), bm.free_list, UsedBy(old), bm.max_block)
    BY <1>1, <1>6 DEF Settled
  <2>2. bm.max_block < MaxBlock /\ P \in PartSet /\ a \in AllocateHandle(bm)
    BY <1>5
  <2> HIDE DEF P, old, h, B
  <2>3. PartTaken(bm, P, UsedBy(old), a)
    BY <2>1, <2>2, AllocatesPart
  <2> QED
    BY <2>1, <2>3 DEF PartTaken
\* The table.
<1>8. /\ IsManager(w.bm) /\ Occupies(w.bm, R) /\ Releases(w.bm, P)
      /\ w.bm.max_block < MaxBlock
      /\ w.bm.active_header = bm.active_header /\ w.bm.iteration_count = h.iteration
      /\ \A b \in BlocksOf(P) : w.bm.blocks[b].content = bm.blocks[b].content
      /\ IsSegment(w.segment)
      /\ UsedBy(old) \subseteq UsedBy(w.segment) \cup w.bm.modified_blocks
      /\ UsedBy(w.segment) \cap w.bm.modified_blocks = {}
      /\ Accounts(BlocksOf(R), w.bm.free_list, UsedBy(w.segment) \cup w.bm.modified_blocks,
                  w.bm.max_block)
      /\ DOMAIN w.block = BlockId
      /\ \A b \in BlocksOf(R) \cup UsedBy(old) : w.block[b] = B[b]
      /\ w.segment.block # INVALID_BLOCK => w.block[w.segment.block] = TableBlock(w.segment.rows)
      /\ w.segment.rows = rows
  <2>1. CASE rows = segment.rows
    <3>1. w.bm = a.bm /\ w.segment = old /\ w.block = B
      BY <1>6, <2>1 DEF WriteTable
    <3>2. Releases(a.bm, P)
      BY <1>1, <1>7 DEF Settled, Releases
    <3>3. a.bm.max_block < MaxBlock
      BY <1>1, <1>5, <1>7 DEF IsManager
    <3>4. old.block # INVALID_BLOCK => B[old.block] = TableBlock(old.rows)
      <4>1. CASE h = EmptyHeader
        BY <4>1, NoCheckpoint DEF NoTable
      <4> QED
        BY <1>6, <4>1 DEF Stored
    <3> HIDE DEF w, old, h, B, P, R
    <3> QED
      BY <1>5, <1>6, <1>7, <2>1, <3>1, <3>2, <3>3, <3>4
  <2>2. CASE rows # segment.rows
    <3> DEFINE m     == MarkBlockAsModified(a.bm, segment.block)
               fresh == GetFreeBlockId(m)
    <3>1. /\ w.bm = fresh.bm
          /\ w.segment = [block |-> fresh.block, rows |-> rows]
          /\ w.block = [B EXCEPT ![fresh.block] = TableBlock(rows)]
      BY <2>2 DEF WriteTable, TableBlock
    <3>2. /\ IsManager(m) /\ m.free_list = a.bm.free_list /\ m.max_block = a.bm.max_block
          /\ m.modified_blocks = UsedBy(old) /\ m.active_header = a.bm.active_header
          /\ m.iteration_count = a.bm.iteration_count /\ m.blocks = a.bm.blocks
          /\ m.modified = a.bm.modified
      BY <1>6, <1>7 DEF MarkBlockAsModified, IsManager, UsedBy
    <3>3. m.max_block < MaxBlock /\ Accounts(BlocksOf(R), m.free_list, UsedBy(old), m.max_block)
      BY <1>1, <1>5, <1>7, <3>2 DEF IsManager
    <3> HIDE DEF m
    <3>4. fresh = GetFreeBlockId(m)
      OBVIOUS
    <3> HIDE DEF fresh, w, old, h, B, P, R
    <3>5. /\ IsManager(fresh.bm)
          /\ fresh.block \in BlockId /\ fresh.block \notin BlocksOf(R) \cup UsedBy(old)
          /\ Accounts(BlocksOf(R), fresh.bm.free_list, UsedBy(old) \cup {fresh.block},
                      fresh.bm.max_block)
          /\ fresh.bm.max_block <= m.max_block + 1
          /\ fresh.bm.modified_blocks = m.modified_blocks
          /\ fresh.bm.active_header = m.active_header
          /\ fresh.bm.iteration_count = m.iteration_count
          /\ fresh.bm.blocks = m.blocks /\ fresh.bm.modified = m.modified
      <4>1. BlockTaken(m, BlocksOf(R), UsedBy(old), fresh)
        BY <3>2, <3>3, <3>4, FreeBlock
      <4> QED
        BY <4>1 DEF BlockTaken
    <3>6. UsedBy(w.segment) = {fresh.block} /\ IsSegment(w.segment)
          /\ w.segment.rows = rows /\ w.segment.block = fresh.block
      BY <1>5, <3>1, <3>5, Pointers DEF UsedBy, IsSegment
    <3>7. Occupies(w.bm, R) /\ Releases(w.bm, P)
      BY <1>1, <1>7, <3>1, <3>2, <3>5 DEF Occupies, Releases, Settled, P, h, B
    <3>8. w.bm.max_block < MaxBlock
      BY <1>1, <1>5, <1>7, <3>1, <3>2, <3>5 DEF IsManager
    <3>9. Accounts(BlocksOf(R), w.bm.free_list, UsedBy(w.segment) \cup w.bm.modified_blocks,
                   w.bm.max_block)
      <4>1. UsedBy(w.segment) \cup w.bm.modified_blocks = UsedBy(old) \cup {fresh.block}
        BY <3>1, <3>2, <3>5, <3>6
      <4> QED
        BY <3>1, <3>5, <4>1
    <3>10. /\ DOMAIN w.block = BlockId /\ w.block[fresh.block] = TableBlock(rows)
           /\ \A b \in BlocksOf(R) \cup UsedBy(old) : w.block[b] = B[b]
      BY <1>5, <3>1, <3>5
    <3>11. /\ UsedBy(old) \subseteq UsedBy(w.segment) \cup w.bm.modified_blocks
           /\ UsedBy(w.segment) \cap w.bm.modified_blocks = {}
      BY <3>1, <3>2, <3>5, <3>6
    <3>12. /\ w.bm.active_header = bm.active_header /\ w.bm.iteration_count = h.iteration
           /\ w.bm.blocks = a.bm.blocks /\ IsManager(w.bm)
      BY <1>7, <3>1, <3>2, <3>5
    <3>13. \A b \in BlocksOf(P) : w.bm.blocks[b].content = bm.blocks[b].content
      BY <1>7, <3>12
    <3> QED
      BY <3>6, <3>7, <3>8, <3>9, <3>10, <3>11, <3>12, <3>13
  <2> QED
    BY <2>1, <2>2
<1> HIDE DEF w
\* The root is written.
<1>9. /\ IsManager(bm') /\ Occupies(bm', R)
      /\ bm'.free_list = w.bm.free_list /\ bm'.max_block = w.bm.max_block
      /\ bm'.modified_blocks = w.bm.modified_blocks /\ bm'.active_header = w.bm.active_header
      /\ bm'.iteration_count = w.bm.iteration_count /\ bm'.modified = w.bm.modified
      /\ bm'.blocks[a.pointer[1]].content[a.pointer[2]] = root
      /\ \A b \in BlocksOf(R), i \in Index :
            <<b, i>> # a.pointer => bm'.blocks[b].content[i] = w.bm.blocks[b].content[i]
  <2>1. a.pointer \in R /\ R \in PartSet
    BY <1>5, <1>7 DEF PartSet
  <2> HIDE DEF R, P, root, h
  <2>2. PartWritten(w.bm, R, a.pointer, root, bm')
    BY <1>4, <1>8, <2>1, WritesPart
  <2> QED
    BY <2>2 DEF PartWritten
<1>10. /\ file' \in [header : [0..1 -> Header], block : {file'.block}]
       /\ file'.header = file.header /\ file'.block = w.block
  BY <1>4, <1>5
<1>11. Active(file') = h /\ ActiveHeader(file'.header) = ActiveHeader(file.header)
  BY <1>10 DEF Active
<1>12. BlocksOf(P) \subseteq BlocksOf(R)
  BY DEF BlocksOf
<1>13. \A b \in BlocksOf(P) \cup UsedBy(old) : file'.block[b] = B[b]
  <2> HIDE DEF h, B, P, R, old
  <2>1. \A b \in BlocksOf(R) \cup UsedBy(old) : w.block[b] = B[b]
    BY <1>8
  <2>2. file'.block = w.block
    BY <1>10
  <2> QED
    BY <1>12, <2>1, <2>2
\* The last checkpoint is not disturbed.
<1>14. ASSUME h # EmptyHeader
       PROVE  /\ Stored(h, old, Free(h, B), file'.block)
              /\ Seg(h, file'.block) = old /\ Free(h, file'.block) = Free(h, B)
              /\ Stored(h, old, Free(h, B), stable.block)
  <2>1. Stored(h, old, Free(h, B), B) /\ Stored(h, old, Free(h, B), stable.block)
    BY <1>14 DEF FInv, Held
  <2>2. Stored(h, old, Free(h, B), file'.block)
    BY <1>13, <2>1, StoredSame
  <2> QED
    BY <2>1, <2>2, StoredParts
<1>15. Held(h, file'.block, stable.block) /\ Seg(h, file'.block) = old
  <2>1. CASE h = EmptyHeader
    BY <2>1, NoCheckpoint DEF Held
  <2>2. CASE h # EmptyHeader
    BY <1>14, <2>2 DEF Held
  <2> QED
    BY <2>1, <2>2
<1>16. Active(stable') = h
  BY <1>1, <1>3 DEF Active
<1>17. Agrees(bm', P, file'.block)
  <2> SUFFICES ASSUME NEW p \in P
               PROVE  bm'.blocks[p[1]].content[p[2]] = Part(file'.block, p)
    BY DEF Agrees
  <2>1. p[1] \in BlocksOf(P) /\ p[2] \in Index /\ p = <<p[1], p[2]>> /\ p # a.pointer
    BY <1>5, <1>7, BlocksOfParts
  <2>2. bm'.blocks[p[1]].content[p[2]] = w.bm.blocks[p[1]].content[p[2]]
    BY <1>9, <1>12, <2>1
  <2>3. w.bm.blocks[p[1]].content = bm.blocks[p[1]].content
    BY <1>8, <2>1
  <2>4. bm.blocks[p[1]].content[p[2]] = Part(B, p)
    BY <1>1 DEF Settled, Agrees
  <2>5. Part(file'.block, p) = Part(B, p)
    BY <1>13, <2>1 DEF Part
  <2> QED
    BY <2>2, <2>3, <2>4, <2>5
<1>18. Writing(h, file'.block, bm', segment', meta_block')
  <2>1. Releases(bm', P)
    BY <1>8, <1>9 DEF Releases
  <2>2. segment' = w.segment /\ meta_block' = a.pointer
    BY <1>4
  <2>3. /\ bm'.max_block < MaxBlock /\ bm'.iteration_count = h.iteration
        /\ UsedBy(old) \subseteq UsedBy(w.segment) \cup bm'.modified_blocks
        /\ UsedBy(w.segment) \cap bm'.modified_blocks = {}
        /\ Accounts(BlocksOf(R), bm'.free_list, UsedBy(w.segment) \cup bm'.modified_blocks,
                    bm'.max_block)
        /\ w.segment.block # INVALID_BLOCK =>
              file'.block[w.segment.block] = TableBlock(w.segment.rows)
        /\ IsSegment(w.segment)
    BY <1>8, <1>9, <1>10
  <2>4. bm'.blocks[a.pointer[1]].content[a.pointer[2]] = RootPart(h.iteration + 1, w.segment)
    BY <1>9
  <2> HIDE DEF h, old, B
  <2> QED
    BY <1>7, <1>9, <1>15, <1>17, <2>1, <2>2, <2>3, <2>4 DEF Writing
<1>19. FileTypes'
  BY <1>1, <1>3, <1>8, <1>10 DEF FInv, FileTypes, Steps
<1>20. OpenFile'
  BY <1>1, <1>3, <1>8, <1>9, <1>10, <1>11, <1>18 DEF OpenFile
<1>21. HeadersClose'
  BY <1>1, <1>3, <1>10 DEF HeadersClose
<1> QED
  BY <1>3, <1>11, <1>15, <1>16, <1>19, <1>20, <1>21 DEF FInv

LEMMA FlushFreeListFInv == FInv /\ FlushFreeList => FInv'
<1> SUFFICES ASSUME FInv, FlushFreeList PROVE FInv'
  OBVIOUS
<1> DEFINE h == Active(file)
           B == file.block
           C == file'.block
<1>1. /\ mode = "open" /\ step = "free_list" /\ OpenFile
      /\ Writing(h, B, bm, segment, meta_block) /\ file.header = stable.header
      /\ bm.active_header = ActiveHeader(file.header)
  BY DEF FInv, FileTypes, FlushFreeList, OpenFile
<1>2. PICK w \in WriteFreeList(bm, meta_block) :
         /\ bm' = w.bm /\ new_header' = w.header
         /\ file' = [file EXCEPT !.block = FlushMetadata(file.block, w.bm)]
  BY DEF FlushFreeList
<1>3. /\ mode' = mode /\ step' = "sync_blocks" /\ stable' = stable
      /\ meta_block' = meta_block /\ segment' = segment /\ rows' = rows
  BY DEF FlushFreeList, GoTo
<1>4. /\ file \in [header : [0..1 -> Header], block : {file.block}] /\ DOMAIN B = BlockId
      /\ h \in Header
  <2>1. file \in [header : [0..1 -> Header], block : {file.block}] /\ DOMAIN B = BlockId
    BY DEF FInv, FileTypes
  <2>2. file.header \in [0..1 -> Header]
    BY <2>1
  <2> QED
    BY <2>1, <2>2, ActiveFacts
<1>5. /\ file' \in [header : [0..1 -> Header], block : {file'.block}]
      /\ file'.header = file.header /\ C = FlushMetadata(B, w.bm)
  BY <1>2, <1>4
<1>6. /\ w.header \in Header
      /\ w.header.iteration = h.iteration + 1
      /\ w.bm.active_header = bm.active_header
      /\ Settled(w.header, C, w.bm, segment)
      /\ Stored(w.header, segment, w.bm.free_list, C)
      /\ DOMAIN C = BlockId
      /\ \A free : Stored(h, Seg(h, B), free, B) => Stored(h, Seg(h, B), free, C)
  <2> HIDE DEF h, B, C
  <2>1. Completed(h, B, bm, segment, w, C)
    BY <1>1, <1>4, <1>5, FreeListWritten
  <2> QED
    BY <2>1 DEF Completed
<1>7. Active(file') = h /\ ActiveHeader(file'.header) = ActiveHeader(file.header) /\ Active(stable') = h
  BY <1>1, <1>3, <1>5 DEF Active
<1>8. Held(h, C, stable.block)
  <2>1. CASE h = EmptyHeader
    BY <2>1 DEF Held
  <2>2. CASE h # EmptyHeader
    <3>1. /\ Stored(h, Seg(h, B), Free(h, B), B)
          /\ Stored(h, Seg(h, B), Free(h, B), stable.block)
      BY <2>2 DEF FInv, Held
    <3>2. Stored(h, Seg(h, B), Free(h, B), C)
      BY <1>6, <3>1
    <3>3. Seg(h, C) = Seg(h, B) /\ Free(h, C) = Free(h, B)
      BY <3>2, StoredParts
    <3> QED
      BY <3>1, <3>2, <3>3 DEF Held
  <2> QED
    BY <2>1, <2>2
<1>9. /\ new_header' = w.header /\ bm' = w.bm
      /\ Seg(w.header, C) = segment /\ Free(w.header, C) = w.bm.free_list
  BY <1>2, <1>6, StoredParts
<1>10. FileTypes'
  BY <1>1, <1>3, <1>5, <1>6, <1>9 DEF FInv, FileTypes, Steps
<1>11. HeadersClose'
  <2>1. file'.header = stable'.header
    BY <1>1, <1>3, <1>5
  <2> QED
    BY <2>1 DEF HeadersClose
<1>12. OpenFile'
  BY <1>1, <1>3, <1>5, <1>6, <1>7, <1>9 DEF OpenFile
<1> QED
  BY <1>3, <1>7, <1>8, <1>10, <1>11, <1>12 DEF FInv

LEMMA SyncBlocksFInv == FInv /\ SyncBlocks => FInv'
<1> SUFFICES ASSUME FInv, SyncBlocks PROVE FInv'
  OBVIOUS
<1>1. mode = "open" /\ step = "sync_blocks" /\ OpenFile
  BY DEF FInv, FileTypes, SyncBlocks
<1>2. /\ stable' = file /\ step' = "header"
      /\ mode' = mode /\ file' = file /\ bm' = bm /\ new_header' = new_header
      /\ meta_block' = meta_block /\ segment' = segment /\ rows' = rows
  BY DEF SyncBlocks, GoTo
<1>3. FileTypes' /\ HeadersClose'
  BY <1>1, <1>2 DEF FInv, FileTypes, HeadersClose, Steps
<1>4. Held(Active(file), file.block, file.block)
  BY DEF FInv, Held
<1>5. OpenFile'
  BY <1>1, <1>2 DEF OpenFile
<1> QED
  BY <1>2, <1>3, <1>4, <1>5 DEF FInv

\* The header that is written is the one that a restart would take from now on.
LEMMA HeaderSwitch ==
  ASSUME NEW f, f.header \in [0..1 -> Header], NEW n \in Header,
         n.iteration = Active(f).iteration + 1,
         NEW g, g.header = [f.header EXCEPT ![1 - ActiveHeader(f.header)] = n]
  PROVE  /\ ActiveHeader(g.header) = 1 - ActiveHeader(f.header)
         /\ Active(g) = n
<1> DEFINE a == ActiveHeader(f.header)
<1>1. a = 0 \/ a = 1
  BY DEF ActiveHeader
<1>2. /\ f.header[0] \in Header /\ f.header[1] \in Header
      /\ f.header[0].iteration \in Nat /\ f.header[1].iteration \in Nat
  BY DEF Header
<1>3. CASE a = 0
  <2>1. g.header[0] = f.header[0] /\ g.header[1] = n
    BY <1>3
  <2>2. n.iteration = f.header[0].iteration + 1
    BY <1>3 DEF Active
  <2>3. ActiveHeader(g.header) = 1
    BY <1>2, <2>1, <2>2 DEF ActiveHeader
  <2> QED
    BY <1>3, <2>1, <2>3 DEF Active
<1>4. CASE a = 1
  <2>1. g.header[0] = n /\ g.header[1] = f.header[1]
    BY <1>4
  <2>2. n.iteration = f.header[1].iteration + 1
    BY <1>4 DEF Active
  <2>3. ActiveHeader(g.header) = 0
    BY <1>2, <2>1, <2>2 DEF ActiveHeader
  <2> QED
    BY <1>4, <2>1, <2>3 DEF Active
<1> QED
  BY <1>1, <1>3, <1>4

LEMMA WriteHeaderFInv == FInv /\ WriteHeader => FInv'
<1> SUFFICES ASSUME FInv, WriteHeader PROVE FInv'
  OBVIOUS
<1> DEFINE a == ActiveHeader(file.header)
           B == file.block
<1>1. /\ mode = "open" /\ step = "header" /\ OpenFile
      /\ Settled(new_header, B, bm, segment)
      /\ Stored(new_header, Seg(new_header, B), Free(new_header, B), B)
      /\ file.header = stable.header /\ new_header.iteration = Active(file).iteration + 1
      /\ B = stable.block /\ bm.active_header = a
  BY DEF FInv, FileTypes, WriteHeader, OpenFile
<1>2. /\ file' = [file EXCEPT !.header[1 - a] = new_header]
      /\ bm' = [bm EXCEPT !.active_header = 1 - @]
      /\ step' = "sync_header" /\ mode' = mode /\ stable' = stable /\ new_header' = new_header
      /\ meta_block' = meta_block /\ segment' = segment /\ rows' = rows
  BY <1>1 DEF WriteHeader, GoTo
<1>3. /\ file \in [header : [0..1 -> Header], block : {file.block}]
      /\ file.header \in [0..1 -> Header]
      /\ new_header \in Header /\ a \in 0..1
  BY ActiveFacts DEF FInv, FileTypes
<1>4. /\ file' \in [header : [0..1 -> Header], block : {file'.block}]
      /\ file'.header = [file.header EXCEPT ![1 - a] = new_header]
      /\ file'.block = B
  BY <1>2, <1>3
<1>5. ActiveHeader(file'.header) = 1 - a /\ Active(file') = new_header
  BY <1>1, <1>3, <1>4, HeaderSwitch
<1>6. /\ IsManager(bm') /\ bm'.active_header = 1 - a
      /\ bm'.free_list = bm.free_list /\ bm'.max_block = bm.max_block
      /\ bm'.modified_blocks = bm.modified_blocks
      /\ bm'.iteration_count = bm.iteration_count
      /\ bm'.blocks = bm.blocks /\ bm'.modified = bm.modified
  <2>1. IsManager(bm) /\ 1 - a \in 0..1
    BY <1>1, <1>3 DEF Settled
  <2> QED
    BY <1>1, <1>2, <2>1 DEF IsManager
<1>7. Settled(new_header, B, bm', segment)
  BY <1>1, <1>6 DEF Settled, Occupies, Releases, Agrees
<1>8. Held(new_header, B, B) /\ Held(Active(stable), B, B)
  BY <1>1 DEF FInv, Held
<1>9. HeadersClose'
  <2>1. file'.header[a] = file.header[a]
    BY <1>3, <1>4
  <2> QED
    BY <1>1, <1>2, <1>3, <2>1 DEF HeadersClose
<1>10. FileTypes'
  BY <1>1, <1>2, <1>3, <1>4 DEF FInv, FileTypes, Steps
<1>11. OpenFile'
  BY <1>1, <1>2, <1>4, <1>5, <1>6, <1>7 DEF OpenFile
<1> QED
  BY <1>1, <1>2, <1>4, <1>5, <1>8, <1>9, <1>10, <1>11 DEF FInv

LEMMA SyncHeaderFInv == FInv /\ SyncHeader => FInv'
<1> SUFFICES ASSUME FInv, SyncHeader PROVE FInv'
  OBVIOUS
<1>1. mode = "open" /\ step = "sync_header" /\ OpenFile
  BY DEF FInv, FileTypes, SyncHeader
<1>2. /\ stable' = file /\ step' = "truncate"
      /\ mode' = mode /\ file' = file /\ bm' = bm /\ new_header' = new_header
      /\ meta_block' = meta_block /\ segment' = segment /\ rows' = rows
  BY DEF SyncHeader, GoTo
<1>3. FileTypes' /\ HeadersClose'
  BY <1>1, <1>2 DEF FInv, FileTypes, HeadersClose, Steps
<1>4. Held(Active(file), file.block, file.block)
  BY DEF FInv, Held
<1>5. OpenFile'
  BY <1>1, <1>2 DEF OpenFile
<1> QED
  BY <1>2, <1>3, <1>4, <1>5 DEF FInv

LEMMA TruncateFInv == FInv /\ TruncateBlocks => FInv'
<1> SUFFICES ASSUME FInv, TruncateBlocks PROVE FInv'
  OBVIOUS
<1> DEFINE h == new_header
           B == file.block
           C == file'.block
           seg == Seg(h, B)
           P == Parts(h)
<1>1. /\ mode = "open" /\ step = "truncate" /\ OpenFile
      /\ Settled(h, B, bm, segment) /\ Stored(h, seg, Free(h, B), B)
      /\ Active(file) = h /\ file = stable
      /\ bm.active_header = ActiveHeader(file.header)
  BY DEF FInv, FileTypes, TruncateBlocks, OpenFile
<1>2. /\ bm' = Truncate(bm) /\ file' = [file EXCEPT !.block = TruncateFile(file.block, bm')]
      /\ step' = "reset" /\ mode' = mode /\ stable' = stable /\ new_header' = new_header
      /\ meta_block' = meta_block /\ segment' = segment /\ rows' = rows
  BY DEF TruncateBlocks, GoTo
<1>3. /\ file' \in [header : [0..1 -> Header], block : {file'.block}]
      /\ file'.header = file.header /\ C = TruncateFile(B, bm')
  BY <1>2 DEF FInv, FileTypes
<1>4. CutOff(bm, BlocksOf(P), UsedBy(seg), bm')
  <2>1. /\ IsManager(bm)
        /\ Accounts(BlocksOf(P), bm.free_list, UsedBy(seg), bm.max_block)
    BY <1>1 DEF Settled
  <2> QED
    BY <1>2, <2>1, TruncatesFree
<1>5. DOMAIN C = BlockId /\ \A b \in BlocksOf(P) \cup UsedBy(seg) : C[b] = B[b]
  <2>1. BlocksOf(P) \subseteq BlockId /\ UsedBy(seg) \subseteq BlockId
    BY <1>1, StoredParts DEF BlocksOf, PartSet
  <2>2. \A b \in BlocksOf(P) \cup UsedBy(seg) : b < bm'.max_block
    BY <1>4 DEF CutOff
  <2> QED
    BY <1>3, <2>1, <2>2 DEF TruncateFile
<1>6. /\ Stored(h, seg, Free(h, B), C)
      /\ Seg(h, C) = seg /\ Free(h, C) = Free(h, B)
  <2>1. Stored(h, seg, Free(h, B), C)
    BY <1>1, <1>5, StoredSame
  <2> QED
    BY <2>1, StoredParts
<1>7. Held(h, C, stable.block)
  BY <1>1, <1>6 DEF Held
<1>8. Settled(h, C, bm', segment)
  <2>1. Agrees(bm', P, C)
    <3> SUFFICES ASSUME NEW p \in P PROVE bm'.blocks[p[1]].content[p[2]] = Part(C, p)
      BY DEF Agrees
    <3>1. p[1] \in BlocksOf(P)
      BY DEF BlocksOf
    <3>2. bm.blocks[p[1]].content[p[2]] = Part(B, p)
      BY <1>1 DEF Settled, Agrees
    <3>3. bm'.blocks = bm.blocks
      BY <1>4 DEF CutOff
    <3> QED
      BY <1>5, <3>1, <3>2, <3>3 DEF Part
  <2>2. Occupies(bm', P) /\ Releases(bm', P)
    BY <1>1, <1>4 DEF Settled, CutOff, Occupies, Releases
  <2> QED
    BY <1>1, <1>4, <1>6, <2>1, <2>2 DEF Settled, CutOff
<1>9. /\ Active(file') = h /\ Active(stable') = h
      /\ bm'.active_header = ActiveHeader(file'.header)
      /\ file'.header = stable'.header
  BY <1>1, <1>2, <1>3, <1>4 DEF Active, CutOff
<1>10. FileTypes'
  BY <1>1, <1>2, <1>3, <1>5 DEF FInv, FileTypes, Steps
<1>11. HeadersClose'
  BY <1>9 DEF HeadersClose
<1>12. OpenFile'
  BY <1>2, <1>8, <1>9 DEF OpenFile
<1> QED
  BY <1>2, <1>7, <1>9, <1>10, <1>11, <1>12 DEF FInv

\* A crash leaves one of the two headers and, of the blocks, any mixture.
LEMMA CrashLeaves ==
  ASSUME FInv, Crash
  PROVE  /\ file' \in [header : [0..1 -> Header], block : {file'.block}]
         /\ DOMAIN file'.block = BlockId /\ stable' = file'
         /\ \E h \in {Active(file), Active(stable)} :
               /\ Active(file') = h
               /\ Seg(h, file'.block) = Seg(h, file.block)
               /\ Held(h, file'.block, file'.block)
<1>1. PICK image \in FileImages : file' = image /\ stable' = image
  BY DEF Crash
<1>3. PICK H \in SUBSET {k \in 0..1 : file.header[k] # stable.header[k]},
           K \in SUBSET {b \in BlockId : file.block[b] # stable.block[b]} :
         image = [header |-> [k \in 0..1 |-> IF k \in H THEN file.header[k] ELSE stable.header[k]],
                  block  |-> [b \in BlockId |-> IF b \in K THEN file.block[b] ELSE stable.block[b]]]
  BY DEF FileImages
<1>4. /\ file.header \in [0..1 -> Header] /\ stable.header \in [0..1 -> Header]
  BY DEF FInv, FileTypes
<1>5. /\ image.header = [k \in 0..1 |-> IF k \in H THEN file.header[k] ELSE stable.header[k]]
      /\ image.block  = [b \in BlockId |-> IF b \in K THEN file.block[b] ELSE stable.block[b]]
      /\ image \in [header : {image.header}, block : {image.block}]
  BY <1>3
<1>6. /\ image.header \in [0..1 -> Header] /\ DOMAIN image.block = BlockId
      /\ \A b \in BlockId : image.block[b] = file.block[b] \/ image.block[b] = stable.block[b]
  BY <1>4, <1>5
<1>7. image.header = file.header \/ image.header = stable.header
  <2>1. PICK i \in 0..1 : file.header[i] = stable.header[i]
    BY DEF FInv, HeadersClose
  <2>2. CASE 1 - i \in H
    BY <1>4, <1>5, <2>1, <2>2
  <2>3. CASE 1 - i \notin H
    BY <1>4, <1>5, <2>1, <2>3
  <2> QED
    BY <2>2, <2>3
<1>8. Active(image) = Active(file) \/ Active(image) = Active(stable)
  BY <1>7 DEF Active
<1>9. ASSUME NEW h, Held(h, file.block, stable.block)
      PROVE  Held(h, image.block, image.block) /\ Seg(h, image.block) = Seg(h, file.block)
  <2>1. CASE h = EmptyHeader
    BY <2>1, NoCheckpoint DEF Held
  <2>2. CASE h # EmptyHeader
    <3> DEFINE seg == Seg(h, file.block)
               free == Free(h, file.block)
    <3>1. Stored(h, seg, free, file.block) /\ Stored(h, seg, free, stable.block)
      BY <1>9, <2>2 DEF Held
    <3>2. Stored(h, seg, free, image.block)
      BY <1>6, <3>1, StoredMix
    <3>3. Seg(h, image.block) = seg /\ Free(h, image.block) = free
      BY <3>2, StoredParts
    <3> QED
      BY <3>2, <3>3 DEF Held
  <2> QED
    BY <2>1, <2>2
<1>10. \E h \in {Active(file), Active(stable)} :
          /\ Active(image) = h
          /\ Seg(h, image.block) = Seg(h, file.block)
          /\ Held(h, image.block, image.block)
  BY <1>8, <1>9 DEF FInv
<1>11. image \in [header : [0..1 -> Header], block : {image.block}]
  BY <1>5, <1>6
<1> QED
  BY <1>1, <1>6, <1>10, <1>11

LEMMA CrashFInv == FInv /\ Crash => FInv'
<1> SUFFICES ASSUME FInv, Crash PROVE FInv'
  OBVIOUS
<1>1. /\ file' \in [header : [0..1 -> Header], block : {file'.block}]
      /\ DOMAIN file'.block = BlockId /\ stable' = file'
      /\ Held(Active(file'), file'.block, file'.block)
  BY CrashLeaves
<1>2. /\ mode' = "down" /\ step' = "idle" /\ new_header' = new_header /\ rows' = rows
  BY DEF Crash, Done
<1>3. FileTypes'
  BY <1>1, <1>2 DEF FInv, FileTypes, Steps
<1>4. HeadersClose'
  BY <1>1 DEF HeadersClose
<1> QED
  BY <1>1, <1>2, <1>3, <1>4 DEF FInv

\* The second pass of the replay adds to the counts of the rows.
LEMMA ReplayType ==
  ASSUME wal \in Seq(WalEntry), NEW c \in Content
  PROVE  Replay(c) \in Content
<1>1. PICK n \in 0..Len(wal) : Replay(c) = Replayed(c, wal, FlushTo(wal, n))
  BY ReadableLogs
<1>2. n \in Nat /\ FlushTo(wal, n) \in Nat
  BY FlushToType
<1> QED
  BY <1>1, <1>2, ReplayedType

\* A restart finds the table of the last checkpoint and replays the log on it.
LEMMA LoadOpens ==
  ASSUME FInv, LoadDatabase
  PROVE  /\ mode' = "open" /\ bm' = LoadManager(file)
         /\ segment' = Seg(Active(file), file.block)
         /\ rows' = Restored /\ Base(Active(file)) \in Content
<1> DEFINE h == Active(file)
           B == file.block
           seg == Seg(h, B)
           table == TableAt(file, h.meta_block)
<1>1. file.header \in [0..1 -> Header] /\ mode = "down"
  BY DEF FInv, FileTypes, LoadDatabase
<1>2. h = EmptyHeader \/ Stored(h, seg, Free(h, B), B)
  BY DEF FInv, Held
<1>3. /\ table = seg /\ table # Empty /\ seg.rows \in Content
      /\ h.free_list # INVALID_BLOCK => PartAt(B, h.free_list).type = "free_list"
  <2>1. CASE h = EmptyHeader
    <3>1. table = NoTable /\ seg = NoTable /\ h.free_list = INVALID_BLOCK
      BY <2>1, NoCheckpoint DEF TableAt
    <3>2. NoTable # Empty
      <4>1. DOMAIN NoTable = {"block", "rows"} /\ DOMAIN Empty = {"type"}
        BY DEF NoTable, Empty
      <4> QED
        BY <4>1
    <3> QED
      BY <3>1, <3>2, NoCheckpoint DEF IsSegment
  <2>2. CASE Stored(h, seg, Free(h, B), B)
    BY <2>2, TableFound DEF Stored, IsSegment
  <2> QED
    BY <1>2, <2>1, <2>2
<1>4. /\ mode' = "open" /\ bm' = LoadManager(file) /\ segment' = seg
      /\ rows' = IF AlreadyCheckpointed(h.meta_block) THEN seg.rows ELSE Replay(seg.rows)
  <2> HIDE DEF B
  <2>1. ~ (table = Empty \/ (h.free_list # INVALID_BLOCK
                                /\ PartAt(file.block, h.free_list).type # "free_list"))
    BY <1>3 DEF B
  <2> QED
    BY <1>3, <2>1 DEF LoadDatabase, Active
<1> QED
  BY <1>3, <1>4 DEF Restored, Base

LEMMA LoadDatabaseFInv == FInv /\ LogTypes /\ LoadDatabase => FInv'
<1> SUFFICES ASSUME FInv, LogTypes, LoadDatabase PROVE FInv'
  OBVIOUS
<1> DEFINE h == Active(file)
           B == file.block
           seg == Seg(h, B)
<1>1. file.header \in [0..1 -> Header] /\ mode = "down"
  BY DEF FInv, FileTypes, LoadDatabase
<1>2. h = EmptyHeader \/ Stored(h, seg, Free(h, B), B)
  BY DEF FInv, Held
<1>3. /\ mode' = "open" /\ bm' = LoadManager(file) /\ segment' = seg
      /\ rows' = Restored /\ Base(h) \in Content
  BY LoadOpens
<1>4. stable' = file /\ file' = file /\ step' = step /\ new_header' = EmptyHeader
  BY DEF LoadDatabase
<1>5. rows' \in Content
  BY <1>3, ReplayType DEF LogTypes, WalTypes, Restored
<1>6. Settled(h, B, bm', seg) /\ bm'.active_header = ActiveHeader(file.header)
  BY <1>1, <1>2, <1>3, LoadsManager DEF Active
<1>7. step = "idle"
  BY <1>1 DEF FInv, FileTypes
<1>8. FileTypes'
  BY <1>3, <1>4, <1>5, <1>7, NoCheckpoint DEF FInv, FileTypes
<1>9. HeadersClose'
  BY <1>4 DEF HeadersClose
<1>10. OpenFile'
  BY <1>3, <1>4, <1>6, <1>7 DEF OpenFile
<1>11. Held(h, B, B)
  BY <1>2 DEF Held
<1> QED
  BY <1>3, <1>4, <1>8, <1>9, <1>10, <1>11 DEF FInv
-----------------------------------------------------------------------------
(* Every step keeps the types.                                             *)

LEMMA InitTypes == Init => LogTypes /\ SkipTypes /\ ManagerTypes
<1> SUFFICES ASSUME Init PROVE LogTypes /\ SkipTypes /\ ManagerTypes
  OBVIOUS
<1>1. wal \in Seq(WalEntry) /\ Len(wal) = 0
  BY DEF Init
<1>2. LogTypes
  BY <1>1 DEF Init, LogTypes, WalTypes, WorkTypes, SizeTypes, Outcome
<1>5. SkipTypes
  BY Zenon DEF Init, SkipTypes
<1>3. /\ bm.max_block = 0 /\ bm.free_list = {} /\ bm.modified_blocks = {}
      /\ DOMAIN bm.blocks = {} /\ DOMAIN bm.modified = {}
  BY DEF Init, NewManager, NoBlocks
<1>4. segment.block = INVALID_BLOCK
  BY DEF Init, NoTable
<1> QED
  BY <1>2, <1>3, <1>4, <1>5, BlockConstants DEF ManagerTypes

\* The managers of an open database are within the file.
LEMMA OpenManager == FInv /\ mode = "open" => ManagerTypes
<1> SUFFICES ASSUME FInv, mode = "open" PROVE ManagerTypes
  OBVIOUS
<1>1. OpenFile /\ step \in Steps
  BY DEF FInv, FileTypes
<1>2. ASSUME NEW h, NEW B, Settled(h, B, bm, segment),
             h = EmptyHeader \/ Stored(h, Seg(h, B), Free(h, B), B)
      PROVE  ManagerTypes
  <2>1. segment.block \in BlockId \cup {INVALID_BLOCK}
    BY <1>2, NoCheckpoint DEF Settled, Stored, IsSegment
  <2>2. DOMAIN bm.blocks = BlocksOf(Parts(h)) /\ DOMAIN bm.modified = BlocksOf(Parts(h))
    BY <1>2 DEF Settled, Occupies, Releases
  <2>3. bm.max_block \in 0..MaxBlock
    BY <1>2 DEF Settled, IsManager
  <2> QED
    BY <1>2, <2>1, <2>2, <2>3 DEF Settled, Accounts, ManagerTypes
<1>3. CASE step \in Early
  <2>1. Settled(Active(file), file.block, bm, segment)
    BY <1>1, <1>3 DEF OpenFile, Early
  <2> QED
    BY <1>2, <2>1 DEF FInv, Held
<1>4. CASE step \in Middle
  <2> DEFINE h == Active(file)
             R == Parts(h) \cup {meta_block}
  <2>1. Writing(h, file.block, bm, segment, meta_block)
    BY <1>1, <1>4 DEF OpenFile, Middle
  <2>2. segment.block \in BlockId \cup {INVALID_BLOCK}
    BY <2>1 DEF Writing, IsSegment
  <2>3. DOMAIN bm.blocks = BlocksOf(R) /\ DOMAIN bm.modified = BlocksOf(Parts(h))
    BY <2>1 DEF Writing, Occupies, Releases
  <2>4. BlocksOf(Parts(h)) \subseteq BlocksOf(R)
    BY DEF BlocksOf
  <2>5. bm.max_block \in 0..MaxBlock
    BY <2>1 DEF Writing, IsManager
  <2>6. Accounts(BlocksOf(R), bm.free_list, UsedBy(segment) \cup bm.modified_blocks, bm.max_block)
    BY <2>1 DEF Writing
  <2> HIDE DEF R, h
  <2> QED
    BY <2>2, <2>3, <2>4, <2>5, <2>6 DEF Accounts, ManagerTypes
<1>5. CASE step \in {"sync_blocks", "header", "sync_header", "truncate"}
  BY <1>1, <1>2, <1>5 DEF OpenFile
<1> QED
  BY <1>1, <1>3, <1>4, <1>5 DEF Steps, Early, Middle

LEMMA ManagerTypesNext ==
  ASSUME FInv, ManagerTypes, FInv', Next
  PROVE  ManagerTypes'
<1>1. CASE mode' = "open"
  <2>1. (FInv /\ mode = "open" => ManagerTypes)'
    BY OpenManager, PTL
  <2> QED
    BY <1>1, <2>1
<1>2. CASE UNCHANGED <<bm, segment>>
  BY <1>2 DEF ManagerTypes
<1>3. mode' = "open" \/ UNCHANGED <<bm, segment>>
  <2>1. step # "idle" => mode = "open"
    BY DEF FInv, FileTypes
  <2>2. CASE \/ \E t \in Txn, checkpoint \in BOOLEAN : WriteToWAL(t, checkpoint)
             \/ FlushCommit \/ SyncLog \/ SkipLog \/ CommitFails \/ Checkpoint \/ Close
             \/ WriteCheckpoint \/ SyncMarker \/ ResetWAL \/ CheckpointFails \/ Crash
    BY <2>2 DEF WriteToWAL, FlushCommit, SyncLog, SkipLog, CommitFails, Checkpoint, Close,
        WriteCheckpoint, SyncMarker, ResetWAL, CheckpointFails, Crash, storage
  <2>3. CASE \/ WriteTables \/ FlushFreeList \/ SyncBlocks \/ WriteHeader \/ SyncHeader
             \/ TruncateBlocks
    BY <2>1, <2>3 DEF WriteTables, FlushFreeList, SyncBlocks, WriteHeader, SyncHeader,
        TruncateBlocks
  <2>4. CASE LoadDatabase
    <3>1. mode' = "open" \/ (mode' = "unreadable" /\ UNCHANGED <<bm, segment>>)
      BY <2>4 DEF LoadDatabase
    <3> QED
      BY <3>1
  <2> QED
    BY <2>2, <2>3, <2>4 DEF Next
<1> QED
  BY <1>1, <1>2, <1>3

LEMMA WorkTypesNext ==
  ASSUME FInv, LogTypes, FInv', Next
  PROVE  WorkTypes'
<1>0. WorkTypes /\ step \in Steps /\ mode' # "unreadable" /\ (mode = "down" => step = "idle")
  BY DEF LogTypes, FInv, FileTypes
<1>c. Nobody \notin Txn /\ Nobody # Checkpointer /\ Nobody # Closer
  BY RecoveryConstants
<1>1. ASSUME NEW t \in Txn, NEW checkpoint \in BOOLEAN, WriteToWAL(t, checkpoint)
      PROVE  WorkTypes'
  BY <1>0, <1>1, <1>c DEF WriteToWAL, WorkTypes, Outcome
<1>2. CASE FlushCommit
  BY <1>0, <1>2 DEF FlushCommit, GoTo, WorkTypes
<1>3. CASE SyncLog
  BY <1>0, <1>3 DEF SyncLog, Done, WorkTypes, Outcome
<1>4. CASE SkipLog
  BY <1>0, <1>4 DEF SkipLog, GoTo, WorkTypes
<1>5. CASE CommitFails
  BY <1>0, <1>5 DEF CommitFails, Done, WorkTypes, Outcome
<1>6. CASE Checkpoint \/ Close
  BY <1>0, <1>6, <1>c DEF Checkpoint, Close, WorkTypes
<1>7. CASE WriteCheckpoint
  BY <1>0, <1>7 DEF WriteCheckpoint, GoTo, WorkTypes
<1>8. CASE SyncMarker
  BY <1>0, <1>8 DEF SyncMarker, GoTo, WorkTypes
<1>9. CASE WriteTables \/ FlushFreeList
  BY <1>0, <1>9 DEF WriteTables, FlushFreeList, GoTo, WorkTypes
<1>10. CASE SyncBlocks \/ SyncHeader \/ WriteHeader \/ TruncateBlocks
  BY <1>0, <1>10 DEF SyncBlocks, SyncHeader, WriteHeader, TruncateBlocks, GoTo, WorkTypes
<1>11. CASE ResetWAL
  BY <1>0, <1>11 DEF ResetWAL, Done, WorkTypes, Outcome
<1>12. CASE CheckpointFails
  BY <1>0, <1>12 DEF CheckpointFails, Done, WorkTypes
<1>13. CASE Crash
  BY <1>0, <1>13 DEF Crash, Done, WorkTypes
<1>14. CASE LoadDatabase
  <2>1. mode = "down" /\ worker' = worker /\ step' = step
        /\ \E c : outcome' = [t \in Txn |-> Learn(t, c)]
    BY <1>0, <1>14 DEF LoadDatabase
  <2>2. \A t \in Txn : \A c : Learn(t, c) \in Outcome
    BY <1>0 DEF Learn, WorkTypes, Outcome
  <2>3. outcome' \in [Txn -> Outcome]
    BY <2>1, <2>2
  <2> QED
    BY <1>0, <2>1, <2>3 DEF WorkTypes
<1> QED
  BY <1>1, <1>2, <1>3, <1>4, <1>5, <1>6, <1>7, <1>8, <1>9, <1>10, <1>11, <1>12, <1>13, <1>14
     DEF Next

\* The log of a step that leaves it and the size before the commit alone.
LEMMA LogUntouched ==
  ASSUME WalTypes, SizeTypes, UNCHANGED <<wal, wal_synced, initial_wal_size>>,
         step' \in {"flush", "sync_log"} => step \in {"flush", "sync_log"}
  PROVE  WalTypes' /\ SizeTypes'
BY DEF WalTypes, SizeTypes

LEMMA LogLength == \A w \in Seq(WalEntry) : Len(w) \in Nat /\ Len(w) \in 0..Len(w)
<1> SUFFICES ASSUME NEW w \in Seq(WalEntry) PROVE Len(w) \in Nat /\ Len(w) \in 0..Len(w)
  OBVIOUS
<1> DEFINE n == Len(w)
<1>1. n \in Nat
  OBVIOUS
<1> HIDE DEF n
<1>2. n \in 0..n
  BY <1>1
<1> QED
  BY <1>1, <1>2 DEF n

\* A log that is on disk to its end, with no commit that writes to it.
LEMMA LogSynced ==
  ASSUME SizeTypes, wal' \in Seq(WalEntry), wal_synced' = Len(wal'),
         initial_wal_size' \in Nat, step' \notin {"flush", "sync_log"}
  PROVE  WalTypes' /\ SizeTypes'
<1>1. wal_synced' \in 0..Len(wal')
  BY LogLength, Zenon
<1> QED
  BY <1>1 DEF WalTypes, SizeTypes

LEMMA LogTypesNext ==
  ASSUME FInv, LogTypes, FInv', Next
  PROVE  LogTypes'
<1>w. WorkTypes'
  BY WorkTypesNext
<1> SUFFICES WalTypes' /\ SizeTypes'
  BY <1>w DEF LogTypes
<1> DEFINE N == Len(wal)
<1>0. WalTypes /\ SizeTypes
  BY DEF LogTypes
<1>n. wal \in Seq(WalEntry) /\ N \in Nat /\ wal_synced \in 0..N
  BY <1>0 DEF WalTypes
<1>1. ASSUME NEW t \in Txn, NEW checkpoint \in BOOLEAN, WriteToWAL(t, checkpoint)
      PROVE  WalTypes' /\ SizeTypes'
  <2>1. wal' \in Seq(WalEntry) /\ (Len(wal') = N \/ Len(wal') = N + 2)
    <3>1. CASE checkpoint
      BY <1>n, <1>1, <3>1 DEF WriteToWAL
    <3>2. CASE ~ checkpoint
      <4>1. wal' = wal \o <<Entry(<<t, 1>>), Entry(<<t, 2>>)>>
        BY <1>1, <3>2 DEF WriteToWAL, LogOf
      <4>2. Entry(<<t, 1>>) \in WalEntry /\ Entry(<<t, 2>>) \in WalEntry
        BY EntryKinds
      <4> QED
        BY <1>n, <4>1, <4>2, TwoMore
    <3> QED
      BY <3>1, <3>2
  <2>2. initial_wal_size' = N /\ wal_synced' = wal_synced
    BY <1>1 DEF WriteToWAL
  <2> HIDE DEF N
  <2>3. wal_synced' \in 0..Len(wal') /\ initial_wal_size' \in Nat
        /\ initial_wal_size' \in wal_synced'..Len(wal')
    BY <1>n, <2>1, <2>2
  <2> QED
    BY <2>1, <2>3 DEF WalTypes, SizeTypes
<1>2. CASE FlushCommit
  <2>1. /\ wal' = Append(wal, Flush) /\ step = "flush"
        /\ wal_synced' = wal_synced /\ initial_wal_size' = initial_wal_size
    BY <1>2 DEF FlushCommit, commit
  <2>2. wal' \in Seq(WalEntry) /\ Len(wal') = N + 1
    BY <1>n, <2>1, OneMore, EntryKinds
  <2>3. initial_wal_size \in Nat /\ initial_wal_size \in wal_synced..N
    BY <1>0, <2>1 DEF SizeTypes
  <2> HIDE DEF N
  <2>4. wal_synced' \in 0..Len(wal') /\ initial_wal_size' \in Nat
        /\ initial_wal_size' \in wal_synced'..Len(wal')
    BY <1>n, <2>1, <2>2, <2>3
  <2> QED
    BY <2>2, <2>4 DEF WalTypes, SizeTypes
<1>3. CASE SyncLog
  <2>1. wal' = wal /\ wal_synced' = Len(wal') /\ initial_wal_size' = initial_wal_size
        /\ step' = "idle"
    BY <1>3 DEF SyncLog, Done, commit
  <2>2. wal' \in Seq(WalEntry) /\ initial_wal_size' \in Nat
    BY <1>0, <2>1 DEF WalTypes, SizeTypes
  <2> QED
    BY <1>0, <2>1, <2>2, LogSynced
<1>4. CASE CommitFails
  <2>1. /\ wal' = SubSeq(wal, 1, initial_wal_size) /\ step' = "idle"
        /\ wal_synced' = wal_synced /\ initial_wal_size' = initial_wal_size
        /\ step \in {"flush", "sync_log"}
    BY <1>4 DEF CommitFails, Done
  <2>2. initial_wal_size \in Nat /\ initial_wal_size \in wal_synced..N
    BY <1>0, <2>1 DEF SizeTypes
  <2>3. initial_wal_size \in 0..Len(wal)
    BY <1>n, <2>2
  <2>4. wal' \in Seq(WalEntry) /\ Len(wal') = initial_wal_size
    BY <1>n, <2>1, <2>3, Prefix
  <2> HIDE DEF N
  <2>5. wal_synced' = wal_synced
    BY <2>1
  <2>6. wal_synced' \in 0..Len(wal')
    BY <1>n, <2>2, <2>4, <2>5
  <2> QED
    BY <2>1, <2>2, <2>4, <2>6 DEF WalTypes, SizeTypes
<1>5. CASE WriteCheckpoint
  <2>1. /\ step = "marker" /\ step' \notin {"flush", "sync_log"}
        /\ wal_synced' = wal_synced /\ initial_wal_size' = initial_wal_size
        /\ wal' = wal \/ wal' = wal \o <<Marker(meta_block), Flush>>
    BY <1>5 DEF WriteCheckpoint, GoTo, commit
  <2>2. meta_block \in BlockId \X Index
    BY <2>1 DEF FInv, FileTypes, OpenFile, Writing
  <2>3. wal' \in Seq(WalEntry) /\ (Len(wal') = N \/ Len(wal') = N + 2)
    <3>1. CASE wal' = wal
      BY <1>n, <3>1
    <3>2. CASE wal' = wal \o <<Marker(meta_block), Flush>>
      <4>1. Marker(meta_block) \in WalEntry /\ Flush \in WalEntry
        BY <2>2, EntryKinds
      <4> QED
        BY <1>n, <3>2, <4>1, TwoMore
    <3> QED
      BY <2>1, <3>1, <3>2
  <2>4. initial_wal_size' \in Nat
    BY <1>0, <2>1 DEF SizeTypes
  <2> HIDE DEF N
  <2>5. wal_synced' = wal_synced
    BY <2>1
  <2>6. wal_synced' \in 0..Len(wal')
    BY <1>n, <2>3, <2>5
  <2> QED
    BY <2>1, <2>3, <2>4, <2>6 DEF WalTypes, SizeTypes
<1>6. CASE SyncMarker
  <2>1. wal' = wal /\ wal_synced' = Len(wal') /\ initial_wal_size' = initial_wal_size
        /\ step' = "free_list"
    BY <1>6 DEF SyncMarker, GoTo, commit
  <2>2. wal' \in Seq(WalEntry) /\ initial_wal_size' \in Nat
    BY <1>0, <2>1 DEF WalTypes, SizeTypes
  <2> QED
    BY <1>0, <2>1, <2>2, LogSynced
<1>7. CASE SkipLog \/ Checkpoint \/ Close \/ CheckpointFails
  <2>1. UNCHANGED <<wal, wal_synced, initial_wal_size>>
    BY <1>7 DEF SkipLog, Checkpoint, Close, CheckpointFails, log, commit
  <2>2. step' \in {"flush", "sync_log"} => step \in {"flush", "sync_log"}
    BY <1>7 DEF SkipLog, Checkpoint, Close, CheckpointFails, GoTo, Done
  <2> QED
    BY <1>0, <2>1, <2>2, LogUntouched
<1>8. CASE WriteTables \/ FlushFreeList \/ SyncBlocks \/ SyncHeader \/ WriteHeader \/ TruncateBlocks
  <2>1. UNCHANGED <<wal, wal_synced, initial_wal_size>>
    BY <1>8 DEF WriteTables, FlushFreeList, SyncBlocks, SyncHeader, WriteHeader, TruncateBlocks,
                log, commit
  <2>2. step' \in {"flush", "sync_log"} => step \in {"flush", "sync_log"}
    BY <1>8 DEF WriteTables, FlushFreeList, SyncBlocks, SyncHeader, WriteHeader, TruncateBlocks, GoTo
  <2> QED
    BY <1>0, <2>1, <2>2, LogUntouched
<1>9. CASE ResetWAL
  <2>1. wal' = <<>> /\ wal_synced' = 0 /\ step' = "idle" /\ initial_wal_size' = initial_wal_size
    BY <1>9 DEF ResetWAL, Done, commit
  <2>2. wal' \in Seq(WalEntry) /\ wal_synced' = Len(wal')
    BY <2>1
  <2>3. initial_wal_size' \in Nat
    BY <1>0, <2>1 DEF SizeTypes
  <2> QED
    BY <1>0, <2>1, <2>2, <2>3, LogSynced
<1>10. CASE Crash
  <2>1. PICK image \in LogImages : wal' = image /\ wal_synced' = Len(image)
    BY <1>10 DEF Crash
  <2>2. step' = "idle" /\ initial_wal_size' = initial_wal_size
    BY <1>10 DEF Crash, Done
  <2>3. wal' \in Seq(WalEntry)
    <3>1. CASE \E n \in wal_synced..Len(wal) : image = SubSeq(wal, 1, n)
      BY <1>n, <2>1, <3>1, Prefix
    <3>2. CASE \E n \in wal_synced..Len(wal) - 1 : image = Append(SubSeq(wal, 1, n), Torn)
      <4>1. PICK n \in wal_synced..Len(wal) - 1 : image = Append(SubSeq(wal, 1, n), Torn)
        BY <3>2
      <4>2. SubSeq(wal, 1, n) \in Seq(WalEntry)
        BY <1>n, Prefix
      <4> QED
        BY <2>1, <4>1, <4>2, OneMore, EntryKinds
    <3> QED
      BY <3>1, <3>2 DEF LogImages
  <2>4. wal_synced' = Len(wal') /\ initial_wal_size' \in Nat
    BY <1>0, <2>1, <2>2 DEF SizeTypes
  <2> QED
    BY <1>0, <2>2, <2>3, <2>4, LogSynced
<1>11. CASE LoadDatabase
  <2>1. mode' # "unreadable" /\ mode = "down" /\ step = "idle"
    BY <1>11 DEF FInv, FileTypes, LoadDatabase
  <2>2. /\ wal' = wal \/ wal' = <<>>
        /\ wal_synced' = Len(wal')
        /\ initial_wal_size' = 0 /\ step' = step
    BY <1>11, <2>1 DEF LoadDatabase
  <2>3. wal' \in Seq(WalEntry)
    <3>1. CASE wal' = wal
      BY <1>n, <3>1
    <3>2. CASE wal' = <<>>
      BY <3>2
    <3> QED
      BY <2>2, <3>1, <3>2
  <2> QED
    BY <1>0, <2>1, <2>2, <2>3, LogSynced
<1> QED
  BY <1>1, <1>2, <1>3, <1>4, <1>5, <1>6, <1>7, <1>8, <1>9, <1>10, <1>11 DEF Next

\* Only WriteToWAL sets skip_writing, and every end of FlushCommit resets it.
LEMMA SkipTypesNext ==
  ASSUME SkipTypes, Next
  PROVE  SkipTypes'
<1>0. skip_writing \in BOOLEAN
  BY DEF SkipTypes
<1>1. CASE step' = "flush"
  <2>1. skip_writing' \in BOOLEAN
    <3>1. ASSUME NEW t \in Txn, NEW checkpoint \in BOOLEAN, WriteToWAL(t, checkpoint)
          PROVE  skip_writing' \in BOOLEAN
      BY <3>1, Zenon DEF WriteToWAL
    <3>2. ASSUME ~ \E t \in Txn, checkpoint \in BOOLEAN : WriteToWAL(t, checkpoint)
          PROVE  skip_writing' \in BOOLEAN
      <4>1. skip_writing' = skip_writing \/ skip_writing' = FALSE
        BY <3>2, Zenon DEF Next, FlushCommit, SyncLog, SkipLog, CommitFails, Checkpoint, Close,
           WriteTables, WriteCheckpoint, SyncMarker, FlushFreeList, SyncBlocks, WriteHeader,
           SyncHeader, TruncateBlocks, ResetWAL, CheckpointFails, Crash, LoadDatabase, commit
      <4> QED
        BY <1>0, <4>1, Zenon
    <3> QED
      BY <3>1, <3>2, Zenon
  <2> QED
    BY <1>1, <2>1, Zenon DEF SkipTypes
<1>2. CASE step' # "flush"
  <2>1. skip_writing' = FALSE \/ (skip_writing' = skip_writing /\ step # "flush")
    <3>1. CASE \/ \E t \in Txn, checkpoint \in BOOLEAN : WriteToWAL(t, checkpoint)
               \/ SkipLog \/ CommitFails \/ Crash
      BY <1>2, <3>1, Zenon DEF WriteToWAL, SkipLog, CommitFails, Crash
    <3>2. CASE FlushCommit
      BY <1>0, <3>2, Zenon DEF FlushCommit, commit
    <3>3. CASE \/ SyncLog \/ Checkpoint \/ WriteTables \/ WriteCheckpoint \/ SyncMarker
               \/ FlushFreeList \/ SyncBlocks \/ WriteHeader \/ SyncHeader \/ TruncateBlocks
               \/ ResetWAL \/ CheckpointFails
      <4>1. skip_writing' = skip_writing
        BY <3>3, Zenon DEF SyncLog, Checkpoint, WriteTables, WriteCheckpoint, SyncMarker,
           FlushFreeList, SyncBlocks, WriteHeader, SyncHeader, TruncateBlocks, ResetWAL,
           CheckpointFails, commit
      <4>2. step # "flush"
        BY <3>3 DEF SyncLog, Checkpoint, WriteTables, WriteCheckpoint, SyncMarker,
           FlushFreeList, SyncBlocks, WriteHeader, SyncHeader, TruncateBlocks, ResetWAL,
           CheckpointFails, Checkpointing
      <4> QED
        BY <4>1, <4>2
    <3>4. CASE Close
      <4>1. skip_writing' = skip_writing
        BY <3>4, Zenon DEF Close, commit
      <4>2. step = "idle"
        BY <3>4 DEF Close
      <4> QED
        BY <4>1, <4>2
    <3>5. CASE LoadDatabase
      <4>1. skip_writing' = skip_writing /\ step' = step
        BY <3>5, Zenon DEF LoadDatabase
      <4> QED
        BY <1>2, <4>1
    <3> QED
      BY <3>1, <3>2, <3>3, <3>4, <3>5 DEF Next
  <2>2. skip_writing' = FALSE
    BY <1>0, <2>1, Zenon DEF SkipTypes
  <2> QED
    BY <2>2, Zenon DEF SkipTypes
<1> QED
  BY <1>1, <1>2

\* Every step preserves FInv, if a database with a fatal error is not closed with
\* a checkpoint.
LEMMA NextFInv ==
  ASSUME CheckpointOnShutdown \subseteq {"open"}, FInv, LogTypes, Next
  PROVE  FInv'
<1>0. /\ mode \in {"open", "invalid", "down"} /\ step \in Steps /\ (mode # "open" => step = "idle")
      /\ rows \in Content
  BY DEF FInv, FileTypes
<1>1. ASSUME NEW t \in Txn, NEW checkpoint \in BOOLEAN, WriteToWAL(t, checkpoint)
      PROVE  FInv'
  <2>1. /\ mode' = mode /\ mode = "open" /\ step = "idle" /\ step' = "flush" /\ rows' = rows
        /\ UNCHANGED storage
    BY <1>1 DEF WriteToWAL
  <2> QED
    BY <1>0, <2>1, FileUntouched DEF Steps, Early
<1>2. CASE FlushCommit \/ Checkpoint
  <2>1. /\ mode' = mode /\ mode = "open" /\ step \in Early /\ step' \in Early /\ rows' = rows
        /\ UNCHANGED storage
    BY <1>2 DEF FlushCommit, GoTo, Checkpoint, Early
  <2> QED
    BY <1>0, <2>1, FileUntouched DEF Steps, Early
<1>3. CASE SyncLog \/ SkipLog \/ CommitFails
  <2>1. /\ mode' = mode /\ mode = "open" /\ step \in Early /\ step' \in Early
        /\ rows' = rows \/ rows' = AddRows(rows, RowsOf(worker))
        /\ UNCHANGED storage
    BY <1>3 DEF SyncLog, SkipLog, CommitFails, GoTo, Done, Early
  <2>2. rows' \in Content
    BY <1>0, <2>1, AddRowsType
  <2> QED
    BY <1>0, <2>1, <2>2, FileUntouched DEF Steps, Early
<1>4. CASE Close
  <2>1. /\ mode = "open" /\ step = "idle" /\ rows' = rows /\ UNCHANGED storage
    BY <1>4 DEF Close
  <2>2. (mode' = mode /\ step' = "tables") \/ (mode' = "down" /\ step' = step)
    BY <1>4 DEF Close
  <2> QED
    BY <1>0, <2>1, <2>2, FileUntouched DEF Steps, Early
<1>5. CASE WriteCheckpoint \/ SyncMarker
  <2>1. /\ mode' = mode /\ step \in Middle /\ step' \in Middle /\ rows' = rows /\ UNCHANGED storage
    BY <1>5 DEF WriteCheckpoint, SyncMarker, GoTo, Middle
  <2> QED
    BY <1>0, <2>1, FileUntouched DEF Steps, Middle
<1>6. CASE ResetWAL
  <2>1. /\ mode' \in {"down", mode} /\ step = "reset" /\ step' = "idle" /\ rows' = rows
        /\ UNCHANGED storage
    BY <1>6 DEF ResetWAL, Done
  <2> QED
    BY <1>0, <2>1, FileUntouched DEF Steps, Early
<1>7. CASE CheckpointFails
  <2>1. mode' = "invalid" /\ step' = "idle" /\ rows' = rows /\ UNCHANGED storage
    BY <1>7 DEF CheckpointFails, Done
  <2> QED
    BY <1>0, <2>1, FileUntouched DEF Steps
<1> QED
  BY <1>1, <1>2, <1>3, <1>4, <1>5, <1>6, <1>7, WriteTablesFInv, FlushFreeListFInv, SyncBlocksFInv,
     WriteHeaderFInv, SyncHeaderFInv, TruncateFInv, CrashFInv, LoadDatabaseFInv DEF Next

LEMMA NextTInv ==
  ASSUME CheckpointOnShutdown \subseteq {"open"}, TInv, [Next]_vars
  PROVE  TInv'
<1>1. CASE Next
  <2>1. FInv /\ LogTypes /\ SkipTypes /\ ManagerTypes
    BY DEF TInv
  <2>2. FInv'
    BY <1>1, <2>1, NextFInv
  <2> QED
    BY <1>1, <2>1, <2>2, LogTypesNext, SkipTypesNext, ManagerTypesNext DEF TInv
<1>2. CASE UNCHANGED vars
  BY <1>2 DEF vars, TInv, FInv, FileTypes, HeadersClose, OpenFile, LogTypes, WalTypes, WorkTypes,
     SizeTypes, SkipTypes, ManagerTypes
<1> QED
  BY <1>1, <1>2

LEMMA TypesHold ==
  ASSUME CheckpointOnShutdown \subseteq {"open"}
  PROVE  Spec => []TInv
<1>1. Init => TInv
  BY InitFInv, InitTypes DEF TInv
<1>2. TInv /\ [Next]_vars => TInv'
  BY NextTInv
<1> QED
  BY <1>1, <1>2, PTL DEF Spec
-----------------------------------------------------------------------------
(* The theorems about the file.                                            *)

\* Every state of a database whose fatal errors end in a crash, and not in a
\* checkpoint on shutdown, is of its types: among others the log is synced up to
\* one of its entries, and the block and metadata managers (free_list,
\* modified_blocks, blocks, modified_blocks of the metadata manager) stay below
\* max_block.
THEOREM RecoveryTypeOK ==
  ASSUME CheckpointOnShutdown \subseteq {"open"}
  PROVE  Spec => []TypeOK
<1>1. ASSUME TInv PROVE TypeOK
  <2>1. FInv /\ LogTypes /\ SkipTypes /\ ManagerTypes
    BY <1>1 DEF TInv
  <2>2. \A n \in DOMAIN wal : wal[n].type \in {"insert", "checkpoint", "flush", "torn"}
    <3>1. wal \in Seq(WalEntry)
      BY <2>1 DEF LogTypes, WalTypes
    <3>2. \A n \in DOMAIN wal : wal[n] \in WalEntry
      BY <3>1
    <3> QED
      BY <3>2, EntryKinds
  <2>3. wal_synced \in 0..Len(wal)
    BY <2>1 DEF LogTypes, WalTypes
  <2>4. /\ worker \in Txn \cup {Nobody, Checkpointer, Closer}
        /\ (worker = Nobody) = (step = "idle")
        /\ \A t \in Txn : outcome[t] \in {"none", "unknown", "committed", "failed", "lost"}
    BY <2>1 DEF LogTypes, WorkTypes, Outcome
  <2>5. skip_writing => step = "flush"
    BY <2>1, Zenon DEF SkipTypes
  <2>6. /\ mode \in {"open", "invalid", "down", "unreadable"}
        /\ \A f \in {file, stable} : f.header \in [0..1 -> Header] /\ DOMAIN f.block = BlockId
        /\ new_header \in Header
    BY <2>1 DEF FInv, FileTypes
  <2>7. /\ bm.max_block \in 0..MaxBlock
        /\ bm.free_list \cup bm.modified_blocks \cup DOMAIN bm.blocks \subseteq 0..bm.max_block - 1
        /\ DOMAIN bm.modified \subseteq DOMAIN bm.blocks
        /\ segment.block \in BlockId \cup {INVALID_BLOCK}
    BY <2>1 DEF ManagerTypes
  <2> QED
    BY <2>2, <2>3, <2>4, <2>5, <2>6, <2>7, Zenon DEF TypeOK
<1> QED
  BY <1>1, TypesHold, PTL

\* What is stored for a header can be read: the pointers of the header lead to the
\* root and to the free list of its own iteration, and from there to the table.
LEMMA StoredIntact ==
  ASSUME NEW h, NEW seg, NEW free, NEW f, Stored(h, seg, free, f.block)
  PROVE  Intact(h, f)
<1>1. /\ PartAt(f.block, h.meta_block) = RootPart(h.iteration, seg)
      /\ PartAt(f.block, h.free_list) = ListPart(h.iteration, free, Parts(h))
  BY Pointers DEF Stored, PartAt, Part, Parts, IsMetadata
<1>2. seg.block # INVALID_BLOCK => f.block[seg.block] = [type |-> "table", rows |-> seg.rows]
  BY DEF Stored, TableBlock
<1>3. /\ RootPart(h.iteration, seg).type = "root"
      /\ RootPart(h.iteration, seg).iteration = h.iteration
      /\ RootPart(h.iteration, seg).segment = seg
      /\ ListPart(h.iteration, free, Parts(h)).type = "free_list"
      /\ ListPart(h.iteration, free, Parts(h)).iteration = h.iteration
  BY DEF RootPart, ListPart
<1> QED
  BY <1>1, <1>2, <1>3 DEF Intact

\* At every moment, also in the middle of a checkpoint and after a crash, the
\* checkpoint that a restart would find (in the file as it was written, or as it was
\* at the last Sync) is complete: WriteHeader switches to a header only after the
\* first Sync, and the blocks of the old checkpoint are reused only after the
\* second.
THEOREM CheckpointStaysIntact ==
  ASSUME CheckpointOnShutdown \subseteq {"open"}
  PROVE  Spec => []CheckpointIntact
<1>1. ASSUME TInv PROVE CheckpointIntact
  <2> SUFFICES ASSUME NEW f \in {file, stable}, NEW g \in {file, stable}
               PROVE  Intact(f.header[ActiveHeader(f.header)], g)
    BY DEF CheckpointIntact
  <2>1. Held(Active(f), file.block, stable.block)
    BY <1>1 DEF TInv, FInv
  <2>2. CASE Active(f) = EmptyHeader
    BY <2>2 DEF Active, EmptyHeader, Intact
  <2>3. CASE Active(f) # EmptyHeader
    <3>1. \E seg, free : Stored(Active(f), seg, free, g.block)
      BY <2>1, <2>3 DEF Held
    <3> QED
      BY <3>1, StoredIntact DEF Active
  <2> QED
    BY <2>2, <2>3
<1> QED
  BY <1>1, TypesHold, PTL

\* Between checkpoints each block below max_block is a metadata block, the table's
\* block or in free_list, and only one of these: neither a failed commit nor a
\* restart after a crash in the middle of a checkpoint loses blocks or gives one
\* to two owners.
THEOREM BlocksStayAccounted ==
  ASSUME CheckpointOnShutdown \subseteq {"open"}
  PROVE  Spec => []BlocksAccounted
<1>1. ASSUME TInv PROVE BlocksAccounted
  <2> SUFFICES ASSUME mode = "open", ~ Checkpointing
               PROVE  /\ (DOMAIN bm.blocks \cup UsedBy(segment)) \cap bm.free_list = {}
                      /\ segment.block \notin DOMAIN bm.blocks
                      /\ (DOMAIN bm.blocks \cup UsedBy(segment)) \cup bm.free_list
                            = 0..bm.max_block - 1
    BY DEF BlocksAccounted, UsedBy
  <2> DEFINE P == Parts(Active(file))
  <2>1. Settled(Active(file), file.block, bm, segment)
    BY <1>1 DEF TInv, FInv, OpenFile, Checkpointing
  <2>2. /\ DOMAIN bm.blocks = BlocksOf(P)
        /\ Accounts(BlocksOf(P), bm.free_list, UsedBy(segment), bm.max_block)
    BY <2>1 DEF Settled, Occupies
  <2>3. segment.block = INVALID_BLOCK => segment.block \notin 0..bm.max_block - 1
    BY BlockConstants
  <2> HIDE DEF P
  <2> QED
    BY <2>2, <2>3 DEF Accounts, UsedBy
<1> QED
  BY <1>1, TypesHold, PTL
-----------------------------------------------------------------------------
(* What a replay adds, and what stays good.                                *)

\* The table of a checkpoint is the same in the file and in its last Sync.
LEMMA HeldSeg ==
  ASSUME NEW h, NEW B, NEW C, Held(h, B, C)
  PROVE  Seg(h, B) = Seg(h, C) /\ IsSegment(Seg(h, B)) /\ Seg(h, B).rows \in Content
<1>1. Seg(h, B) = Seg(h, C) /\ IsSegment(Seg(h, B))
  <2>1. CASE h = EmptyHeader
    BY <2>1, NoCheckpoint
  <2>2. CASE h # EmptyHeader
    <3>1. Stored(h, Seg(h, B), Free(h, B), B) /\ Stored(h, Seg(h, B), Free(h, B), C)
      BY <2>2 DEF Held
    <3>2. Seg(h, C) = Seg(h, B)
      BY <3>1, StoredParts
    <3>3. IsSegment(Seg(h, B))
      BY <3>1 DEF Stored
    <3> QED
      BY <3>2, <3>3
  <2> QED
    BY <2>1, <2>2
<1>2. Seg(h, B).rows \in Content
  BY <1>1 DEF IsSegment
<1> QED
  BY <1>1, <1>2

\* Good counts stay good when something is learnt of t that agrees with them.
LEMMA GoodChange ==
  ASSUME NEW c, NEW out, NEW out2, NEW t \in Txn, Good(c, out),
         \A u \in Txn : u # t => out2[u] = out[u],
         \/ out2[t] = "unknown"
         \/ out2[t] = "committed" /\ c[<<t, 1>>] = 1
         \/ out2[t] \in {"none", "failed", "lost"} /\ c[<<t, 1>>] = 0
  PROVE  Good(c, out2)
<1> SUFFICES ASSUME NEW u \in Txn
             PROVE  /\ \E n \in {0, 1} : \A r \in RowsOf(u) : c[r] = n
                    /\ out2[u] = "committed" => c[<<u, 1>>] = 1
                    /\ out2[u] \in {"none", "failed", "lost"} => c[<<u, 1>>] = 0
  BY DEF Good
<1>1. /\ \E n \in {0, 1} : \A r \in RowsOf(u) : c[r] = n
      /\ out[u] = "committed" => c[<<u, 1>>] = 1
      /\ out[u] \in {"none", "failed", "lost"} => c[<<u, 1>>] = 0
  BY DEF Good
<1>2. CASE u = t
  BY <1>1, <1>2
<1>3. CASE u # t
  BY <1>1, <1>3
<1> QED
  BY <1>2, <1>3

\* The rows of t are counted once more, those of the others as before.
LEMMA AddedRows ==
  ASSUME NEW c \in Content, NEW t \in Txn
  PROVE  /\ \A r \in RowsOf(t) : AddRows(c, RowsOf(t))[r] = c[r] + 1
         /\ \A u \in Txn : \A r \in RowsOf(u) : u # t => AddRows(c, RowsOf(t))[r] = c[r]
<1>1. DOMAIN c = Txn \X {1, 2} /\ \A r \in Txn \X {1, 2} : c[r] \in Nat
  BY DEF Content
<1>2. \A u \in Txn : RowsOf(u) \subseteq Txn \X {1, 2}
  BY DEF RowsOf
<1>3. \A u \in Txn : u # t => RowsOf(u) \cap RowsOf(t) = {}
  BY DEF RowsOf
<1> HIDE DEF RowsOf
<1>4. \A r \in Txn \X {1, 2} :
         AddRows(c, RowsOf(t))[r] = c[r] + (IF r \in RowsOf(t) THEN 1 ELSE 0)
  BY <1>1 DEF AddRows
<1>5. ASSUME NEW r \in RowsOf(t) PROVE AddRows(c, RowsOf(t))[r] = c[r] + 1
  BY <1>2, <1>4
<1>6. ASSUME NEW u \in Txn, NEW r \in RowsOf(u), u # t PROVE AddRows(c, RowsOf(t))[r] = c[r]
  <2>1. r \in Txn \X {1, 2} /\ r \notin RowsOf(t)
    BY <1>2, <1>3, <1>6
  <2>2. c[r] + 0 = c[r]
    BY <1>1, <2>1
  <2> QED
    BY <1>4, <2>1, <2>2
<1> QED
  BY <1>5, <1>6

\* A transaction that was not there is added, and is known to be there or not yet.
LEMMA GoodAdded ==
  ASSUME NEW c \in Content, NEW t \in Txn, NEW out, Good(c, out), \A r \in RowsOf(t) : c[r] = 0,
         NEW out2, \A u \in Txn : u # t => out2[u] = out[u], out2[t] \in {"unknown", "committed"}
  PROVE  Good(AddRows(c, RowsOf(t)), out2)
<1> DEFINE d == AddRows(c, RowsOf(t))
<1>1. /\ \A r \in RowsOf(t) : d[r] = c[r] + 1
      /\ \A u \in Txn : \A r \in RowsOf(u) : u # t => d[r] = c[r]
  BY AddedRows
<1>2. \A u : <<u, 1>> \in RowsOf(u)
  BY DEF RowsOf
<1> HIDE DEF d
<1> SUFFICES ASSUME NEW u \in Txn
             PROVE  /\ \E n \in {0, 1} : \A r \in RowsOf(u) : d[r] = n
                    /\ out2[u] = "committed" => d[<<u, 1>>] = 1
                    /\ out2[u] \in {"none", "failed", "lost"} => d[<<u, 1>>] = 0
  BY DEF Good, d
<1>3. /\ \E n \in {0, 1} : \A r \in RowsOf(u) : c[r] = n
      /\ out[u] = "committed" => c[<<u, 1>>] = 1
      /\ out[u] \in {"none", "failed", "lost"} => c[<<u, 1>>] = 0
  BY DEF Good
<1>4. CASE u = t
  <2>1. \A r \in RowsOf(u) : d[r] = 1
    BY <1>1, <1>4
  <2> QED
    BY <1>2, <1>4, <2>1
<1>5. CASE u # t
  <2>1. \A r \in RowsOf(u) : d[r] = c[r]
    BY <1>1, <1>5
  <2> QED
    BY <1>2, <1>3, <1>5, <2>1
<1> QED
  BY <1>4, <1>5

\* Entries that are no markers leave it open whether the file has the log.
LEMMA SameMarkers ==
  ASSUME NEW w, NEW m \in Nat, NEW n \in Nat, m <= n,
         \A k \in m + 1..n : w[k].type # "checkpoint"
  PROVE  \A root : Clean(w, n, root) <=> Clean(w, m, root)
<1>1. \A k \in 1..n : k \in 1..m \/ k \in m + 1..n
  OBVIOUS
<1>2. \A k \in 1..m : k \in 1..n
  OBVIOUS
<1>3. Markers(w, n) = Markers(w, m)
  BY <1>1, <1>2 DEF Markers
<1> QED
  BY <1>3 DEF Clean

\* The entries of a commit add its rows once.
LEMMA CommitReplayed ==
  ASSUME NEW w, NEW m \in Nat, NEW t \in Txn, NEW c \in Content,
         w[m + 1] = Entry(<<t, 1>>), w[m + 2] = Entry(<<t, 2>>), w[m + 3] = Flush
  PROVE  /\ Replayed(c, w, m + 3) = AddRows(Replayed(c, w, m), RowsOf(t))
         /\ FlushTo(w, m + 3) = m + 3
         /\ \A root : Clean(w, m + 3, root) <=> Clean(w, m, root)
<1>0. /\ m + 3 \in Nat \ {0} /\ m <= m + 3
      /\ \A k \in m + 1..m + 3 : k = m + 1 \/ k = m + 2 \/ k = m + 3
      /\ \A k \in 1..m + 3 : k \in 1..m \/ k = m + 1 \/ k = m + 2 \/ k = m + 3
      /\ \A k \in 1..m : k \in 1..m + 3
      /\ m + 1 \in 1..m + 3 /\ m + 2 \in 1..m + 3
      /\ m + 1 \notin 1..m /\ m + 2 \notin 1..m
  OBVIOUS
<1>1. FlushTo(w, m + 3) = m + 3
  BY <1>0, FlushedToEnd
<1>2. /\ w[m + 1].type = "insert" /\ w[m + 2].type = "insert" /\ w[m + 3].type = "flush"
      /\ w[m + 1].row = <<t, 1>> /\ w[m + 2].row = <<t, 2>>
  BY EntryKinds
<1>3. \A root : Clean(w, m + 3, root) <=> Clean(w, m, root)
  <2>1. \A k \in m + 1..m + 3 : w[k].type # "checkpoint"
    BY <1>0, <1>2
  <2> QED
    BY <1>0, <2>1, SameMarkers
<1>4. ASSUME NEW r \in Txn \X {1, 2}
      PROVE  Cardinality(Inserts(w, m + 3, r))
                = Cardinality(Inserts(w, m, r)) + (IF r \in RowsOf(t) THEN 1 ELSE 0)
  <2>0. Entry(r).type = "insert" /\ Entry(r).row = r
    BY EntryKinds
  <2>f. IsFiniteSet(Inserts(w, m, r)) /\ Cardinality(Inserts(w, m, r)) \in Nat
    BY InsertsFinite
  <2>1. CASE r = <<t, 1>>
    <3>1. Inserts(w, m + 3, r) = Inserts(w, m, r) \cup {m + 1}
      BY <1>0, <1>2, <2>0, <2>1 DEF Inserts
    <3>2. m + 1 \notin Inserts(w, m, r)
      BY <1>0 DEF Inserts
    <3>3. r \in RowsOf(t)
      BY <2>1 DEF RowsOf
    <3> QED
      BY <2>f, <3>1, <3>2, <3>3, FS_AddElement
  <2>2. CASE r = <<t, 2>>
    <3>1. Inserts(w, m + 3, r) = Inserts(w, m, r) \cup {m + 2}
      BY <1>0, <1>2, <2>0, <2>2 DEF Inserts
    <3>2. m + 2 \notin Inserts(w, m, r)
      BY <1>0 DEF Inserts
    <3>3. r \in RowsOf(t)
      BY <2>2 DEF RowsOf
    <3> QED
      BY <2>f, <3>1, <3>2, <3>3, FS_AddElement
  <2>3. CASE r # <<t, 1>> /\ r # <<t, 2>>
    <3>1. w[m + 1] # Entry(r) /\ w[m + 2] # Entry(r) /\ w[m + 3] # Entry(r)
      BY <1>2, <2>0, <2>3
    <3>2. \A k \in m + 1..m + 3 : w[k] # Entry(r)
      BY <1>0, <3>1
    <3>3. Inserts(w, m + 3, r) = Inserts(w, m, r)
      BY <1>0, <3>2, SameInserts
    <3>4. r \notin RowsOf(t)
      BY <2>3 DEF RowsOf
    <3> QED
      BY <2>f, <3>3, <3>4
  <2> QED
    BY <2>1, <2>2, <2>3
<1>5. Replayed(c, w, m + 3) = AddRows(Replayed(c, w, m), RowsOf(t))
  <2>1. \A r \in Txn \X {1, 2} : c[r] \in Nat
    BY DEF Content
  <2>2. \A r : Cardinality(Inserts(w, m, r)) \in Nat
    BY InsertsFinite
  <2>3. ASSUME NEW r \in Txn \X {1, 2}
        PROVE  c[r] + Cardinality(Inserts(w, m + 3, r))
                = (c[r] + Cardinality(Inserts(w, m, r))) + (IF r \in RowsOf(t) THEN 1 ELSE 0)
    BY <1>4, <2>1, <2>2
  <2>4. AddRows(Replayed(c, w, m), RowsOf(t))
          = [r \in Txn \X {1, 2} |->
                (c[r] + Cardinality(Inserts(w, m, r))) + (IF r \in RowsOf(t) THEN 1 ELSE 0)]
    BY DEF AddRows, Replayed
  <2> QED
    BY <2>3, <2>4 DEF Replayed
<1> QED
  BY <1>1, <1>3, <1>5

\* A marker and its flush entry say which checkpoint has the log, and add nothing.
LEMMA MarkerAdded ==
  ASSUME NEW w, NEW m \in Nat, NEW q, w[m + 1] = Marker(q), w[m + 2] = Flush
  PROVE  /\ FlushTo(w, m + 1) = FlushTo(w, m) /\ FlushTo(w, m + 2) = m + 2
         /\ \A root : Clean(w, m + 1, root) <=> root = q
         /\ \A root : Clean(w, m + 2, root) <=> root = q
         /\ \A c : Replayed(c, w, m + 2) = Replayed(c, w, m)
<1>0. /\ m + 2 \in Nat \ {0} /\ m <= m + 2 /\ m + 1 \in Nat /\ m + 1 <= m + 2
      /\ \A k \in m + 1..m + 2 : k = m + 1 \/ k = m + 2
      /\ \A k \in 1..m + 1 : k \in 1..m \/ k = m + 1
      /\ \A k \in (m + 1) + 1..m + 2 : k = m + 2
      /\ \A k \in 1..m : k \in 1..m + 1
      /\ m + 1 \in 1..m + 1
  OBVIOUS
<1>1. w[m + 1].type = "checkpoint" /\ w[m + 1].meta_block = q /\ w[m + 2].type = "flush"
  BY EntryKinds
<1>2. FlushTo(w, m + 2) = m + 2
  BY <1>0, FlushedToEnd
<1>3. FlushTo(w, m + 1) = FlushTo(w, m)
  <2>1. {k \in 1..m + 1 : w[k].type = "flush"} = {k \in 1..m : w[k].type = "flush"}
    BY <1>0, <1>1
  <2> QED
    BY <2>1 DEF FlushTo
<1>4. \A root : Clean(w, m + 1, root) <=> root = q
  <2>1. Markers(w, m + 1) \in SUBSET (0..m + 1) /\ m + 1 \in Markers(w, m + 1)
    BY <1>0, <1>1 DEF Markers
  <2>2. Max(Markers(w, m + 1)) \in Markers(w, m + 1) /\ m + 1 <= Max(Markers(w, m + 1))
    BY <1>0, <2>1, MaxIsGreatest
  <2>3. Max(Markers(w, m + 1)) \in 0..m + 1
    BY <2>1, <2>2
  <2>4. Max(Markers(w, m + 1)) = m + 1
    BY <1>0, <2>2, <2>3
  <2> QED
    BY <1>1, <2>1, <2>4 DEF Clean
<1>5. \A root : Clean(w, m + 2, root) <=> Clean(w, m + 1, root)
  <2>1. \A k \in (m + 1) + 1..m + 2 : w[k].type # "checkpoint"
    BY <1>0, <1>1
  <2> QED
    BY <1>0, <2>1, SameMarkers
<1>6. \A r : Inserts(w, m + 2, r) = Inserts(w, m, r)
  <2> SUFFICES ASSUME NEW r PROVE Inserts(w, m + 2, r) = Inserts(w, m, r)
    OBVIOUS
  <2>1. Entry(r).type = "insert"
    BY EntryKinds
  <2>2. \A k \in m + 1..m + 2 : w[k] # Entry(r)
    BY <1>0, <1>1, <2>1
  <2> QED
    BY <1>0, <2>2, SameInserts
<1> QED
  BY <1>2, <1>3, <1>4, <1>5, <1>6 DEF Replayed
-----------------------------------------------------------------------------
(* Crashes.                                                                *)

\* The lengths that the steps of LogInfo speak of.
LEMMA LogNumbers ==
  ASSUME LogTypes
  PROVE  /\ wal \in Seq(WalEntry) /\ Len(wal) \in Nat /\ wal_synced \in 0..Len(wal)
         /\ initial_wal_size \in Nat
         /\ step \in {"flush", "sync_log"} =>
               worker \in Txn /\ initial_wal_size \in wal_synced..Len(wal)
         /\ outcome \in [Txn -> Outcome]
<1>1. WalTypes /\ WorkTypes /\ SizeTypes
  BY DEF LogTypes
<1>2. wal \in Seq(WalEntry) /\ wal_synced \in 0..Len(wal)
  BY <1>1 DEF WalTypes
<1>3. Len(wal) \in Nat
  BY <1>2, LogLength
<1> QED
  BY <1>1, <1>2, <1>3 DEF WorkTypes, SizeTypes

\* A log that can be replayed as a whole gives a good restart.
LEMMA ReplayableGood ==
  ASSUME NEW h, NEW n, Replayable(h, n)
  PROVE  Good(Recovered(h, n), outcome)
BY DEF Replayable, Recovered

\* So does an empty log, and one that the checkpoint has completely.
LEMMA CheckpointGood ==
  ASSUME NEW h, Base(h) \in Content, Good(Base(h), outcome), NEW n,
         n = 0 \/ Clean(wal, n, h.meta_block)
  PROVE  Good(Recovered(h, n), outcome)
<1>1. CASE Clean(wal, n, h.meta_block)
  BY <1>1 DEF Recovered
<1>2. CASE n = 0 /\ ~ Clean(wal, n, h.meta_block)
  BY <1>2, EmptyLog DEF Recovered
<1> QED
  BY <1>1, <1>2

\* In the middle of a commit: the restart shows all of it, or nothing.
LEMMA CommitSafe ==
  ASSUME FInv, LogTypes, MemoryInfo, LogInfo, step \in {"flush", "sync_log"},
         NEW n \in Nat, wal_synced <= n, n <= Len(wal)
  PROVE  Good(Recovered(Active(file), n), outcome)
<1> DEFINE h == Active(file)
           I == initial_wal_size
           N == Len(wal)
<1>0. CommitLog
  BY DEF LogInfo
<1>1. /\ wal_synced = I /\ Replayable(h, I) /\ rows = Replayed(Base(h), wal, I)
      /\ \/ N = I
         \/ /\ N = I + (IF step = "flush" THEN 2 ELSE 3)
            /\ wal[I + 1] = Entry(<<worker, 1>>)
            /\ wal[I + 2] = Entry(<<worker, 2>>)
      /\ step = "sync_log" => wal[N] = Flush
  BY <1>0, Zenon DEF CommitLog, Logged
<1>2. I \in Nat /\ N \in Nat /\ worker \in Txn
  BY LogNumbers
<1>3. Base(h) \in Content
  BY HeldSeg DEF FInv, Base
<1>4. CASE n = I
  BY <1>1, <1>4, ReplayableGood
<1>5. CASE n # I
  <2>0. n \in Nat /\ n > I /\ n <= N
    <3>1. I <= n /\ n <= N
      BY <1>1
    <3> HIDE DEF I, N
    <3> QED
      BY <1>2, <1>5, <3>1
  <2>1. /\ N = I + (IF step = "flush" THEN 2 ELSE 3)
        /\ wal[I + 1] = Entry(<<worker, 1>>) /\ wal[I + 2] = Entry(<<worker, 2>>)
    <3>1. N # I
      <4> HIDE DEF I, N
      <4> QED
        BY <1>2, <2>0
    <3> QED
      BY <1>1, <3>1
  <2>2. CASE n <= I + 2
    <3>1. \A k \in I + 1..n : k = I + 1 \/ k = I + 2
      <4> HIDE DEF I
      <4> QED
        BY <1>2, <2>0, <2>2
    <3>2. \A k \in I + 1..n : wal[k].type = "insert"
      BY <2>1, <3>1, EntryKinds
    <3>3. FlushTo(wal, n) = FlushTo(wal, I) /\ \A root : Clean(wal, n, root) <=> Clean(wal, I, root)
      <4>1. I <= n
        BY <1>2, <2>0
      <4> HIDE DEF I
      <4> QED
        BY <1>2, <2>0, <3>2, <4>1, LongerLog
    <3>4. Recovered(h, n) = Recovered(h, I)
      BY <3>3 DEF Recovered
    <3> QED
      BY <1>1, <3>4, ReplayableGood
  <2>3. CASE ~ (n <= I + 2)
    <3>1. step # "flush" /\ n = I + 3 /\ N = I + 3
      <4> HIDE DEF I, N
      <4> QED
        BY <1>2, <2>0, <2>1, <2>3
    <3>2. wal[I + 3] = Flush
      BY <1>1, <3>1
    <3> HIDE DEF I, h, N
    <3>3. /\ Replayed(Base(h), wal, n) = AddRows(rows, RowsOf(worker))
          /\ FlushTo(wal, n) = n
          /\ \A root : Clean(wal, n, root) <=> Clean(wal, I, root)
      BY <1>1, <1>2, <1>3, <2>1, <3>1, <3>2, CommitReplayed
    <3>4. Recovered(h, n) = AddRows(rows, RowsOf(worker))
      BY <1>1, <3>3 DEF Recovered, Replayable
    <3>5. Good(AddRows(rows, RowsOf(worker)), outcome)
      <4>1. /\ rows \in Content /\ Good(rows, outcome) /\ outcome[worker] = "unknown"
            /\ \A r \in RowsOf(worker) : rows[r] = 0
        BY DEF FInv, FileTypes, MemoryInfo
      <4> QED
        BY <1>2, <4>1, GoodAdded
    <3> QED
      BY <3>4, <3>5 DEF h
  <2> QED
    BY <2>2, <2>3
<1> QED
  BY <1>4, <1>5

\* The root of the checkpoint that is being written is not that of the last one.
LEMMA NewRoot ==
  ASSUME FInv, mode = "open", step \in Middle
  PROVE  meta_block # Active(file).meta_block
<1>1. Writing(Active(file), file.block, bm, segment, meta_block)
  BY DEF FInv, OpenFile, Middle
<1>2. meta_block \in BlockId \X Index /\ meta_block \notin Parts(Active(file))
  BY <1>1 DEF Writing
<1> QED
  BY <1>2, Pointers DEF Parts

\* In the middle of writing the marker: the log is replayed.
LEMMA MarkerSafe ==
  ASSUME FInv, LogTypes, mode = "open", LogInfo, step = "sync_marker",
         NEW n \in Nat, wal_synced <= n, n <= Len(wal)
  PROVE  Good(Recovered(Active(file), n), outcome)
<1> DEFINE h == Active(file)
           N == Len(wal)
           m == N - 2
<1>1. /\ N > 2 /\ wal_synced = m /\ Replayable(h, m)
      /\ wal[N - 1] = Marker(meta_block) /\ wal[N] = Flush
  BY DEF LogInfo
<1>2. N \in Nat
  BY LogNumbers
<1>3. m \in Nat /\ N - 1 = m + 1 /\ N = m + 2 /\ (n = m \/ n = m + 1 \/ n = m + 2)
  <2>1. m <= n /\ n <= N
    BY <1>1
  <2> HIDE DEF N
  <2> QED
    BY <1>1, <1>2, <2>1
<1>4. wal[m + 1] = Marker(meta_block) /\ wal[m + 2] = Flush
  <2> HIDE DEF N, m
  <2> QED
    BY <1>1, <1>3
<1>5. meta_block # h.meta_block
  BY NewRoot DEF Middle
<1> HIDE DEF h, N, m
<1>6. /\ FlushTo(wal, m + 1) = FlushTo(wal, m) /\ FlushTo(wal, m + 2) = m + 2
      /\ ~ Clean(wal, m + 1, h.meta_block) /\ ~ Clean(wal, m + 2, h.meta_block)
      /\ Replayed(Base(h), wal, m + 2) = Replayed(Base(h), wal, m)
  BY <1>3, <1>4, <1>5, MarkerAdded
<1>7. Recovered(h, m + 1) = Recovered(h, m) /\ Recovered(h, m + 2) = Recovered(h, m)
  BY <1>1, <1>6 DEF Recovered, Replayable
<1>8. Good(Recovered(h, m), outcome)
  BY <1>1, ReplayableGood
<1> QED
  BY <1>3, <1>7, <1>8 DEF h

\* Whenever it happens, a crash of a database without tail ends in a good restart.
LEMMA OpenCrashSafe ==
  ASSUME FInv, LogTypes, mode = "open", MemoryInfo, LogInfo
  PROVE  CrashSafe
<1> DEFINE h == Active(file)
           N == Len(wal)
<1>0. N \in Nat /\ step \in Steps
  BY LogNumbers DEF FInv, FileTypes
<1>1. \A k \in 1..N : wal[k] # Torn
  BY DEF LogInfo
<1>2. ASSUME NEW g \in {Active(file), Active(stable)}, NEW n \in Nat, wal_synced <= n, n <= N
      PROVE  Good(Recovered(g, n), outcome)
  <2>0. step \notin {"flush", "sync_log", "sync_marker"} => n = N
    <3>1. step \notin {"flush", "sync_log", "sync_marker"} => wal_synced = N
      BY DEF LogInfo
    <3> HIDE DEF N
    <3> QED
      BY <1>0, <1>2, <3>1
  <2>1. CASE step \in {"idle", "tables", "marker", "free_list", "sync_blocks", "header"}
    <3>1. g = h
      BY <2>1 DEF FInv, OpenFile, Active
    <3>2. Replayable(h, N)
      BY <2>1 DEF LogInfo
    <3> QED
      BY <2>0, <2>1, <3>1, <3>2, ReplayableGood
  <2>2. CASE step \in {"flush", "sync_log"}
    <3>1. g = h
      BY <2>2 DEF FInv, OpenFile, Active
    <3> QED
      BY <1>2, <2>2, <3>1, CommitSafe
  <2>3. CASE step = "sync_marker"
    <3>1. g = h
      BY <2>3 DEF FInv, OpenFile, Active
    <3> QED
      BY <1>2, <2>3, <3>1, MarkerSafe
  <2>4. CASE step \in {"sync_header", "truncate", "reset"} /\ g = h
    <3>1. Base(h) = rows
      <4>1. segment = Seg(h, file.block)
        BY <2>4 DEF FInv, OpenFile, Settled
      <4>2. segment.rows = rows
        BY <2>4 DEF MemoryInfo
      <4> QED
        BY <4>1, <4>2 DEF Base
    <3>2. Base(h) \in Content /\ Good(Base(h), outcome)
      BY <3>1 DEF FInv, FileTypes, MemoryInfo
    <3>3. h.meta_block = meta_block
      BY <2>4 DEF MemoryInfo
    <3>4. wal = <<>> \/ Clean(wal, N, meta_block)
      BY <2>4 DEF LogInfo
    <3>5. n = 0 \/ Clean(wal, n, h.meta_block)
      <4>1. wal = <<>> => N = 0
        OBVIOUS
      <4> QED
        BY <2>0, <2>4, <3>3, <3>4, <4>1
    <3> QED
      BY <2>4, <3>2, <3>5, CheckpointGood
  <2>5. CASE step = "sync_header" /\ g = Active(stable)
    <3>1. Replayable(g, N)
      BY <2>5 DEF LogInfo
    <3> QED
      BY <2>0, <2>5, <3>1, ReplayableGood
  <2>6. CASE step \in {"truncate", "reset"} /\ g = Active(stable)
    <3>1. g = h
      BY <2>6 DEF FInv, OpenFile, Active
    <3> QED
      BY <2>4, <2>6, <3>1
  <2> QED
    BY <1>0, <2>1, <2>2, <2>3, <2>4, <2>5, <2>6 DEF Steps
<1>3. \A n \in wal_synced..N : n \in Nat /\ wal_synced <= n /\ n <= N
  <2>1. wal_synced \in 0..N
    BY LogNumbers
  <2> HIDE DEF N
  <2> QED
    BY <1>0, <2>1
<1> QED
  BY <1>1, <1>2, <1>3 DEF CrashSafe
-----------------------------------------------------------------------------
(* Restarts.                                                               *)

LEMMA RestartFound == FInv /\ LogTypes => \E n \in 0..Len(wal) : Reads(n)
<1> SUFFICES ASSUME FInv, LogTypes PROVE \E n \in 0..Len(wal) : Reads(n)
  OBVIOUS
<1>1. Base(Active(file)) \in Content
  BY HeldSeg DEF FInv, Base
<1>2. wal \in Seq(WalEntry)
  BY LogNumbers
<1>3. PICK n \in 0..Len(wal) :
            /\ \A k \in 1..n : wal[k] # Torn
            /\ n < Len(wal) => wal[n + 1] = Torn
            /\ Committed = FlushTo(wal, n)
            /\ \A root : AlreadyCheckpointed(root) <=> Clean(wal, n, root)
            /\ \A c \in Content : Replay(c) = Replayed(c, wal, FlushTo(wal, n))
  BY <1>2, ReadableLogs
<1>4. Restored = Recovered(Active(file), n)
  BY <1>1, <1>3 DEF Restored, Recovered
<1> QED
  BY <1>3, <1>4 DEF Reads

\* What is restored depends on the entries that are read and on the table.
LEMMA SameRecovered ==
  ASSUME NEW h, NEW n \in Nat, \A k \in 1..n : wal'[k] = wal[k],
         Seg(h, file'.block) = Seg(h, file.block)
  PROVE  Recovered(h, n)' = Recovered(h, n)
<1>1. Base(h)' = Base(h)
  BY DEF Base
<1>2. FlushTo(wal', n) = FlushTo(wal, n) /\ FlushTo(wal, n) \in 0..n
  BY SamePrefix, FlushToType
<1>3. Clean(wal', n, h.meta_block) <=> Clean(wal, n, h.meta_block)
  BY SamePrefix
<1>4. Replayed(Base(h), wal', FlushTo(wal, n)) = Replayed(Base(h), wal, FlushTo(wal, n))
  BY <1>2, SamePrefix
<1> QED
  BY <1>1, <1>2, <1>3, <1>4 DEF Recovered

\* A crash ends in a good restart.
LEMMA CrashRestart ==
  ASSUME FInv, LogTypes, FInv', LogTypes', CrashSafe, Crash
  PROVE  RestartGood'
<1>1. (FInv /\ LogTypes => \E n \in 0..Len(wal) : Reads(n))'
  BY RestartFound, PTL
<1>2. PICK n \in 0..Len(wal') : Reads(n)'
  BY <1>1
<1>3. /\ \A k \in 1..n : wal'[k] # Torn
      /\ n < Len(wal') => wal'[n + 1] = Torn
      /\ Restored' = Recovered(Active(file), n)'
  BY <1>2 DEF Reads
<1>4. PICK image \in LogImages : wal' = image
  BY DEF Crash
<1>5. wal \in Seq(WalEntry) /\ Len(wal) \in Nat /\ wal_synced \in 0..Len(wal)
  BY LogNumbers
<1>6. \A k \in 1..Len(wal) : wal[k] # Torn
  BY DEF CrashSafe
<1>7. n \in wal_synced..Len(wal) /\ \A k \in 1..n : wal'[k] = wal[k]
  <2>1. ASSUME NEW m \in wal_synced..Len(wal), image = SubSeq(wal, 1, m)
        PROVE  n \in wal_synced..Len(wal) /\ \A k \in 1..n : wal'[k] = wal[k]
    <3>1. m \in 0..Len(wal)
      BY <1>5
    <3>2. Len(wal') = m /\ \A k \in 1..m : wal'[k] = wal[k]
      BY <1>4, <1>5, <2>1, <3>1, Prefix
    <3>3. n = m
      <4>1. n \in 0..m
        BY <1>2, <3>2
      <4>2. ASSUME n < m PROVE FALSE
        <5>1. n + 1 \in 1..m /\ n + 1 \in 1..Len(wal)
          BY <1>5, <3>1, <4>1, <4>2
        <5> QED
          BY <1>3, <1>6, <3>2, <4>2, <5>1
      <4> QED
        BY <3>1, <4>1, <4>2
    <3> QED
      BY <3>2, <3>3
  <2>2. ASSUME NEW m \in wal_synced..Len(wal) - 1, image = Append(SubSeq(wal, 1, m), Torn)
        PROVE  n \in wal_synced..Len(wal) /\ \A k \in 1..n : wal'[k] = wal[k]
    <3>1. m \in 0..Len(wal) /\ m \in wal_synced..Len(wal)
      BY <1>5
    <3> DEFINE s == SubSeq(wal, 1, m)
    <3>2. s \in Seq(WalEntry) /\ Len(s) = m /\ \A k \in 1..m : s[k] = wal[k]
      BY <1>5, <3>1, Prefix
    <3>3. wal' = Append(s, Torn)
      BY <1>4, <2>2
    <3> HIDE DEF s
    <3>4. Len(wal') = m + 1 /\ \A k \in 1..m : wal'[k] = wal[k] /\ wal'[m + 1] = Torn
      BY <3>2, <3>3, OneMore, EntryKinds
    <3>5. wal'[m + 1] = Torn
      BY <3>2, <3>3, OneMore, EntryKinds
    <3>6. n = m
      <4>1. n \in 0..m + 1
        BY <1>2, <3>4
      <4>2. ASSUME n < m PROVE FALSE
        <5>1. n + 1 \in 1..m /\ n + 1 \in 1..Len(wal) /\ n < m + 1
          BY <1>5, <3>1, <4>1, <4>2
        <5> QED
          BY <1>3, <1>6, <3>4, <5>1
      <4>3. ASSUME n = m + 1 PROVE FALSE
        <5>1. m + 1 \in 1..n
          BY <3>1, <4>3
        <5> QED
          BY <1>3, <3>5, <5>1
      <4> QED
        BY <3>1, <4>1, <4>2, <4>3
    <3> QED
      BY <3>1, <3>4, <3>6
  <2> QED
    BY <1>4, <2>1, <2>2 DEF LogImages
<1>8. PICK h \in {Active(file), Active(stable)} :
         Active(file') = h /\ Seg(h, file'.block) = Seg(h, file.block)
  BY CrashLeaves
<1>9. Recovered(h, n)' = Recovered(h, n)
  <2>1. n \in Nat
    BY <1>5, <1>7
  <2> QED
    BY <1>7, <1>8, <2>1, SameRecovered
<1>10. Good(Recovered(h, n), outcome)
  BY <1>7 DEF CrashSafe
<1>11. outcome' = outcome
  BY DEF Crash
<1>12. Recovered(Active(file), n)' = Recovered(h, n)'
  BY <1>8 DEF Recovered, Base
<1> QED
  BY <1>3, <1>9, <1>10, <1>11, <1>12 DEF RestartGood
-----------------------------------------------------------------------------
(* What is in memory.                                                      *)

LEMMA CommitMemory ==
  ASSUME FInv, LogTypes, MemoryInfo,
         \/ \E t \in Txn, checkpoint \in BOOLEAN : WriteToWAL(t, checkpoint)
         \/ FlushCommit \/ SyncLog \/ SkipLog \/ CommitFails
  PROVE  MemoryInfo'
<1>0. /\ rows \in Content /\ outcome \in [Txn -> Outcome] /\ Good(rows, outcome)
      /\ step \in {"flush", "sync_log"} =>
            /\ worker \in Txn /\ outcome[worker] = "unknown"
            /\ \A r \in RowsOf(worker) : rows[r] = 0
  BY LogNumbers DEF FInv, FileTypes, MemoryInfo
<1>r. \A t : <<t, 1>> \in RowsOf(t)
  BY DEF RowsOf
<1>1. ASSUME NEW t \in Txn, NEW checkpoint \in BOOLEAN, WriteToWAL(t, checkpoint)
      PROVE  MemoryInfo'
  <2>1. /\ outcome[t] = "none" /\ outcome' = [outcome EXCEPT ![t] = "unknown"]
        /\ worker' = t /\ step' = "flush" /\ rows' = rows
    BY <1>1 DEF WriteToWAL
  <2>2. /\ \E n \in {0, 1} : \A r \in RowsOf(t) : rows[r] = n
        /\ rows[<<t, 1>>] = 0
    BY <1>0, <2>1 DEF Good
  <2>3. \A r \in RowsOf(t) : rows[r] = 0
    BY <1>r, <2>2
  <2>4. outcome'[t] = "unknown" /\ \A u \in Txn : u # t => outcome'[u] = outcome[u]
    BY <1>0, <2>1
  <2>5. Good(rows, outcome')
    BY ZenonT(60), <1>0, <2>4, GoodChange
  <2> QED
    BY <2>1, <2>3, <2>4, <2>5 DEF MemoryInfo, Checkpointing
<1>2. CASE FlushCommit
  <2>1. step = "flush" /\ step' = "sync_log" /\ UNCHANGED <<worker, rows, outcome>>
    BY <1>2 DEF FlushCommit, GoTo
  <2> QED
    BY <1>0, <2>1 DEF MemoryInfo, Checkpointing
<1>3. CASE SyncLog
  <2>1. /\ step = "sync_log" /\ step' = "idle" /\ rows' = AddRows(rows, RowsOf(worker))
        /\ outcome' = [outcome EXCEPT ![worker] = "committed"]
    BY <1>3 DEF SyncLog, Done
  <2>2. outcome'[worker] = "committed" /\ \A u \in Txn : u # worker => outcome'[u] = outcome[u]
    BY <1>0, <2>1
  <2>3. Good(AddRows(rows, RowsOf(worker)), outcome')
    <3>1. worker \in Txn /\ \A r \in RowsOf(worker) : rows[r] = 0
      BY <1>0, <2>1
    <3> QED
      BY <1>0, <2>2, <3>1, GoodAdded
  <2> QED
    BY <2>1, <2>3 DEF MemoryInfo, Checkpointing
<1>4. CASE SkipLog
  <2>1. /\ step = "flush" /\ step' = "tables" /\ rows' = AddRows(rows, RowsOf(worker))
        /\ outcome' = outcome /\ worker' = worker
    BY <1>4 DEF SkipLog, GoTo
  <2>2. Good(AddRows(rows, RowsOf(worker)), outcome)
    BY <1>0, <2>1, GoodAdded
  <2>3. \A r \in RowsOf(worker) : rows'[r] = 1
    <3>1. \A r \in RowsOf(worker) : rows'[r] = rows[r] + 1
      BY <1>0, <2>1, AddedRows
    <3> QED
      BY <1>0, <2>1, <3>1
  <2> QED
    BY <1>0, <2>1, <2>2, <2>3 DEF MemoryInfo, Checkpointing
<1>5. CASE CommitFails
  <2>1. /\ step \in {"flush", "sync_log"} /\ step' = "idle" /\ rows' = rows
        /\ outcome' = [outcome EXCEPT ![worker] = "failed"]
    BY <1>5 DEF CommitFails, Done
  <2>2. outcome'[worker] = "failed" /\ \A u \in Txn : u # worker => outcome'[u] = outcome[u]
    BY <1>0, <2>1
  <2>3. rows[<<worker, 1>>] = 0
    BY <1>0, <1>r, <2>1
  <2>4. Good(rows, outcome')
    BY <1>0, <2>1, <2>2, <2>3, GoodChange
  <2> QED
    BY <2>1, <2>4 DEF MemoryInfo, Checkpointing
<1> QED
  BY <1>1, <1>2, <1>3, <1>4, <1>5

\* A checkpoint writes the rows that are in memory, and its header leads to them.
LEMMA CheckpointMemory ==
  ASSUME FInv, LogTypes, FInv', MemoryInfo, mode = "open", mode' = "open",
         \/ Checkpoint \/ Close \/ WriteTables \/ WriteCheckpoint \/ SyncMarker \/ FlushFreeList
         \/ SyncBlocks \/ WriteHeader \/ SyncHeader \/ TruncateBlocks \/ ResetWAL
  PROVE  MemoryInfo'
<1>0. /\ outcome \in [Txn -> Outcome] /\ Good(rows, outcome)
      /\ Checkpointing /\ worker \in Txn =>
            outcome[worker] = "unknown" /\ \A r \in RowsOf(worker) : rows[r] = 1
  BY LogNumbers DEF MemoryInfo
<1>c. {Nobody, Checkpointer, Closer} \cap Txn = {}
  BY RecoveryConstants
<1>1. CASE Checkpoint \/ Close
  <2>1. worker' \notin Txn /\ step' = "tables" /\ UNCHANGED <<rows, outcome>>
    BY <1>1, <1>c DEF Checkpoint, Close
  <2> QED
    BY <1>0, <2>1 DEF MemoryInfo
<1>2. CASE WriteTables
  <2>1. step = "tables" /\ step' = "marker" /\ UNCHANGED <<worker, rows, outcome>>
    BY <1>2 DEF WriteTables, GoTo
  <2>2. segment'.rows = rows
    <3>1. \A m : WriteTable(m).segment.rows = rows
      BY DEF WriteTable
    <3>2. \E m : segment' = WriteTable(m).segment
      BY <1>2 DEF WriteTables
    <3> QED
      BY <3>1, <3>2
  <2> QED
    BY <1>0, <2>1, <2>2 DEF MemoryInfo, Checkpointing
<1>3. CASE WriteCheckpoint \/ SyncMarker
  <2>1. /\ step \in {"marker", "sync_marker"} /\ step' \in {"sync_marker", "free_list"}
        /\ UNCHANGED <<worker, rows, outcome, segment>>
    BY <1>3 DEF WriteCheckpoint, SyncMarker, GoTo, storage
  <2> QED
    BY <1>0, <2>1 DEF MemoryInfo, Checkpointing
<1>4. CASE FlushFreeList
  <2>1. step = "free_list" /\ step' = "sync_blocks"
        /\ UNCHANGED <<worker, rows, outcome, segment, meta_block>>
    BY <1>4 DEF FlushFreeList, GoTo
  <2>2. new_header'.meta_block = meta_block
    <3>1. ASSUME NEW w \in WriteFreeList(bm, meta_block)
          PROVE  w.header.meta_block = meta_block
      <4>1. \E a, b, c, d :
               w = [bm |-> a, header |-> [iteration |-> b, meta_block |-> meta_block,
                                          free_list |-> c, block_count |-> d]]
        BY Zenon DEF WriteFreeList
      <4> QED
        BY <4>1
    <3> QED
      BY <1>4, <3>1 DEF FlushFreeList
  <2> QED
    BY <1>0, <2>1, <2>2 DEF MemoryInfo, Checkpointing
<1>5. CASE SyncBlocks
  <2>1. step = "sync_blocks" /\ step' = "header"
        /\ UNCHANGED <<worker, rows, outcome, segment, meta_block, new_header>>
    BY <1>5 DEF SyncBlocks, GoTo
  <2> QED
    BY <1>0, <2>1 DEF MemoryInfo, Checkpointing
<1>6. CASE WriteHeader \/ SyncHeader
  <2>1. step \in {"header", "sync_header"} /\ step' \in {"sync_header", "truncate"}
        /\ UNCHANGED <<worker, rows, outcome, segment, meta_block, new_header>>
    BY <1>6 DEF WriteHeader, SyncHeader, GoTo
  <2>2. Active(file)' = new_header'
    BY <2>1 DEF FInv, OpenFile
  <2> QED
    BY <1>0, <2>1, <2>2 DEF MemoryInfo, Checkpointing
<1>7. CASE TruncateBlocks
  <2>1. step = "truncate" /\ step' = "reset"
        /\ UNCHANGED <<worker, rows, outcome, segment, meta_block>>
    BY <1>7 DEF TruncateBlocks, GoTo
  <2>2. file'.header = file.header
    BY <1>7 DEF TruncateBlocks, FInv, FileTypes
  <2>3. Active(file)'.meta_block = meta_block'
    BY <2>1, <2>2 DEF Active, MemoryInfo
  <2> QED
    BY <1>0, <2>1, <2>3 DEF MemoryInfo, Checkpointing
<1>8. CASE ResetWAL
  <2>1. /\ step = "reset" /\ step' = "idle" /\ rows' = rows
        /\ outcome' = IF worker \in Txn THEN [outcome EXCEPT ![worker] = "committed"] ELSE outcome
    BY <1>8 DEF ResetWAL, Done
  <2>2. Good(rows, outcome')
    <3>1. CASE worker \in Txn
      <4>1. /\ outcome'[worker] = "committed"
            /\ \A u \in Txn : u # worker => outcome'[u] = outcome[u]
        BY <1>0, <2>1, <3>1
      <4>2. rows[<<worker, 1>>] = 1
        BY <1>0, <2>1, <3>1 DEF Checkpointing, RowsOf
      <4> QED
        BY <1>0, <3>1, <4>1, <4>2, GoodChange
    <3>2. CASE worker \notin Txn
      BY <1>0, <2>1, <3>2
    <3> QED
      BY <3>1, <3>2
  <2> QED
    BY <2>1, <2>2 DEF MemoryInfo, Checkpointing
<1> QED
  BY <1>1, <1>2, <1>3, <1>4, <1>5, <1>6, <1>7, <1>8

\* A restart learns what it shows.
LEMMA LearntGood ==
  ASSUME NEW c, Good(c, outcome), NEW out, out = [t \in Txn |-> Learn(t, c)]
  PROVE  Good(c, out)
<1> SUFFICES ASSUME NEW t \in Txn
             PROVE  /\ \E n \in {0, 1} : \A r \in RowsOf(t) : c[r] = n
                    /\ out[t] = "committed" => c[<<t, 1>>] = 1
                    /\ out[t] \in {"none", "failed", "lost"} => c[<<t, 1>>] = 0
  BY DEF Good
<1>1. /\ \E n \in {0, 1} : \A r \in RowsOf(t) : c[r] = n
      /\ outcome[t] = "committed" => c[<<t, 1>>] = 1
      /\ outcome[t] \in {"none", "failed", "lost"} => c[<<t, 1>>] = 0
  BY DEF Good
<1>2. <<t, 1>> \in RowsOf(t)
  BY DEF RowsOf
<1>3. PICK n \in {0, 1} : \A r \in RowsOf(t) : c[r] = n
  BY <1>1
<1>4. {c[r] : r \in RowsOf(t)} = {n} /\ c[<<t, 1>>] = n
  BY <1>2, <1>3
<1>5. CASE outcome[t] # "unknown"
  BY <1>1, <1>5 DEF Learn
<1>6. CASE outcome[t] = "unknown" /\ n = 1
  BY <1>1, <1>4, <1>6 DEF Learn
<1>7. CASE outcome[t] = "unknown" /\ n = 0
  <2>1. {c[r] : r \in RowsOf(t)} = {0} /\ {0} # {1}
    BY <1>4, <1>7
  <2> QED
    BY <1>1, <1>4, <1>7, <2>1 DEF Learn
<1> QED
  BY <1>5, <1>6, <1>7

LEMMA LoadMemory ==
  ASSUME FInv, FInv', RestartGood, LoadDatabase
  PROVE  MemoryInfo'
<1>1. rows' = Restored /\ mode' = "open"
  BY LoadOpens
<1>2. outcome' = [t \in Txn |-> Learn(t, rows')]
  BY <1>1 DEF LoadDatabase
<1>3. step' = "idle"
  BY DEF LoadDatabase, FInv, FileTypes
<1>4. Good(rows', outcome)
  BY <1>1 DEF RestartGood
<1>5. Good(rows', outcome')
  BY <1>2, <1>4, LearntGood
<1> QED
  BY <1>3, <1>5 DEF MemoryInfo, Checkpointing
-----------------------------------------------------------------------------
(* The log.                                                                *)

\* A log that is emptied has no tail, after any step of an open database.
LEMMA TailNext ==
  ASSUME FInv, LogTypes, TailInfo, Next, mode = "open", mode' = "open"
  PROVE  TailInfo'
<1> DEFINE I == initial_wal_size
<1>0. /\ wal \in Seq(WalEntry) /\ Len(wal) \in Nat
      /\ step \in {"flush", "sync_log"} => I \in 0..Len(wal)
  <2>1. /\ wal \in Seq(WalEntry) /\ Len(wal) \in Nat /\ wal_synced \in 0..Len(wal)
        /\ step \in {"flush", "sync_log"} => I \in wal_synced..Len(wal)
    BY LogNumbers
  <2> QED
    BY <2>1
<1>1. CASE ResetWAL
  BY <1>1, Zenon DEF ResetWAL, TailInfo
<1>2. CASE tail' = tail /\ (Emptied' => Emptied)
  BY <1>2, Zenon DEF TailInfo
<1>3. ASSUME NEW t \in Txn, NEW checkpoint \in BOOLEAN, WriteToWAL(t, checkpoint)
      PROVE  tail' = tail /\ (Emptied' => Emptied)
  <2>1. tail' = tail
    BY <1>3, Zenon DEF WriteToWAL
  <2>2. initial_wal_size' = 0 => wal = <<>>
    BY <1>0, <1>3, EmptySeq DEF WriteToWAL
  <2>3. wal' = <<>> => wal = <<>>
    <3>1. CASE checkpoint
      BY <1>3, <3>1 DEF WriteToWAL
    <3>2. CASE ~ checkpoint
      <4>1. wal' = wal \o <<Entry(<<t, 1>>), Entry(<<t, 2>>)>>
        BY <1>3, <3>2 DEF WriteToWAL, LogOf
      <4> QED
        BY <1>0, <4>1, TwoMore, EntryKinds
    <3> QED
      BY <3>1, <3>2
  <2>9. tail' = tail /\ (Emptied' => Emptied)
    BY <2>1, <2>2, <2>3 DEF Emptied
  <2> QED
    BY <2>9
<1>4. CASE FlushCommit
  <2>1. tail' = tail
    BY <1>4, Zenon DEF FlushCommit
  <2>2. wal' # <<>>
    BY <1>0, <1>4, OneMore, EntryKinds DEF FlushCommit
  <2>3. step = "flush" /\ initial_wal_size' = initial_wal_size
    BY <1>4 DEF FlushCommit, commit
  <2>9. tail' = tail /\ (Emptied' => Emptied)
    BY <2>1, <2>2, <2>3 DEF Emptied
  <2> QED
    BY <1>2, <2>9
<1>5. CASE CommitFails
  <2>1. tail' = tail
    BY <1>5, Zenon DEF CommitFails
  <2>2. wal' = SubSeq(wal, 1, I) /\ step \in {"flush", "sync_log"} /\ step' = "idle"
    BY <1>5 DEF CommitFails, Done
  <2>3. Len(wal') = I
    BY <1>0, <2>2, Prefix
  <2>4. wal' = <<>> => I = 0
    BY <2>3
  <2>9. tail' = tail /\ (Emptied' => Emptied)
    BY <2>1, <2>2, <2>4 DEF Emptied
  <2> QED
    BY <1>2, <2>9
<1>6. CASE WriteCheckpoint
  <2>1. tail' = tail
    BY <1>6, Zenon DEF WriteCheckpoint
  <2>2. step' \notin {"flush", "sync_log"} /\ (wal = <<>> \/ wal' = wal \o <<Marker(meta_block), Flush>>)
        /\ step = "marker"
    BY <1>6 DEF WriteCheckpoint, GoTo
  <2>3. Marker(meta_block) \in WalEntry /\ Flush \in WalEntry
    BY <2>2, EntryKinds DEF FInv, OpenFile, Writing
  <2>4. wal' = <<>> => wal = <<>>
    BY <1>0, <2>2, <2>3, TwoMore
  <2>9. tail' = tail /\ (Emptied' => Emptied)
    BY <2>1, <2>2, <2>4 DEF Emptied
  <2> QED
    BY <1>2, <2>9
<1>7. CASE \/ SyncLog \/ SkipLog \/ Checkpoint \/ Close \/ WriteTables \/ SyncMarker \/ FlushFreeList
           \/ SyncBlocks \/ WriteHeader \/ SyncHeader \/ TruncateBlocks
  <2>1. tail' = tail
    BY <1>7, Zenon DEF SyncLog, SkipLog, Checkpoint, Close, WriteTables, SyncMarker, FlushFreeList,
       SyncBlocks, WriteHeader, SyncHeader, TruncateBlocks, log
  <2>2. wal' = wal /\ step' \notin {"flush", "sync_log"}
    BY <1>7 DEF SyncLog, SkipLog, Checkpoint, Close, WriteTables, SyncMarker, FlushFreeList,
       SyncBlocks, WriteHeader, SyncHeader, TruncateBlocks, log, GoTo, Done
  <2>9. tail' = tail /\ (Emptied' => Emptied)
    BY <2>1, <2>2 DEF Emptied
  <2> QED
    BY <1>2, <2>9
<1>8. ~ CheckpointFails /\ ~ Crash /\ ~ LoadDatabase
  BY DEF CheckpointFails, Crash, LoadDatabase
<1> QED
  BY <1>1, <1>2, <1>3, <1>4, <1>5, <1>6, <1>7, <1>8 DEF Next

\* What is replayed depends on the entries and on the table, like what is restored.
LEMMA ReplayableKept ==
  ASSUME NEW h, NEW n \in Nat, \A k \in 1..n : wal'[k] = wal[k],
         Seg(h, file'.block) = Seg(h, file.block), Replayable(h, n)
  PROVE  /\ Replayed(Base(h), wal, n)' = Replayed(Base(h), wal, n)
         /\ Good(Replayed(Base(h), wal, n), outcome') => Replayable(h, n)'
<1>1. Base(h)' = Base(h)
  BY DEF Base
<1>2. FlushTo(wal', n) = FlushTo(wal, n) /\ (Clean(wal', n, h.meta_block) <=> Clean(wal, n, h.meta_block))
  BY SamePrefix
<1>3. n \in 0..n
  OBVIOUS
<1>4. Replayed(Base(h), wal', n) = Replayed(Base(h), wal, n)
  BY <1>3, SamePrefix
<1> QED
  BY <1>1, <1>2, <1>4 DEF Replayable

\* The checkpoint that a restart finds is that of the header, and its table stays.
LEMMA BaseKept ==
  ASSUME FInv, FInv', file'.header = file.header, file' = file \/ stable' = stable
  PROVE  /\ Active(file)' = Active(file)
         /\ Seg(Active(file), file'.block) = Seg(Active(file), file.block)
<1> DEFINE h == Active(file)
<1>1. Active(file)' = h
  BY DEF Active
<1>2. CASE file' = file
  BY <1>1, <1>2
<1>3. CASE stable' = stable
  <2>1. Held(h, file.block, stable.block) /\ Held(h, file'.block, stable.block)
    BY <1>1, <1>3 DEF FInv
  <2>2. Seg(h, file.block) = Seg(h, stable.block) /\ Seg(h, file'.block) = Seg(h, stable.block)
    BY <2>1, HeldSeg
  <2> QED
    BY <1>1, <2>2
<1> QED
  BY <1>2, <1>3

LEMMA WriteToWALLog ==
  ASSUME FInv, LogTypes, MemoryInfo', LogInfo,
         NEW t \in Txn, NEW checkpoint \in BOOLEAN, WriteToWAL(t, checkpoint)
  PROVE  LogInfo'
<1>0. PICK h, n : h = Active(file) /\ n = Len(wal)
  OBVIOUS
<1>1. /\ step = "idle" /\ step' = "flush" /\ worker' = t /\ initial_wal_size' = n
      /\ wal_synced' = wal_synced /\ file' = file /\ rows' = rows
  BY <1>0 DEF WriteToWAL, storage
<1>2. wal \in Seq(WalEntry) /\ n \in Nat
  BY <1>0, LogNumbers
<1>3. /\ \A k \in 1..n : wal[k] # Torn
      /\ wal_synced = n /\ Replayable(h, n) /\ rows = Replayed(Base(h), wal, n)
  BY <1>0, <1>1 DEF LogInfo
<1>4. ASSUME checkpoint PROVE wal' = wal
  BY <1>4 DEF WriteToWAL
<1>5. ASSUME ~ checkpoint
      PROVE  /\ Len(wal') = n + 2 /\ \A k \in 1..n : wal'[k] = wal[k]
             /\ wal'[n + 1] = Entry(<<t, 1>>) /\ wal'[n + 2] = Entry(<<t, 2>>)
  <2>1. wal' = wal \o <<Entry(<<t, 1>>), Entry(<<t, 2>>)>>
    BY <1>5 DEF WriteToWAL, LogOf
  <2>2. Entry(<<t, 1>>) \in WalEntry /\ Entry(<<t, 2>>) \in WalEntry
    BY EntryKinds
  <2> QED
    BY <1>0, <1>2, <2>1, <2>2, TwoMore
<1>6. (\A k \in 1..n : wal'[k] = wal[k]) /\ \A k \in 1..Len(wal') : wal'[k] # Torn
  <2>1. CASE checkpoint
    BY <1>0, <1>3, <1>4, <2>1
  <2>2. CASE ~ checkpoint
    <3>1. \A k \in 1..n + 2 : k \in 1..n \/ k = n + 1 \/ k = n + 2
      BY <1>2
    <3>2. Entry(<<t, 1>>) # Torn /\ Entry(<<t, 2>>) # Torn
      BY EntryKinds
    <3> QED
      BY <1>3, <1>5, <2>2, <3>1, <3>2
  <2> QED
    BY <2>1, <2>2
<1>7. Replayable(h, n)' /\ Replayed(Base(h), wal, n)' = Replayed(Base(h), wal, n)
  <2>1. Good(Replayed(Base(h), wal, n), outcome')
    BY <1>1, <1>3 DEF MemoryInfo
  <2>2. Seg(h, file'.block) = Seg(h, file.block)
    BY <1>1
  <2> QED
    BY <1>2, <1>3, <1>6, <2>1, <2>2, ReplayableKept
<1>8. CommitLog'
  <2>0. Active(file)' = h
    BY <1>0, <1>1
  <2>1. (wal_synced = initial_wal_size)'
    BY <1>1, <1>3
  <2>2. Replayable(Active(file), initial_wal_size)'
    BY <1>1, <1>7, <2>0 DEF Replayable, Base
  <2>3. (rows = Replayed(Base(Active(file)), wal, initial_wal_size))'
    BY <1>1, <1>3, <1>7, <2>0 DEF Base
  <2>4. (~ skip_writing => Logged)'
    <3>1. ~ checkpoint => Logged'
      BY <1>1, <1>5 DEF Logged
    <3>2. skip_writing' = checkpoint
      BY Zenon DEF WriteToWAL
    <3> QED
      BY <3>1, <3>2, Zenon
  <2>5. (skip_writing => Len(wal) = initial_wal_size)'
    <3>1. checkpoint => Len(wal') = initial_wal_size'
      BY <1>0, <1>1, <1>4
    <3>2. skip_writing' = checkpoint
      BY Zenon DEF WriteToWAL
    <3> QED
      BY <3>1, <3>2, Zenon
  <2>6. (step = "sync_log" => wal[Len(wal)] = Flush)'
    BY <1>1
  <2> QED
    BY <2>1, <2>2, <2>3, <2>4, <2>5, <2>6, Zenon DEF CommitLog
<1> QED
  BY <1>1, <1>6, <1>8 DEF LogInfo

LEMMA FlushCommitLog ==
  ASSUME FInv, LogTypes, MemoryInfo, LogInfo, FlushCommit
  PROVE  LogInfo'
<1>0. PICK h, i, n : h = Active(file) /\ i = initial_wal_size /\ n = Len(wal)
  OBVIOUS
<1>1. /\ step = "flush" /\ step' = "sync_log" /\ worker' = worker /\ initial_wal_size' = i
      /\ wal_synced' = wal_synced /\ file' = file /\ rows' = rows /\ outcome' = outcome
      /\ wal' = Append(wal, Flush)
  BY <1>0 DEF FlushCommit, GoTo, commit, storage
<1>s. ~ skip_writing /\ ~ skip_writing'
  BY Zenon DEF FlushCommit, commit
<1>2. wal \in Seq(WalEntry) /\ n \in Nat /\ i \in Nat
  BY <1>0, LogNumbers
<1>3. CommitLog /\ \A k \in 1..n : wal[k] # Torn
  BY <1>0, <1>1 DEF LogInfo
<1>4. /\ wal_synced = initial_wal_size /\ Replayable(Active(file), initial_wal_size)
      /\ rows = Replayed(Base(Active(file)), wal, initial_wal_size) /\ Logged
  BY <1>3, <1>s, Zenon DEF CommitLog
<1>5. n = i + 2 /\ wal[i + 1] = Entry(<<worker, 1>>) /\ wal[i + 2] = Entry(<<worker, 2>>)
  BY <1>0, <1>1, <1>4 DEF Logged
<1>6. Len(wal') = n + 1 /\ (\A k \in 1..n : wal'[k] = wal[k]) /\ wal'[n + 1] = Flush
  BY <1>0, <1>1, <1>2, OneMore, EntryKinds
<1>7. \A k \in 1..i : wal'[k] = wal[k]
  <2>1. \A k \in 1..i : k \in 1..n
    BY <1>2, <1>5
  <2> QED
    BY <1>6, <2>1
<1>8. \A k \in 1..Len(wal') : wal'[k] # Torn
  <2>1. \A k \in 1..n + 1 : k \in 1..n \/ k = n + 1
    BY <1>2
  <2> QED
    BY <1>3, <1>6, <2>1, EntryKinds
<1>9. Replayable(h, i)' /\ Replayed(Base(h), wal, i)' = Replayed(Base(h), wal, i)
  <2>1. Good(Replayed(Base(h), wal, i), outcome')
    BY <1>0, <1>1, <1>4 DEF MemoryInfo
  <2>2. Seg(h, file'.block) = Seg(h, file.block)
    BY <1>1
  <2> QED
    BY <1>0, <1>2, <1>4, <1>7, <2>1, <2>2, ReplayableKept
<1>10. CommitLog'
  <2>0. Active(file)' = h
    BY <1>0, <1>1
  <2>1. (wal_synced = initial_wal_size)'
    BY <1>0, <1>1, <1>4
  <2>2. Replayable(Active(file), initial_wal_size)'
    BY <1>1, <1>9, <2>0 DEF Replayable, Base
  <2>3. (rows = Replayed(Base(Active(file)), wal, initial_wal_size))'
    BY <1>0, <1>1, <1>4, <1>9, <2>0 DEF Base
  <2>4. Logged'
    <3>1. i + 1 \in 1..n /\ i + 2 \in 1..n /\ n + 1 = i + 3
      BY <1>2, <1>5
    <3>2. wal'[i + 1] = wal[i + 1] /\ wal'[i + 2] = wal[i + 2] /\ Len(wal') = i + 3
      BY <1>6, <3>1
    <3> QED
      BY <1>1, <1>5, <3>2 DEF Logged
  <2>5. (step = "sync_log" => wal[Len(wal)] = Flush)'
    BY <1>6
  <2> QED
    BY <1>s, <2>1, <2>2, <2>3, <2>4, <2>5, Zenon DEF CommitLog
<1> QED
  BY <1>1, <1>8, <1>10 DEF LogInfo

\* The commit is in the log, and a restart shows what is in memory.
LEMMA SyncLogLog ==
  ASSUME FInv, LogTypes, SkipTypes, MemoryInfo, MemoryInfo', LogInfo, SyncLog
  PROVE  LogInfo'
<1>0. PICK h, i, n : h = Active(file) /\ i = initial_wal_size /\ n = Len(wal)
  OBVIOUS
<1>1. /\ step = "sync_log" /\ step' = "idle" /\ wal' = wal /\ wal_synced' = n
      /\ file' = file /\ rows' = AddRows(rows, RowsOf(worker))
  BY <1>0 DEF SyncLog, Done, storage
<1>s. ~ skip_writing
  <2>1. step # "flush"
    BY <1>1
  <2> QED
    BY <2>1, Zenon DEF SkipTypes
<1>2. n \in Nat /\ i \in Nat /\ worker \in Txn
  BY <1>0, <1>1, LogNumbers
<1>3. CommitLog /\ \A k \in 1..n : wal[k] # Torn
  BY <1>0, <1>1 DEF LogInfo
<1>4. /\ Replayable(Active(file), initial_wal_size)
      /\ rows = Replayed(Base(Active(file)), wal, initial_wal_size) /\ Logged
      /\ step = "sync_log" => wal[Len(wal)] = Flush
  BY <1>3, <1>s, Zenon DEF CommitLog
<1>5. /\ n = i + 3 /\ wal[i + 1] = Entry(<<worker, 1>>) /\ wal[i + 2] = Entry(<<worker, 2>>)
      /\ wal[i + 3] = Flush
  BY <1>0, <1>1, <1>4 DEF Logged
<1>6. Base(h) \in Content
  BY <1>0, HeldSeg DEF FInv, Base
<1>7. /\ Replayed(Base(h), wal, n) = AddRows(Replayed(Base(h), wal, i), RowsOf(worker))
      /\ FlushTo(wal, n) = n
      /\ Clean(wal, n, h.meta_block) <=> Clean(wal, i, h.meta_block)
  BY <1>2, <1>5, <1>6, CommitReplayed
<1>8. rows' = Replayed(Base(h), wal, n) /\ ~ Clean(wal, n, h.meta_block)
  BY <1>0, <1>1, <1>4, <1>7 DEF Replayable
<1>9. Good(Replayed(Base(h), wal, n), outcome')
  BY <1>8 DEF MemoryInfo
<1>10. (Replayable(Active(file), Len(wal)) /\ rows = Replayed(Base(Active(file)), wal, Len(wal)))'
  BY <1>0, <1>1, <1>7, <1>8, <1>9 DEF Replayable, Base
<1> QED
  BY <1>0, <1>1, <1>3, <1>10 DEF LogInfo

\* A step that leaves log and outcomes alone, and the table of the checkpoint.
LEMMA SameReplayable ==
  ASSUME NEW h, NEW n \in Nat, wal' = wal, outcome' = outcome,
         Seg(h, file'.block) = Seg(h, file.block), Replayable(h, n)
  PROVE  Replayable(h, n)'
<1>1. Good(Replayed(Base(h), wal, n), outcome')
  BY DEF Replayable
<1> QED
  BY <1>1, ReplayableKept

\* A commit that checkpoints has logged nothing.
LEMMA SkipLogLog ==
  ASSUME FInv, LogTypes, LogInfo, SkipLog
  PROVE  LogInfo'
<1>0. PICK h, n : h = Active(file) /\ n = Len(wal)
  OBVIOUS
<1>1. /\ step = "flush" /\ step' = "tables" /\ wal' = wal /\ wal_synced' = wal_synced
      /\ file' = file /\ outcome' = outcome
  BY DEF SkipLog, GoTo, storage, log
<1>2. n \in Nat
  BY <1>0, LogNumbers
<1>3. CommitLog /\ \A k \in 1..n : wal[k] # Torn
  BY <1>0, <1>1 DEF LogInfo
<1>4. Len(wal) = initial_wal_size
  <2>1. skip_writing
    BY Zenon DEF SkipLog
  <2> QED
    BY <1>3, <2>1, Zenon DEF CommitLog
<1>5. Replayable(h, n) /\ wal_synced = n
  BY <1>0, <1>3, <1>4 DEF CommitLog
<1>6. Replayable(h, n)'
  BY <1>1, <1>2, <1>5, SameReplayable
<1>7. Replayable(Active(file), Len(wal))'
  BY <1>0, <1>1, <1>6 DEF Replayable, Base
<1> QED
  BY <1>0, <1>1, <1>3, <1>5, <1>7 DEF LogInfo

\* A commit that fails leaves the log as it was before.
LEMMA CommitFailsLog ==
  ASSUME FInv, LogTypes, MemoryInfo', LogInfo, CommitFails
  PROVE  LogInfo'
<1>0. PICK h, i, n : h = Active(file) /\ i = initial_wal_size /\ n = Len(wal)
  OBVIOUS
<1>1. /\ step \in {"flush", "sync_log"} /\ step' = "idle" /\ wal_synced' = wal_synced
      /\ file' = file /\ rows' = rows
  BY DEF CommitFails, Done, storage
<1>2. wal \in Seq(WalEntry) /\ n \in Nat /\ i \in 0..n
  <2>1. /\ wal \in Seq(WalEntry) /\ Len(wal) \in Nat /\ wal_synced \in 0..Len(wal)
        /\ i \in wal_synced..Len(wal)
    BY <1>0, <1>1, LogNumbers
  <2> QED
    BY <1>0, <2>1
<1>3. Len(wal') = i /\ \A k \in 1..i : wal'[k] = wal[k]
  <2>1. wal' = SubSeq(wal, 1, i)
    BY <1>0 DEF CommitFails
  <2> QED
    BY <1>0, <1>2, <2>1, Prefix
<1>4. CommitLog /\ \A k \in 1..n : wal[k] # Torn
  BY <1>0, <1>1 DEF LogInfo
<1>5. /\ wal_synced = i /\ Replayable(h, i) /\ rows = Replayed(Base(h), wal, i)
  BY <1>0, <1>4 DEF CommitLog
<1>6. \A k \in 1..i : wal'[k] # Torn
  <2>1. \A k \in 1..i : k \in 1..n
    BY <1>2
  <2> QED
    BY <1>3, <1>4, <2>1
<1>7. Replayable(h, i)' /\ Replayed(Base(h), wal, i)' = Replayed(Base(h), wal, i)
  <2>1. Good(Replayed(Base(h), wal, i), outcome')
    BY <1>1, <1>5 DEF MemoryInfo
  <2>2. Seg(h, file'.block) = Seg(h, file.block) /\ i \in Nat
    BY <1>1, <1>2
  <2> QED
    BY <1>3, <1>5, <2>1, <2>2, ReplayableKept
<1>8. (Replayable(Active(file), Len(wal)) /\ rows = Replayed(Base(Active(file)), wal, Len(wal)))'
  BY <1>0, <1>1, <1>3, <1>5, <1>7 DEF Replayable, Base
<1> QED
  BY <1>1, <1>3, <1>5, <1>6, <1>8 DEF LogInfo

\* Steps of a checkpoint that leave the log and the headers alone.
LEMMA QuietLog ==
  ASSUME FInv, FInv', LogTypes, LogInfo, mode = "open", mode' = "open",
         Checkpoint \/ Close \/ WriteTables \/ FlushFreeList \/ SyncBlocks
  PROVE  LogInfo'
<1>0. PICK h, n : h = Active(file) /\ n = Len(wal)
  OBVIOUS
<1>1. /\ wal' = wal /\ wal_synced' = wal_synced /\ outcome' = outcome
      /\ file'.header = file.header /\ (file' = file \/ stable' = stable)
  <2>1. CASE Checkpoint \/ Close \/ SyncBlocks
    BY <2>1 DEF Checkpoint, Close, SyncBlocks, storage, log
  <2>2. CASE WriteTables
    <3>1. PICK b : file' = [file EXCEPT !.block = b]
      BY <2>2 DEF WriteTables
    <3>2. file'.header = file.header
      BY <3>1 DEF FInv, FileTypes
    <3> QED
      BY <2>2, <3>2 DEF WriteTables, log
  <2>3. CASE FlushFreeList
    <3>1. PICK b : file' = [file EXCEPT !.block = b]
      BY <2>3 DEF FlushFreeList
    <3>2. file'.header = file.header
      BY <3>1 DEF FInv, FileTypes
    <3> QED
      BY <2>3, <3>2 DEF FlushFreeList, log
  <2> QED
    BY <2>1, <2>2, <2>3
<1>2. \/ step = "idle" /\ step' = "tables"
      \/ step = "tables" /\ step' = "marker"
      \/ meta_block' = meta_block /\ step = "free_list" /\ step' = "sync_blocks"
      \/ meta_block' = meta_block /\ step = "sync_blocks" /\ step' = "header"
  BY DEF Checkpoint, Close, WriteTables, FlushFreeList, SyncBlocks, GoTo
<1>3. n \in Nat
  BY <1>0, LogNumbers
<1>4. Active(file)' = h /\ Seg(h, file'.block) = Seg(h, file.block)
  BY <1>0, <1>1, BaseKept
<1>5. Replayable(h, n)
  BY <1>0, <1>2 DEF LogInfo
<1>6. Replayable(h, n)'
  BY <1>1, <1>3, <1>4, <1>5, SameReplayable
<1>7. Replayable(Active(file), Len(wal))'
  BY <1>0, <1>1, <1>4, <1>6 DEF Replayable, Base
<1>8. wal_synced = n /\ \A k \in 1..n : wal[k] # Torn
  BY <1>0, <1>2 DEF LogInfo
<1>9. step \in {"free_list", "sync_blocks"} => wal = <<>> \/ Clean(wal, n, meta_block)
  BY <1>0 DEF LogInfo
<1> QED
  BY <1>0, <1>1, <1>2, <1>7, <1>8, <1>9 DEF LogInfo

\* The marker is at the end of the log, which was synced before.
LEMMA WriteCheckpointLog ==
  ASSUME FInv, LogTypes, LogInfo, mode = "open", WriteCheckpoint
  PROVE  LogInfo'
<1>0. PICK h, n : h = Active(file) /\ n = Len(wal)
  OBVIOUS
<1>1. /\ step = "marker" /\ wal_synced' = wal_synced /\ outcome' = outcome
      /\ file' = file /\ meta_block' = meta_block
  BY DEF WriteCheckpoint, storage
<1>2. wal \in Seq(WalEntry) /\ n \in Nat
  BY <1>0, LogNumbers
<1>3. Replayable(h, n) /\ wal_synced = n /\ \A k \in 1..n : wal[k] # Torn
  BY <1>0, <1>1 DEF LogInfo
<1>4. CASE wal = <<>>
  <2>1. wal' = wal /\ step' = "free_list"
    BY <1>4 DEF WriteCheckpoint, GoTo
  <2>2. Replayable(h, n)'
    BY <1>1, <1>2, <1>3, <2>1, SameReplayable
  <2>3. Replayable(Active(file), Len(wal))'
    BY <1>0, <1>1, <2>1, <2>2 DEF Replayable, Base
  <2> QED
    BY <1>0, <1>1, <1>3, <1>4, <2>1, <2>3 DEF LogInfo
<1>5. CASE wal # <<>>
  <2>1. wal' = wal \o <<Marker(meta_block), Flush>> /\ step' = "sync_marker"
    BY <1>5 DEF WriteCheckpoint, GoTo
  <2>2. Marker(meta_block) \in WalEntry /\ Flush \in WalEntry
    BY <1>1, EntryKinds DEF FInv, OpenFile, Writing
  <2>3. /\ Len(wal') = n + 2 /\ \A k \in 1..n : wal'[k] = wal[k]
        /\ wal'[n + 1] = Marker(meta_block) /\ wal'[n + 2] = Flush
    BY <1>0, <1>2, <2>1, <2>2, TwoMore
  <2>4. n > 0
    BY <1>0, <1>2, <1>5, EmptySeq
  <2>5. Replayable(h, n)'
    <3>1. Good(Replayed(Base(h), wal, n), outcome')
      BY <1>1, <1>3 DEF Replayable
    <3>2. Seg(h, file'.block) = Seg(h, file.block)
      BY <1>1
    <3> QED
      BY <1>2, <1>3, <2>3, <3>1, <3>2, ReplayableKept
  <2>6. \A k \in 1..Len(wal') : wal'[k] # Torn
    <3>1. \A k \in 1..n + 2 : k \in 1..n \/ k = n + 1 \/ k = n + 2
      BY <1>2
    <3>2. Flush # Torn /\ Marker(meta_block) # Torn
      BY EntryKinds
    <3> QED
      BY <1>3, <2>3, <3>1, <3>2
  <2>7. /\ Len(wal') \in Nat /\ Len(wal') > 2 /\ Len(wal') - 2 = n /\ Len(wal') - 1 = n + 1
    BY <1>2, <2>3, <2>4
  <2>8. Replayable(Active(file), Len(wal) - 2)'
    BY <1>0, <1>1, <2>5, <2>7 DEF Replayable, Base
  <2>9. /\ (wal[Len(wal) - 1] = Marker(meta_block))' /\ (wal[Len(wal)] = Flush)'
        /\ wal_synced' = Len(wal') - 2
    BY <1>1, <1>3, <2>3, <2>7
  <2> QED
    BY <2>1, <2>6, <2>7, <2>8, <2>9 DEF LogInfo
<1> QED
  BY <1>4, <1>5

\* The marker names the new root, and not that of the checkpoint in the file.
LEMMA SyncMarkerLog ==
  ASSUME FInv, LogTypes, LogInfo, mode = "open", SyncMarker
  PROVE  LogInfo'
<1>0. PICK h, n : h = Active(file) /\ n = Len(wal)
  OBVIOUS
<1>1. /\ step = "sync_marker" /\ step' = "free_list" /\ wal' = wal /\ wal_synced' = n
      /\ outcome' = outcome /\ file' = file /\ meta_block' = meta_block
  BY <1>0 DEF SyncMarker, GoTo, storage
<1>2. /\ n \in Nat /\ n > 2 /\ Replayable(h, n - 2) /\ wal[n - 1] = Marker(meta_block) /\ wal[n] = Flush
      /\ \A k \in 1..n : wal[k] # Torn
  BY <1>0, <1>1 DEF LogInfo
<1>3. PICK m \in Nat : n = m + 2 /\ n - 1 = m + 1 /\ n - 2 = m
  <2>1. n - 2 \in Nat /\ n = (n - 2) + 2 /\ n - 1 = (n - 2) + 1
    BY <1>2
  <2> QED
    BY <2>1
<1>4. /\ FlushTo(wal, n) = n
      /\ \A root : Clean(wal, n, root) <=> root = meta_block
      /\ \A c : Replayed(c, wal, n) = Replayed(c, wal, m)
  BY <1>2, <1>3, MarkerAdded
<1>5. meta_block # h.meta_block
  BY <1>0, <1>1, NewRoot DEF Middle
<1>6. Replayable(h, n)
  BY <1>2, <1>3, <1>4, <1>5 DEF Replayable
<1>7. Replayable(h, n)'
  BY <1>1, <1>2, <1>6, SameReplayable
<1>8. Replayable(Active(file), Len(wal))'
  BY <1>0, <1>1, <1>7 DEF Replayable, Base
<1>9. Clean(wal, n, meta_block)
  BY <1>4
<1> QED
  BY <1>0, <1>1, <1>2, <1>8, <1>9 DEF LogInfo

\* The header is written, but not synced: a restart may find either.
LEMMA WriteHeaderLog ==
  ASSUME FInv, LogTypes, LogInfo, mode = "open", WriteHeader
  PROVE  LogInfo'
<1>0. PICK h, n : h = Active(file) /\ n = Len(wal)
  OBVIOUS
<1>1. /\ step = "header" /\ step' = "sync_header" /\ wal' = wal /\ wal_synced' = wal_synced
      /\ outcome' = outcome /\ stable' = stable /\ meta_block' = meta_block
  BY DEF WriteHeader, GoTo, log
<1>2. file'.block = file.block
  BY DEF WriteHeader, FInv, FileTypes
<1>3. /\ n \in Nat
  BY <1>0, LogNumbers
<1>4. /\ Replayable(h, n) /\ wal_synced = n /\ \A k \in 1..n : wal[k] # Torn
      /\ wal = <<>> \/ Clean(wal, n, meta_block)
  BY <1>0, <1>1 DEF LogInfo
<1>5. Active(stable)' = h
  <2>1. Active(stable) = h
    BY <1>0, <1>1 DEF FInv, OpenFile, Active
  <2> QED
    BY <1>1, <2>1
<1>6. Replayable(h, n)'
  BY <1>1, <1>2, <1>3, <1>4, SameReplayable
<1>7. Replayable(Active(stable), Len(wal))'
  BY <1>0, <1>1, <1>5, <1>6 DEF Replayable, Base
<1> QED
  BY <1>0, <1>1, <1>4, <1>7 DEF LogInfo

\* From then on the log is not needed any more.
LEMMA SyncHeaderLog ==
  ASSUME LogInfo, SyncHeader \/ TruncateBlocks
  PROVE  LogInfo'
<1>1. /\ step \in {"sync_header", "truncate"} /\ step' \in {"truncate", "reset"}
      /\ wal' = wal /\ wal_synced' = wal_synced /\ meta_block' = meta_block
  BY DEF SyncHeader, TruncateBlocks, GoTo, log
<1>2. /\ wal_synced = Len(wal) /\ \A k \in 1..Len(wal) : wal[k] # Torn
      /\ wal = <<>> \/ Clean(wal, Len(wal), meta_block)
  BY <1>1 DEF LogInfo
<1> QED
  BY <1>1, <1>2 DEF LogInfo

\* At the end of a checkpoint the file holds what is in memory.
LEMMA CheckpointComplete ==
  ASSUME FInv, FInv', MemoryInfo, ResetWAL, mode = "open"
  PROVE  /\ Active(file)' = Active(file) /\ Base(Active(file))' = rows
         /\ wal' = <<>> /\ Len(wal') = 0 /\ wal_synced' = 0 /\ rows' = rows /\ step' = "idle"
         /\ file' = file
<1>1. /\ step = "reset" /\ file' = file /\ rows' = rows /\ wal' = <<>> /\ wal_synced' = 0
      /\ step' = "idle"
  BY DEF ResetWAL, Done, storage
<1>2. segment = Seg(Active(file), file.block) /\ segment.rows = rows
  BY <1>1 DEF FInv, OpenFile, Settled, MemoryInfo
<1>3. Active(file)' = Active(file) /\ Base(Active(file))' = rows
  BY <1>1, <1>2 DEF Base
<1> QED
  BY <1>1, <1>3

LEMMA ResetWALLog ==
  ASSUME FInv, FInv', MemoryInfo, MemoryInfo', ResetWAL, mode = "open"
  PROVE  LogInfo'
<1>1. /\ Base(Active(file))' = rows
      /\ wal' = <<>> /\ Len(wal') = 0 /\ wal_synced' = 0 /\ rows' = rows /\ step' = "idle"
  BY CheckpointComplete
<1>2. rows \in Content
  BY DEF FInv, FileTypes
<1>3. /\ Replayed(rows, wal', 0) = rows
      /\ FlushTo(wal', 0) = 0 /\ \A root : ~ Clean(wal', 0, root)
  BY <1>2, EmptyLog
<1>4. Good(rows, outcome')
  BY <1>1 DEF MemoryInfo
<1>5. Replayable(Active(file), Len(wal))'
  BY <1>1, <1>3, <1>4 DEF Replayable
<1>6. (rows = Replayed(Base(Active(file)), wal, Len(wal)))'
  BY <1>1, <1>3
<1>7. \A k \in 1..Len(wal') : wal'[k] # Torn
  BY <1>1
<1> QED
  BY <1>1, <1>5, <1>6, <1>7 DEF LogInfo

\* A restart that reads the whole log keeps it, and has in memory what the next one
\* would show.
LEMMA LoadLog ==
  ASSUME FInv, FInv', LogTypes, RestartGood, MemoryInfo', LoadDatabase, ~ tail'
  PROVE  LogInfo'
<1>0. PICK h, n : h = Active(file) /\ n = Len(wal)
  OBVIOUS
<1>1. /\ step' = "idle" /\ mode' = "open" /\ file' = file /\ rows' = Restored
      /\ wal_synced' = Len(wal')
      /\ wal' = IF AlreadyCheckpointed(h.meta_block) THEN <<>> ELSE wal
  <2>1. mode' = "open" /\ rows' = Restored
    BY LoadOpens
  <2> QED
    BY <1>0, <2>1 DEF LoadDatabase, FInv, FileTypes, Active
<1>2. ~ AlreadyCheckpointed(h.meta_block) => ~ (Committed < n)
  <2>1. mode' = "open"
    BY <1>1
  <2>2. tail' = (~ AlreadyCheckpointed(h.meta_block) /\ Committed < Len(wal))
    BY <1>0, <2>1 DEF LoadDatabase, Active
  <2> QED
    BY <1>0, <2>2, Zenon
<1>3. PICK m \in 0..n : Reads(m)
  BY <1>0, RestartFound
<1>4. n \in Nat /\ m \in Nat /\ m <= n
  BY <1>0, <1>3, LogNumbers
<1>5. Base(h) \in Content
  BY <1>0, HeldSeg DEF FInv, Base
<1>6. Good(rows', outcome')
  BY DEF MemoryInfo
<1>7. CASE AlreadyCheckpointed(h.meta_block)
  <2>1. wal' = <<>> /\ Len(wal') = 0 /\ wal_synced' = 0
    BY <1>1, <1>7
  <2>2. rows' = Base(h)
    BY <1>0, <1>1, <1>7 DEF Restored
  <2>3. /\ Replayed(Base(h), wal', 0) = Base(h)
        /\ FlushTo(wal', 0) = 0 /\ \A root : ~ Clean(wal', 0, root)
    BY <1>5, EmptyLog
  <2>4. Base(Active(file))' = Base(h)
    BY <1>0, <1>1 DEF Base
  <2>5. Replayable(Active(file), Len(wal))'
    BY <1>6, <2>1, <2>2, <2>3, <2>4 DEF Replayable
  <2>6. (rows = Replayed(Base(Active(file)), wal, Len(wal)))'
    BY <2>1, <2>2, <2>3, <2>4
  <2>7. \A k \in 1..Len(wal') : wal'[k] # Torn
    BY <2>1
  <2> QED
    BY <1>1, <2>1, <2>5, <2>6, <2>7 DEF LogInfo
<1>8. CASE ~ AlreadyCheckpointed(h.meta_block)
  <2>1. wal' = wal /\ wal_synced' = n
    BY <1>0, <1>1, <1>8
  <2>2. Committed = FlushTo(wal, m) /\ FlushTo(wal, m) \in 0..m
    BY <1>3, <1>4, FlushToType DEF Reads
  <2>3. FlushTo(wal, n) = n /\ m = n
    BY <1>2, <1>4, <1>8, <2>2
  <2>4. (\A k \in 1..n : wal[k] # Torn) /\ ~ Clean(wal, n, h.meta_block) /\ Restored = Recovered(h, n)
    BY <1>0, <1>3, <1>8, <2>3 DEF Reads
  <2>5. rows' = Replayed(Base(h), wal, n)
    BY <1>1, <2>3, <2>4 DEF Recovered
  <2>6. Active(file)' = h /\ Base(Active(file))' = Base(h)
    BY <1>0, <1>1 DEF Base
  <2>7. Replayable(Active(file), Len(wal))'
    BY <1>0, <1>6, <2>1, <2>3, <2>4, <2>5, <2>6 DEF Replayable
  <2>8. (rows = Replayed(Base(Active(file)), wal, Len(wal)))'
    BY <1>0, <2>1, <2>5, <2>6
  <2> QED
    BY <1>0, <1>1, <2>1, <2>4, <2>7, <2>8 DEF LogInfo
<1> QED
  BY <1>7, <1>8

\* A restart with an empty log leaves nothing in it.
LEMMA LoadTail ==
  ASSUME FInv, LogTypes, LoadDatabase
  PROVE  TailInfo'
<1>0. PICK h, n : h = Active(file) /\ n = Len(wal)
  OBVIOUS
<1>1. mode' = "open"
  BY LoadOpens
<1>2. step' = "idle"
  BY DEF LoadDatabase, FInv, FileTypes
<1>3. /\ wal' = IF AlreadyCheckpointed(h.meta_block) THEN <<>> ELSE wal
      /\ tail' = (~ AlreadyCheckpointed(h.meta_block) /\ Committed < n)
  BY <1>0, <1>1 DEF LoadDatabase, Active
<1>4. n \in Nat
  BY <1>0, LogNumbers
<1>5. PICK m \in 0..n : Reads(m)
  BY <1>0, RestartFound
<1>6. Committed \in Nat
  BY <1>4, <1>5, FlushToType DEF Reads
<1>7. wal = <<>> => ~ (Committed < n)
  BY <1>0, <1>6
<1>8. Emptied' => wal' = <<>>
  BY <1>2 DEF Emptied
<1>9. wal' = <<>> => AlreadyCheckpointed(h.meta_block) \/ ~ (Committed < n)
  BY <1>3, <1>7
<1> QED
  BY <1>3, <1>8, <1>9, Zenon DEF TailInfo
-----------------------------------------------------------------------------
(* The end of a database process.                                          *)

\* A shutdown leaves no log, and a file with what was in memory.
LEMMA ShutdownRestart ==
  ASSUME FInv', LogTypes', wal' = <<>>, Base(Active(file))' \in Content,
         Good(Base(Active(file))', outcome')
  PROVE  RestartGood'
<1>1. (FInv /\ LogTypes => \E n \in 0..Len(wal) : Reads(n))'
  BY RestartFound, PTL
<1>2. PICK n \in 0..Len(wal') : Reads(n)'
  BY <1>1
<1>3. n = 0
  BY <1>2
<1>4. Restored' = Recovered(Active(file), n)'
  BY <1>2 DEF Reads
<1>5. /\ FlushTo(wal', 0) = 0 /\ \A root : ~ Clean(wal', 0, root)
      /\ Replayed(Base(Active(file))', wal', 0) = Base(Active(file))'
  BY EmptyLog
<1>6. Restored' = Base(Active(file))'
  BY <1>3, <1>4, <1>5 DEF Recovered
<1> QED
  BY <1>6 DEF RestartGood

LEMMA CloseRestart ==
  ASSUME FInv, FInv', LogTypes', MemoryInfo, TailInfo, ~ tail => LogInfo,
         Close, mode = "open", mode' = "down"
  PROVE  ~ tail' /\ RestartGood'
<1>1. /\ wal = <<>> /\ wal' = wal /\ file' = file /\ outcome' = outcome /\ step = "idle"
  BY DEF Close, log, storage
<1>2. ~ tail
  BY <1>1, Zenon DEF TailInfo, Emptied
<1>3. ~ tail'
  BY <1>2, Zenon DEF Close, log
<1>4. rows = Replayed(Base(Active(file)), wal, Len(wal))
  BY <1>1, <1>2 DEF LogInfo
<1>5. Base(Active(file)) \in Content
  BY HeldSeg DEF FInv, Base
<1>6. rows = Base(Active(file))
  <2>1. Len(wal) = 0
    BY <1>1
  <2> QED
    BY <1>4, <1>5, <2>1, EmptyLog
<1>7. Base(Active(file))' = Base(Active(file)) /\ Good(rows, outcome)
  BY <1>1 DEF Base, MemoryInfo
<1> QED
  BY <1>1, <1>3, <1>5, <1>6, <1>7, ShutdownRestart

LEMMA ResetRestart ==
  ASSUME FInv, FInv', LogTypes', MemoryInfo, ResetWAL, mode = "open", mode' = "down"
  PROVE  ~ tail' /\ RestartGood'
<1>1. Base(Active(file))' = rows /\ wal' = <<>>
  BY CheckpointComplete
<1>2. worker = Closer
  BY DEF ResetWAL
<1>3. outcome' = outcome
  BY <1>2, RecoveryConstants DEF ResetWAL
<1>4. Good(rows, outcome) /\ rows \in Content
  BY DEF MemoryInfo, FInv, FileTypes
<1>5. ~ tail'
  BY Zenon DEF ResetWAL
<1> QED
  BY <1>1, <1>3, <1>4, <1>5, ShutdownRestart

\* A checkpoint that fails has done no harm.
LEMMA FailureSafe ==
  ASSUME CrashSafe, UNCHANGED <<wal, wal_synced, file, stable, outcome>>
  PROVE  CrashSafe'
<1>1. \A h, n : Recovered(h, n)' = Recovered(h, n)
  BY DEF Recovered, Base
<1> QED
  BY <1>1 DEF CrashSafe
-----------------------------------------------------------------------------
(* The theorem about the log.                                              *)

LEMMA InitEInv == Init => EInv
<1> SUFFICES ASSUME Init PROVE EInv
  OBVIOUS
<1>0. FInv
  BY InitFInv
<1>1. /\ mode = "open" /\ step = "idle" /\ wal = <<>> /\ Len(wal) = 0 /\ wal_synced = 0
      /\ rows = NoRows /\ segment = NoTable /\ outcome = [t \in Txn |-> "none"]
  BY DEF Init
<1>2. ~ tail
  BY Zenon DEF Init
<1>3. Base(Active(file)) = rows /\ rows \in Content
  BY <1>0, <1>1 DEF FInv, FileTypes, OpenFile, Settled, Base, NoTable
<1>4. Good(rows, outcome)
  <2>1. \A t \in Txn : \A r \in RowsOf(t) : rows[r] = 0
    BY <1>1 DEF NoRows, RowsOf
  <2>2. \A t \in Txn : outcome[t] = "none" /\ <<t, 1>> \in RowsOf(t)
    BY <1>1 DEF RowsOf
  <2> QED
    BY <2>1, <2>2 DEF Good
<1>5. MemoryInfo
  BY <1>1, <1>4 DEF MemoryInfo, Checkpointing
<1>6. /\ Replayed(rows, wal, 0) = rows
      /\ FlushTo(wal, 0) = 0 /\ \A root : ~ Clean(wal, 0, root)
  BY <1>3, EmptyLog
<1>7. Replayable(Active(file), Len(wal))
  BY <1>1, <1>3, <1>4, <1>6 DEF Replayable
<1>8. LogInfo
  BY <1>1, <1>3, <1>6, <1>7 DEF LogInfo
<1>9. TailInfo
  BY <1>2, Zenon DEF TailInfo
<1> QED
  BY <1>1, <1>2, <1>5, <1>8, <1>9 DEF EInv

\* The steps of an open database that stays open.
LEMMA OpenEInv ==
  ASSUME TInv, TInv', MemoryInfo, TailInfo, ~ tail => LogInfo, Next, mode = "open", mode' = "open"
  PROVE  MemoryInfo' /\ TailInfo' /\ (~ tail' => LogInfo')
<1>0. FInv /\ FInv' /\ LogTypes /\ SkipTypes
  BY DEF TInv
<1>1. ~ CheckpointFails /\ ~ Crash /\ ~ LoadDatabase
  BY DEF CheckpointFails, Crash, LoadDatabase
<1>2. MemoryInfo'
  BY <1>0, <1>1, CommitMemory, CheckpointMemory DEF Next
<1>3. TailInfo'
  BY <1>0, TailNext
<1>4. CASE ResetWAL
  BY <1>0, <1>2, <1>3, <1>4, ResetWALLog
<1>5. CASE ~ ResetWAL
  <2>1. tail' = tail
    <3>1. \/ \E t \in Txn, checkpoint \in BOOLEAN : WriteToWAL(t, checkpoint)
          \/ FlushCommit \/ SyncLog \/ SkipLog \/ CommitFails
          \/ Checkpoint \/ Close
          \/ WriteTables \/ WriteCheckpoint \/ SyncMarker \/ FlushFreeList
          \/ SyncBlocks \/ WriteHeader \/ SyncHeader \/ TruncateBlocks
      BY <1>1, <1>5 DEF Next
    <3> QED
      BY <3>1, Zenon DEF WriteToWAL, FlushCommit, SyncLog, SkipLog, CommitFails, Checkpoint, Close,
         WriteTables, WriteCheckpoint, SyncMarker, FlushFreeList, SyncBlocks, WriteHeader, SyncHeader,
         TruncateBlocks, log
  <2>2. ASSUME LogInfo PROVE LogInfo'
    <3>1. ASSUME NEW t \in Txn, NEW checkpoint \in BOOLEAN, WriteToWAL(t, checkpoint)
          PROVE  LogInfo'
      BY <1>0, <1>2, <2>2, <3>1, WriteToWALLog
    <3>2. CASE FlushCommit \/ SyncLog \/ SkipLog \/ CommitFails
      BY <1>0, <1>2, <2>2, <3>2, FlushCommitLog, SyncLogLog, SkipLogLog, CommitFailsLog
    <3>3. CASE Checkpoint \/ Close \/ WriteTables \/ FlushFreeList \/ SyncBlocks
      BY <1>0, <2>2, <3>3, QuietLog
    <3>4. CASE WriteCheckpoint \/ SyncMarker \/ WriteHeader \/ SyncHeader \/ TruncateBlocks
      BY <1>0, <2>2, <3>4, WriteCheckpointLog, SyncMarkerLog, WriteHeaderLog, SyncHeaderLog
    <3> QED
      BY <1>1, <1>5, <3>1, <3>2, <3>3, <3>4 DEF Next
  <2>3. ASSUME ~ tail' PROVE LogInfo'
    <3>1. ~ tail
      BY <2>1, <2>3, Zenon
    <3> QED
      BY <2>2, <3>1
  <2> QED
    BY <1>2, <1>3, <2>3
<1> QED
  BY <1>4, <1>5

LEMMA NextEInv ==
  ASSUME CheckpointOnShutdown \subseteq {"open"}, CrashOverTail = FALSE, TInv, TInv', EInv, Next
  PROVE  EInv'
<1>0. FInv /\ FInv' /\ LogTypes /\ LogTypes'
  BY DEF TInv
<1>1. /\ mode \in {"open", "invalid", "down"} /\ mode' \in {"open", "invalid", "down"}
      /\ mode # "open" => step = "idle"
  BY <1>0 DEF FInv, FileTypes
<1>2. ASSUME Crash PROVE EInv'
  <2>1. mode \in {"open", "invalid"} /\ mode' = "down"
    BY <1>2 DEF Crash
  <2>2. ~ tail /\ ~ tail'
    BY <1>2, Zenon DEF Crash
  <2>3. CrashSafe
    BY <1>0, <2>1, <2>2, OpenCrashSafe DEF EInv
  <2>4. RestartGood'
    BY <1>0, <1>2, <2>3, CrashRestart
  <2> QED
    BY <2>1, <2>2, <2>4 DEF EInv
<1>3. CASE mode = "open" /\ mode' = "open"
  <2>1. MemoryInfo /\ TailInfo /\ (~ tail => LogInfo)
    BY <1>3 DEF EInv
  <2>2. MemoryInfo' /\ TailInfo' /\ (~ tail' => LogInfo')
    BY <1>3, <2>1, OpenEInv
  <2> QED
    BY <1>3, <2>2 DEF EInv
<1>4. CASE mode = "open" /\ mode' # "open"
  <2>1. MemoryInfo /\ TailInfo /\ (~ tail => LogInfo)
    BY <1>4 DEF EInv
  <2>2. Close \/ ResetWAL \/ CheckpointFails \/ Crash
    BY <1>4 DEF Next, WriteToWAL, FlushCommit, SyncLog, SkipLog, CommitFails, Checkpoint, WriteTables,
       WriteCheckpoint, SyncMarker, FlushFreeList, SyncBlocks, WriteHeader, SyncHeader, TruncateBlocks,
       LoadDatabase
  <2>3. CASE Close
    <3>1. mode' = "down"
      BY <1>4, <2>3 DEF Close
    <3>2. ~ tail' /\ RestartGood'
      BY <1>0, <1>4, <2>1, <2>3, <3>1, CloseRestart
    <3> QED
      BY <3>1, <3>2 DEF EInv
  <2>4. CASE ResetWAL
    <3>1. mode' = "down"
      BY <1>4, <2>4 DEF ResetWAL
    <3>2. ~ tail' /\ RestartGood'
      BY <1>0, <1>4, <2>1, <2>4, <3>1, ResetRestart
    <3> QED
      BY <3>1, <3>2 DEF EInv
  <2>5. CASE CheckpointFails
    <3>1. mode' = "invalid" /\ UNCHANGED <<wal, wal_synced, file, stable, outcome>>
      BY <2>5 DEF CheckpointFails, log, storage
    <3>2. tail' = tail
      BY <2>5, Zenon DEF CheckpointFails, log
    <3>3. ASSUME ~ tail' PROVE CrashSafe'
      <4>1. ~ tail
        BY <3>2, <3>3, Zenon
      <4>2. CrashSafe
        BY <1>0, <1>4, <2>1, <4>1, OpenCrashSafe
      <4> QED
        BY <3>1, <4>2, FailureSafe
    <3> QED
      BY <3>1, <3>3 DEF EInv
  <2> QED
    BY <1>2, <2>2, <2>3, <2>4, <2>5
<1>5. CASE mode = "invalid"
  <2>1. Crash
    BY <1>1, <1>5 DEF Next, WriteToWAL, FlushCommit, SyncLog, SkipLog, CommitFails, Checkpoint, Close,
       WriteTables, WriteCheckpoint, SyncMarker, FlushFreeList, SyncBlocks, WriteHeader, SyncHeader,
       TruncateBlocks, ResetWAL, CheckpointFails, Checkpointing, LoadDatabase
  <2> QED
    BY <1>2, <2>1
<1>6. CASE mode = "down"
  <2>1. LoadDatabase
    BY <1>1, <1>6 DEF Next, WriteToWAL, FlushCommit, SyncLog, SkipLog, CommitFails, Checkpoint, Close,
       WriteTables, WriteCheckpoint, SyncMarker, FlushFreeList, SyncBlocks, WriteHeader, SyncHeader,
       TruncateBlocks, ResetWAL, CheckpointFails, Checkpointing, Crash
  <2>2. RestartGood
    BY <1>6 DEF EInv
  <2>3. mode' = "open"
    BY <1>0, <2>1, LoadOpens
  <2>4. MemoryInfo' /\ TailInfo'
    BY <1>0, <2>1, <2>2, LoadMemory, LoadTail
  <2>5. ~ tail' => LogInfo'
    BY <1>0, <2>1, <2>2, <2>4, LoadLog
  <2> QED
    BY <2>3, <2>4, <2>5 DEF EInv
<1> QED
  BY <1>1, <1>3, <1>4, <1>5, <1>6

\* Whenever the database is open, a transaction is there completely and once or not
\* at all, and its clients were told nothing else: whatever interleaving of commits,
\* checkpoints, failures of either, crashes within them and restarts came before, and
\* whatever a crash left of the log and of the unsynced blocks and headers
\* (WriteAheadLog::Replay, SingleFileCheckpointWriter::CreateCheckpoint,
\* SingleFileBlockManager::WriteHeader).  It needs that no crash follows a restart that
\* left entries behind in the log, as the one of TornLog.cfg does, and that a database
\* with a fatal error is not checkpointed when it is closed.
THEOREM TransactionsExactlyOnce ==
  ASSUME CheckpointOnShutdown \subseteq {"open"}, CrashOverTail = FALSE
  PROVE  Spec => []ExactlyOnce
<1>1. Spec => []TInv
  BY TypesHold
<1>2. Init => EInv
  BY InitEInv
<1>3. TInv /\ TInv' /\ EInv /\ [Next]_vars => EInv'
  <2> SUFFICES ASSUME TInv, TInv', EInv, [Next]_vars PROVE EInv'
    OBVIOUS
  <2>1. CASE Next
    BY <2>1, NextEInv
  <2>2. CASE UNCHANGED vars
    <3>1. /\ mode' = mode /\ worker' = worker /\ step' = step /\ wal' = wal /\ wal_synced' = wal_synced
          /\ initial_wal_size' = initial_wal_size /\ file' = file /\ stable' = stable
          /\ new_header' = new_header /\ meta_block' = meta_block /\ rows' = rows
          /\ segment' = segment /\ outcome' = outcome
      BY <2>2 DEF vars
    <3>2. skip_writing' = skip_writing /\ tail' = tail
      BY <2>2, Zenon DEF vars
    <3>3. (MemoryInfo <=> MemoryInfo') /\ (CrashSafe <=> CrashSafe') /\ (RestartGood <=> RestartGood')
      BY <3>1 DEF MemoryInfo, Checkpointing, CrashSafe, Recovered, Base, RestartGood, Restored,
         AlreadyCheckpointed, ReadableLog, Replay, Committed
    <3>4. Logged' <=> Logged
      BY <3>1 DEF Logged
    <3>5. (LogInfo <=> LogInfo') /\ (TailInfo <=> TailInfo')
      <4>1. TailInfo <=> TailInfo'
        BY <3>1, <3>2, Zenon DEF TailInfo, Emptied
      <4>2. CommitLog <=> CommitLog'
        BY <3>1, <3>2, <3>4, Zenon DEF CommitLog, Replayable, Base
      <4> QED
        BY <3>1, <4>1, <4>2 DEF LogInfo, Replayable, Base
    <3> QED
      BY <3>1, <3>2, <3>3, <3>5, Zenon DEF EInv
  <2> QED
    BY <2>1, <2>2
<1>4. TInv /\ EInv => ExactlyOnce
  BY DEF TInv, FInv, FileTypes, EInv, MemoryInfo, Good, ExactlyOnce
<1> QED
  BY <1>1, <1>2, <1>3, <1>4, PTL DEF Spec
=============================================================================
