----------------------------- MODULE BlockFile -----------------------------
(***************************************************************************)
(* The database file (single_file_block_manager.cpp) and the metadata      *)
(* blocks in it (metadata_manager.cpp): which blocks are free, when the    *)
(* blocks of an old checkpoint become free, and the two headers.           *)
(*                                                                         *)
(* The managers' state is a record bm that the operators take and return:  *)
(*    free_list, modified_blocks   sets of block ids                       *)
(*    max_block                    blocks of the file                      *)
(*    active_header, iteration_count                                       *)
(*    blocks      metadata blocks: their free parts and their contents     *)
(*    modified    the parts that the last checkpoint occupies              *)
(* A block holds a table's rows or METADATA_BLOCK_COUNT parts.  Blocks     *)
(* shared by several segments (multi_use_blocks) are left out.             *)
(***************************************************************************)
EXTENDS Integers, FiniteSetsExt

CONSTANTS
    METADATA_BLOCK_COUNT,
    INVALID_BLOCK,
    MaxBlock            \* bound: blocks of the file

ASSUME BlockConstants ==
    /\ METADATA_BLOCK_COUNT \in Nat \ {0}
    /\ MaxBlock \in Nat
    /\ INVALID_BLOCK \notin Int /\ INVALID_BLOCK \notin Int \X Int

BlockId == 0..MaxBlock - 1
Index   == 0..METADATA_BLOCK_COUNT - 1

Empty == [type |-> "empty"]
EmptyHeader ==
    [iteration |-> 0, meta_block |-> INVALID_BLOCK, free_list |-> INVALID_BLOCK, block_count |-> 0]

\* CreateNewDatabase: the file, and the managers of a file without blocks.
NewFile == [header |-> [h \in 0..1 |-> EmptyHeader], block |-> [b \in BlockId |-> Empty]]
NoBlocks == [b \in {} |-> {}]
NewManager ==
    [free_list |-> {}, modified_blocks |-> {}, max_block |-> 0, active_header |-> 1,
     iteration_count |-> 0, blocks |-> NoBlocks, modified |-> NoBlocks]
-----------------------------------------------------------------------------
(* Blocks.                                                                 *)

GetFreeBlockId(bm) ==
    IF bm.free_list # {}
    THEN [block |-> Min(bm.free_list),
          bm    |-> [bm EXCEPT !.free_list = @ \ {Min(@)}]]
    ELSE [block |-> bm.max_block, bm |-> [bm EXCEPT !.max_block = @ + 1]]

MarkBlockAsModified(bm, b) ==
    IF b = INVALID_BLOCK THEN bm ELSE [bm EXCEPT !.modified_blocks = @ \cup {b}]

\* AllocateHandle: a free part of a metadata block, of any that has one (they
\* are kept in an unordered map), or the first part of a new block.
AllocateHandle(bm) ==
    LET roomy == {b \in DOMAIN bm.blocks : bm.blocks[b].free_blocks # {}}
        fresh == GetFreeBlockId(bm)
        new   == [free_blocks |-> Index \ {0}, content |-> [i \in Index |-> Empty]]
    IN  IF roomy = {}
        THEN {[pointer |-> <<fresh.block, 0>>,
               bm      |-> [fresh.bm EXCEPT !.blocks =
                               [b \in DOMAIN @ \cup {fresh.block} |->
                                   IF b = fresh.block THEN new ELSE @[b]]]]}
        ELSE {[pointer |-> <<b, Min(bm.blocks[b].free_blocks)>>,
               bm      |-> [bm EXCEPT !.blocks[b].free_blocks = @ \ {Min(@)}]] : b \in roomy}

WritePart(bm, p, part) == [bm EXCEPT !.blocks[p[1]].content[p[2]] = part]

\* Mutation of MarkBlocksAsModified: the parts that the new checkpoint occupies
\* are released with those of the last one.
MarkBlocksAsModified_Eager(bm) ==
    [bm EXCEPT !.blocks = [b \in DOMAIN @ |-> [@[b] EXCEPT !.free_blocks = Index]],
               !.modified = [b \in DOMAIN bm.blocks |-> {}]]

\* Mutation of MarkBlocksAsModified: a block without occupied parts is dropped
\* and not handed to the block manager.
MarkBlocksAsModified_Leak(bm) ==
    LET free(b) == bm.blocks[b].free_blocks
                       \cup (IF b \in DOMAIN bm.modified THEN bm.modified[b] ELSE {})
        kept    == {b \in DOMAIN bm.blocks : free(b) # Index}
    IN  [bm EXCEPT !.blocks   = [b \in kept |-> [@[b] EXCEPT !.free_blocks = free(b)]],
                   !.modified = [b \in kept |-> Index \ free(b)]]

\* MetadataManager::MarkBlocksAsModified: the parts of the last checkpoint are
\* free now, blocks with nothing else are modified as a whole, and the parts
\* occupied now are released the next time.
MarkBlocksAsModified(bm) ==
    LET free(b) == bm.blocks[b].free_blocks
                       \cup (IF b \in DOMAIN bm.modified THEN bm.modified[b] ELSE {})
        freed   == {b \in DOMAIN bm.modified : free(b) = Index}
        kept    == DOMAIN bm.blocks \ freed
    IN  [bm EXCEPT !.blocks   = [b \in kept |-> [@[b] EXCEPT !.free_blocks = free(b)]],
                   !.modified_blocks = @ \cup freed,
                   !.modified = [b \in kept |-> Index \ free(b)]]
-----------------------------------------------------------------------------
(* The header and the free list.                                           *)

\* WriteHeader up to metadata_manager.Flush(): the outcomes for the managers,
\* with the header that is to be written.  The part for the free list is taken
\* before the modified blocks become free.
WriteFreeList(bm, meta_block) ==
    {LET marked == MarkBlocksAsModified(h.bm)
         freed  == [marked EXCEPT !.iteration_count = @ + 1,
                                  !.free_list = @ \cup marked.modified_blocks,
                                  !.modified_blocks = {}]
         part   == [type |-> "free_list", iteration |-> freed.iteration_count,
                    free_list |-> freed.free_list,
                    blocks |-> [b \in DOMAIN freed.blocks |-> freed.blocks[b].free_blocks]]
     IN  [bm     |-> WritePart(freed, h.pointer, part),
          header |-> [iteration   |-> freed.iteration_count, meta_block |-> meta_block,
                      free_list   |-> h.pointer, block_count |-> freed.max_block]]
     : h \in AllocateHandle(bm)}

\* MetadataManager::Flush: every metadata block is written, in place.
FlushMetadata(block, bm) ==
    [b \in BlockId |-> IF b \in DOMAIN bm.blocks
                       THEN [type |-> "metadata", content |-> bm.blocks[b].content]
                       ELSE block[b]]

\* Truncate: free blocks at the end of the file are cut off.
Truncate(bm) ==
    LET n == Min({m \in 0..bm.max_block : m..bm.max_block - 1 \subseteq bm.free_list})
    IN  [bm EXCEPT !.max_block = n, !.free_list = {b \in @ : b < n}]
TruncateFile(block, bm) == [b \in BlockId |-> IF b < bm.max_block THEN block[b] ELSE Empty]

\* LoadExistingDatabase: the header with the larger iteration.
ActiveHeader(header) == IF header[0].iteration > header[1].iteration THEN 0 ELSE 1

\* The part that a pointer leads to in these blocks.
PartAt(block, p) ==
    IF p # INVALID_BLOCK /\ block[p[1]].type = "metadata"
    THEN block[p[1]].content[p[2]] ELSE Empty

\* LoadExistingDatabase, LoadFreeList: the managers after opening the file.
LoadManager(file) ==
    LET active == ActiveHeader(file.header)
        h      == file.header[active]
        part   == PartAt(file.block, h.free_list)
        loaded == [NewManager EXCEPT !.active_header = active, !.iteration_count = h.iteration,
                                     !.max_block = h.block_count]
    IN  IF h.free_list = INVALID_BLOCK
        THEN loaded
        ELSE MarkBlocksAsModified(
                 [loaded EXCEPT !.free_list = part.free_list,
                                !.blocks = [b \in DOMAIN part.blocks |->
                                               [free_blocks |-> part.blocks[b],
                                                content |-> file.block[b].content]]])
=============================================================================
