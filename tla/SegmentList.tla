----------------------------- MODULE SegmentList -----------------------------
(***************************************************************************)
(* The segment list of src/src/linked_list.h: blocks of entries_per_block *)
(* {location, size} entries, the trailing u32 of a block naming the next  *)
(* block, built by ll_append as chunk_and_replace proceeds and walked by  *)
(* ll_search_left on every read of a chunked file.                        *)
(*                                                                         *)
(* List blocks are buffer heads: load_block returns the cached buffer if  *)
(* there is one and reads the disk otherwise; the kernel may drop a clean *)
(* buffer and writes a dirty one back at any time (Evict, Writeback).  A *)
(* block handed out by the zone bitmap holds whatever a former owner left *)
(* on disk (Stale).                                                       *)
(*                                                                         *)
(* Once chunk_and_replace has switched the inode to chunked mode, a reader *)
(* with its own f_pos reads the file through chunked_file_read, seeks with *)
(* generic_file_llseek, and truncate(2) sets i_size through the default    *)
(* setattr (cominix_file_inode_operations is empty).  The heap is a map   *)
(* of blocks of bytes, read block by block as read_data_storage does; a   *)
(* payload byte is the pair <<location, offset in chunk>>.                *)
(***************************************************************************)
EXTENDS Naturals, Sequences, SequencesExt, FiniteSets

CONSTANTS
  Blocks,     \* zone numbers the bitmap can hand out (never 0)
  EPB,        \* entries_per_block(sb) = s_blocksize / 16 - 1
  Entries,    \* entries chunk_and_replace can append (size > 0)
  MaxCount,   \* bound on ll_size
  InitDisk,   \* possible on-disk contents of the blocks before chunking
  InitFree,   \* possible sets of zones free in the bitmap before chunking
  ReadCounts, \* count arguments of read(2)
  HeapBlocks, \* blocks of the chunk heap that chunks can occupy
  NotCached   \* no buffer head for the block

Empty == [location |-> 0, size |-> 0]
ZeroBlk == [slot |-> [i \in 0..EPB-1 |-> Empty], next |-> 0]

VARIABLES
  disk,     \* block -> its content on the device
  cache,    \* block -> content of its buffer head, or NotCached
  dirty,    \* block -> buffer marked dirty and not yet written back
  free,     \* blocks still free in the zone bitmap
  head,     \* zones[1]: first list block (0 before chunk_and_replace)
  end,      \* zones[3]: the tail block ll_append writes
  count,    \* zones[2]: ll_size
  crashed,  \* ll_alloc_new_block hit BUG_ON(!new)
  appended, \* history: the entries passed to ll_append, in order
  chunked,  \* the inode is in chunked mode with chunked_file_operations
  isize,    \* i_size of the inode
  rpos,     \* the reader's f_pos
  got,      \* the bytes the reader's reads returned since it rewound
  oops      \* chunked_file_read hit a BUG_ON

listVars == <<disk, cache, dirty, free, head, end, count, crashed, appended>>
readVars == <<chunked, isize, rpos, got, oops>>
vars == <<listVars, readVars>>

-----------------------------------------------------------------------------
\* load_block: the buffer head's data, read from disk if not cached
View(b) == IF cache[b] = NotCached THEN disk[b] ELSE cache[b]

\* mutant: an entry also owns the byte at its end offset
RECURSIVE SearchFromLe(_, _, _, _)
SearchFromLe(b, pos, accum, fuel) ==
  LET blk == View(b)
      RECURSIVE Scan(_, _)
      Scan(i, acc) ==
        IF i < EPB /\ blk.slot[i].size # 0
          THEN IF pos <= acc + blk.slot[i].size
                 THEN <<blk.slot[i], acc>>
                 ELSE Scan(i + 1, acc + blk.slot[i].size)
          ELSE IF blk.next = 0 THEN <<Empty, acc>>
               ELSE IF fuel = 0 THEN <<Empty, -1>>
               ELSE SearchFromLe(blk.next, pos, acc, fuel - 1)
  IN Scan(0, accum)

RECURSIVE SearchFrom(_, _, _, _)
\* ll_search_left(sb, b, pos, &accum) returning <<entry, accum>>; fuel
\* bounds the recursion: a chain longer than the zone count is a cycle,
\* on which the kernel recursion overflows its stack (accum -1)
SearchFrom(b, pos, accum, fuel) ==
  LET blk == View(b)
      RECURSIVE Scan(_, _)
      Scan(i, acc) ==
        IF i < EPB /\ blk.slot[i].size # 0
          THEN IF pos < acc + blk.slot[i].size
                 THEN <<blk.slot[i], acc>>
                 ELSE Scan(i + 1, acc + blk.slot[i].size)
          ELSE IF blk.next = 0 THEN <<Empty, acc>>
               ELSE IF fuel = 0 THEN <<Empty, -1>>
               ELSE SearchFrom(blk.next, pos, acc, fuel - 1)
  IN Scan(0, accum)

SearchLeft(pos) == SearchFrom(head, pos, 0, Cardinality(Blocks))

\* cominix_new_block_sb: the first zero bit of the zone bitmap
NewBlock == Min(free)

-----------------------------------------------------------------------------
Init ==
  /\ disk \in InitDisk
  /\ cache = [b \in Blocks |-> NotCached]
  /\ dirty = [b \in Blocks |-> FALSE]
  /\ free \in InitFree
  /\ head = 0
  /\ end = 0
  /\ count = 0
  /\ crashed = FALSE
  /\ appended = <<>>
  /\ chunked = FALSE
  /\ isize = 0
  /\ rpos = 0
  /\ got = <<>>
  /\ oops = FALSE

\* chunk_and_replace: head = ll_alloc_new_block(sb); zero_out_block(sb,
\* head); end = head; ll_size = 0.  zero_out_block memsets the buffer and
\* releases it without mark_buffer_dirty.
Create ==
  /\ head = 0
  /\ free # {}
  /\ LET b == NewBlock IN
       /\ head' = b
       /\ end' = b
       /\ free' = free \ {b}
       /\ cache' = [cache EXCEPT ![b] = ZeroBlk]
  /\ UNCHANGED <<readVars, disk, dirty, count, crashed, appended>>

\* mutant: ll_size incremented by ll_append and again by its caller
AppendInBlockDoubleCount(e) ==
  LET i == count % EPB
  IN /\ head # 0 /\ ~crashed /\ ~chunked /\ count < MaxCount
     /\ ~(i = 0 /\ count # 0)
     /\ cache' = [cache EXCEPT ![end] = [View(end) EXCEPT !.slot[i] = e]]
     /\ dirty' = [dirty EXCEPT ![end] = TRUE]
     /\ count' = count + 2
     /\ appended' = Append(appended, e)
     /\ UNCHANGED <<readVars, disk, free, head, end, crashed>>

\* ll_append into the current tail block: arr[ll_size % epb] = entry
AppendInBlock(e) ==
  LET i == count % EPB
  IN /\ head # 0 /\ ~crashed /\ ~chunked /\ count < MaxCount
     /\ ~(i = 0 /\ count # 0)
     /\ cache' = [cache EXCEPT ![end] = [View(end) EXCEPT !.slot[i] = e]]
     /\ dirty' = [dirty EXCEPT ![end] = TRUE]
     /\ count' = count + 1
     /\ appended' = Append(appended, e)
     /\ UNCHANGED <<readVars, disk, free, head, end, crashed>>

\* ll_append when the tail block is full: allocate, link the old tail's
\* ptr_next to it, memset it and store the entry in its slot 0
AppendNewBlock(e) ==
  /\ head # 0 /\ ~crashed /\ ~chunked /\ count < MaxCount
  /\ count % EPB = 0 /\ count # 0
  /\ free # {}
  /\ LET nb == NewBlock IN
       /\ cache' = [cache EXCEPT
                      ![end] = [View(end) EXCEPT !.next = nb],
                      ![nb] = [ZeroBlk EXCEPT !.slot[0] = e]]
       /\ dirty' = [dirty EXCEPT ![end] = TRUE, ![nb] = TRUE]
       /\ free' = free \ {nb}
       /\ end' = nb
  /\ count' = count + 1
  /\ appended' = Append(appended, e)
  /\ UNCHANGED <<readVars, disk, head, crashed>>

\* mutant: no BUG_ON(!new); zone 0 becomes the tail
AppendAllocFailNoBug ==
  /\ head # 0 /\ ~crashed /\ ~chunked /\ count < MaxCount
  /\ count % EPB = 0 /\ count # 0
  /\ free = {}
  /\ end' = 0
  /\ count' = count + 1
  /\ UNCHANGED <<readVars, disk, cache, dirty, free, head, crashed, appended>>

\* ll_alloc_new_block: cominix_new_block_sb returned 0, BUG_ON(!new)
AppendAllocFail ==
  /\ head # 0 /\ ~crashed /\ ~chunked /\ count < MaxCount
  /\ count % EPB = 0 /\ count # 0
  /\ free = {}
  /\ crashed' = TRUE
  /\ UNCHANGED <<readVars, disk, cache, dirty, free, head, end, count, appended>>

\* the kernel drops a clean buffer head
Evict(b) ==
  /\ cache[b] # NotCached /\ ~dirty[b]
  /\ cache' = [cache EXCEPT ![b] = NotCached]
  /\ UNCHANGED <<readVars, disk, dirty, free, head, end, count, crashed, appended>>

\* the kernel writes a dirty buffer head back
Writeback(b) ==
  /\ dirty[b]
  /\ disk' = [disk EXCEPT ![b] = cache[b]]
  /\ dirty' = [dirty EXCEPT ![b] = FALSE]
  /\ UNCHANGED <<readVars, cache, free, head, end, count, crashed, appended>>

-----------------------------------------------------------------------------
(* Refinement: the populated slots of the chain, in order, are the entries *)
(* of SegmentListSpec.                                                     *)

RECURSIVE ChainOf(_, _)
ChainOf(b, n) == IF n = 0 \/ b = 0 THEN <<>> ELSE <<b>> \o ChainOf(View(b).next, n - 1)

Slots(b) == [k \in 1..EPB |-> View(b).slot[k - 1]]

ListEntries ==
  IF head = 0 THEN <<>>
  ELSE LET flat == FlattenSeq([k \in 1..Cardinality(Blocks) |->
                     LET ch == ChainOf(head, Cardinality(Blocks))
                     IN IF k <= Len(ch) THEN Slots(ch[k]) ELSE <<>>])
       IN SubSeq(flat, 1, IF count <= Len(flat) THEN count ELSE Len(flat))

Abstract == INSTANCE SegmentListSpec WITH entries <- ListEntries

-----------------------------------------------------------------------------
(* The read path of a chunked file.                                       *)

\* chunk_and_replace after its loop: BUG_ON(f_pos != i_size), the original
\* blocks truncated, switch_inode_to_chunked, zones[1..3] = head, ll_size,
\* end, cominix_write_inode and cominix_set_inode installing
\* chunked_file_operations.  By the loop, i_size is the sum of the sizes
\* appended.
Finish ==
  /\ head # 0 /\ ~crashed /\ ~chunked
  /\ chunked' = TRUE
  /\ isize' = Abstract!TotalSize(appended)
  /\ UNCHANGED <<listVars, rpos, got, oops>>

\* s_blocksize, from entries_per_block(sb) = s_blocksize / 16 - 1, and
\* sizeof(struct chunk_head): u64 hash, u32 length, u16 refcount, u16
\* flags, blockoff_t next
BlockSize == 16 * (EPB + 1)
HeadSize == 24

\* block_no and inblock_offset of a heap offset
BlockNo(off) == off \div BlockSize
InblockOffset(off) == off % BlockSize

\* a heap byte never written, and a byte of a chunk_head
Unwritten == <<0, 0>>
HeadByte(e) == <<0, e.location>>

RECURSIVE WriteBlocks(_, _, _, _)
\* the copy loop of write_data_storage from in-block offset off of block b:
\* to_write = min(room left in the block, remaining), then get_next_block
\* (b + 1, from its start) while bytes remain
WriteBlocks(heap, b, off, data) ==
  IF data = <<>> THEN heap
  ELSE LET n == Min({BlockSize - off, Len(data)})
           blk == [i \in 0..BlockSize - 1 |->
                     IF off <= i /\ i < off + n THEN data[i - off + 1]
                     ELSE heap[b][i]]
       IN WriteBlocks([heap EXCEPT ![b] = blk], b + 1, 0,
                      SubSeq(data, n + 1, Len(data)))

\* write_data_storage(sb, storage, data, length): load_blockoff gives the
\* first block and the offset into it
WriteDataStorage(heap, storage, data) ==
  WriteBlocks(heap, BlockNo(storage), InblockOffset(storage), data)

\* copy_chunk_into_storage: the chunk_head at the chunk's location, its
\* payload right after it; byte k of the payload is <<location, k>>
CopyChunkIntoStorage(heap, e) ==
  WriteDataStorage(
    WriteDataStorage(heap, e.location, [j \in 1..HeadSize |-> HeadByte(e)]),
    e.location + HeadSize,
    [k \in 1..e.size |-> <<e.location, k - 1>>])

\* the heap as chunk_fill_hashtable left it for every chunk the chunker
\* may append (their extents are disjoint, so the order does not matter)
Heap ==
  FoldSet(LAMBDA e, h : CopyChunkIntoStorage(h, e),
          [b \in HeapBlocks |-> [i \in 0..BlockSize - 1 |-> Unwritten]],
          Entries)

RECURSIVE ReadBlocks(_, _, _)
\* the copy loop of read_data_storage: to_read = min(room left in the
\* block, remaining) bytes from offset off of block b, then get_next_block
ReadBlocks(b, off, remaining) ==
  IF remaining <= 0 THEN <<>>
  ELSE LET n == Min({BlockSize - off, remaining})
       IN [i \in 1..n |-> Heap[b][off + i - 1]]
            \o ReadBlocks(b + 1, 0, remaining - n)

\* read_data_storage(sb, storage, buf, length)
ReadDataStorage(storage, length) ==
  ReadBlocks(BlockNo(storage), InblockOffset(storage), length)

\* mutant: to_read forgets the offset into the chunk
CopyIntoBufferNoOffset(e, n, off) ==
  LET toRead == Min({n, e.size})
  IN IF toRead <= 0 THEN <<>>
     ELSE ReadDataStorage(e.location + HeadSize + off, toRead)

\* chunk_copy_into_buffer: to_read = min(count, size - pos); nothing when
\* it is not positive; else to_read bytes from location +
\* sizeof(struct chunk_head) + pos
CopyIntoBuffer(e, n, off) ==
  LET toRead == Min({n, e.size - off})
  IN IF toRead <= 0 THEN <<>>
     ELSE ReadDataStorage(e.location + HeadSize + off, toRead)

\* mutant: the early return tests *pos > i_size
ChunkedReadNoEofCheck(n) ==
  /\ chunked /\ ~oops
  /\ LET r == SearchLeft(rpos)
         bytes == CopyIntoBuffer(r[1], n, rpos - r[2])
     IN IF r[1].location = 0 \/ r[1].size = 0 \/ r[2] < 0
          THEN oops' = TRUE /\ UNCHANGED <<rpos, got>>
          ELSE /\ rpos' = rpos + Len(bytes)
               /\ got' = got \o bytes
               /\ UNCHANGED oops
  /\ UNCHANGED <<listVars, chunked, isize>>

\* chunked_file_read(filp, buf, n, &f_pos): 0 at or past i_size; else
\* ll_search_left from zones[1], BUG_ON(!chunk.location || !chunk.size)
\* (a chain the recursion cannot finish oopses too), copy from the offset
\* into the chunk, and advance f_pos by what was copied
ChunkedRead(n) ==
  /\ chunked /\ ~oops
  /\ \/ /\ rpos >= isize
        /\ UNCHANGED <<rpos, got, oops>>
     \/ /\ rpos < isize
        /\ LET r == SearchLeft(rpos)
               bytes == CopyIntoBuffer(r[1], n, rpos - r[2])
           IN IF r[1].location = 0 \/ r[1].size = 0 \/ r[2] < 0
                THEN oops' = TRUE /\ UNCHANGED <<rpos, got>>
                ELSE /\ rpos' = rpos + Len(bytes)
                     /\ got' = got \o bytes
                     /\ UNCHANGED oops
  /\ UNCHANGED <<listVars, chunked, isize>>

\* generic_file_llseek(SEEK_SET)
Seek(p) ==
  /\ chunked /\ ~oops
  /\ rpos' = p
  /\ got' = <<>>
  /\ UNCHANGED <<listVars, chunked, isize, oops>>

\* truncate(2): with no setattr in cominix_file_inode_operations the VFS
\* sets i_size, larger or smaller; cominix_truncate is never called
Setattr(sz) ==
  /\ chunked /\ ~oops
  /\ isize' = sz
  /\ UNCHANGED <<listVars, chunked, rpos, got, oops>>

\* the list is complete (or the chunker oopsed): nothing more happens
Done == (crashed \/ count = MaxCount \/ oops) /\ UNCHANGED vars

\* inputs of the read path: rewinding (1-byte reads reach every offset),
\* and truncating to one byte less than, exactly, or one byte more than
\* the chunked size
SeekTargets == {0}
TruncSizes ==
  {sz \in {Abstract!TotalSize(appended) + d : d \in {-1, 0, 1}} : sz >= 0}

Next ==
  \/ Create
  \/ \E e \in Entries : AppendInBlock(e) \/ AppendNewBlock(e)
  \/ AppendAllocFail
  \/ \E b \in Blocks : Evict(b) \/ Writeback(b)
  \/ Finish
  \/ \E n \in ReadCounts : ChunkedRead(n)
  \/ \E p \in SeekTargets : Seek(p)
  \/ \E sz \in TruncSizes : Setattr(sz)
  \/ Done

Spec == Init /\ [][Next]_vars

-----------------------------------------------------------------------------
TypeOK ==
  /\ head \in Blocks \cup {0}
  /\ end \in IF head = 0 THEN {0} ELSE Blocks
  /\ count \in 0..MaxCount
  /\ free \subseteq Blocks
  /\ DOMAIN cache = Blocks
  /\ dirty \in [Blocks -> BOOLEAN]
  /\ crashed \in BOOLEAN
  /\ chunked \in BOOLEAN /\ oops \in BOOLEAN
  /\ isize \in Nat /\ rpos \in Nat

\* The chain built by ll_append, read back through the buffer cache, is
\* an append-only list of exactly the entries chunk_and_replace appended:
\* no eviction, write-back or block allocation changes an entry already
\* in the list.
AbsSpec == Abstract!Spec

\* Every byte offset below the file size is found by ll_search_left: it
\* returns the entry appended for that byte and the offset at which that
\* entry starts, whatever stale data the allocated zones held and however
\* the kernel evicted and wrote back their buffers.
LocateCorrect ==
  \A pos \in 0..Abstract!TotalSize(appended) - 1 :
     SearchLeft(pos) = Abstract!Locate(appended, pos)

\* Spec 4.3: when the offset lies past every entry, ll_search_left walks
\* off the end of the list and fails explicitly with {0, 0}.
ExhaustedFails ==
  count > 0 =>
    SearchLeft(Abstract!TotalSize(appended))
      = <<Empty, Abstract!TotalSize(appended)>>

\* the content of a file chunked into the entries s, in order: byte k of an
\* entry is byte k of the payload stored at its location
FileBytes(s) ==
  FlattenSeq([i \in 1..Len(s) |-> [k \in 1..s[i].size |-> <<s[i].location, k - 1>>]])

\* Reading a chunked file gives back what was chunked: the bytes that
\* successive chunked_file_read calls return from offset 0 on, each
\* starting at the f_pos the last one advanced, are the file's bytes in
\* order, none skipped or repeated, whatever truncates came in between and
\* however the list blocks were cached.  Past the chunked size (i_size
\* grown by truncate) nothing is claimed: the read oopses, or returns what
\* a stale head block names (see ExhaustedFails).
ReadReturnsFileBytes ==
  LET fb == FileBytes(appended)
      k == Min({Len(got), Len(fb)})
  IN SubSeq(got, 1, k) = SubSeq(fb, 1, k)

\* The comment in cominix_truncate: a read of a chunked file oopses in
\* chunked_file_read only when i_size was raised past the chunks of the list
\* (truncate(2) growing the file); reads at or past a smaller i_size, after
\* a seek or a shrinking truncate, return 0.
OopsOnlyWhenGrown == oops => isize > Abstract!TotalSize(appended)

=============================================================================
