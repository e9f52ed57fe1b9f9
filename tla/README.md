# TLA+ models of cominix-fs

cominix-fs is a Linux kernel module: a Minix V3 filesystem extended with a
content-defined-chunking (CDC) deduplication layer. A user writes a path to
`/proc/fs/cominix/chunker`. The module then rewrites that file as a list of
references to content-addressed chunks in a persistent, hash-indexed heap
on the same device. This directory holds TLA+ models of that code, the
TLC configurations that check them, and (in `PROJECT.json`) the mapping of
every model definition to the source lines it translates.

## 1. Inventory

### Components and their state

| Component | Source | State | Operations |
|---|---|---|---|
| Chunk store | `src/src/chunk_handler.c` | In memory (`cominix_sb_info`): `heap_brk`, `hashtable`, `hashtable_size`, `max_brk`. On disk: the hash table (array of u64 chunk locations, 0 = empty); the heap of chunks (`struct chunk_head {hash, length, refcount, flags, next}` + payload); `esb->heap_brk`. Locks `brk_lock` and `chunk_edge_write_lock`. | `chunk_reset_hashtable`, `chunk_alloc` (+ `update_brk_on_disk`), `chunk_search_hashtable`, `chunk_fill_hashtable` (+ `copy_chunk_into_storage`, `write_data_storage`), `chunk_copy_into_buffer` (+ `read_data_storage`), `load_blockoff` |
| Chunking pipeline | `src/src/file.c` `chunk_and_replace` | Per file: `f_pos`, the segment list head/tail/count, `i_size`, `i_data` zones, `i_fop` | loop: cdc → read → md5 → lookup-or-insert → `ll_append`; then truncate, restore size, zones[1..3] = head/count/tail, `cominix_write_inode`, `cominix_set_inode` |
| Segment list | `src/src/linked_list.h` | Blocks of `entries_per_block = blocksize/16 - 1` `{location, size}` entries; the last u32 of a block is the next-block number | `ll_append`, `ll_search_left` (recursive), `ll_alloc_new_block`, `zero_out_block` |
| Boundary detector | `src/cdc.h`, `src/gear_table.c` | none (pure); a 256-entry u64 gear table | `cdc_get_chunk_size(filp, pos)` |
| Chunked read path | `src/src/file.c` `chunked_file_read` | the reader's `*pos` | locate the segment, copy at most one segment's bytes, advance `*pos` |
| Control plane | `src/src/file.c` `cminix_proc_write` | the inode lock of the target file | open the path, check the fs type, regular file and not yet chunked, then `chunk_and_replace` under `inode_lock` |
| Bitmap allocator | `src/src/bitmap.c`, `src/cominix.h` | inode and zone bitmaps (buffer heads), `bitmap_lock` | `cominix_new_block(_sb)`, `cominix_free_block`, `cominix_new_inode`, `cominix_free_inode`, `count_free` |
| Superblock / mount | `src/src/inode.c` | `cominix_sb_info`, primary super block, extra super block location in `s_pad0/s_pad1` | `cominix_fill_super`, `cminix_fill_extra_super`, `cminix_alloc_extra_super`, `cominix_remount`, `cominix_put_super` |
| Inode lifecycle | `src/src/inode.c` | in-core inode, raw V2 inode | `cominix_iget`, `cominix_write_inode`, `cominix_truncate`, `cominix_evict_inode`, `cominix_set_inode` |
| Names and directories | `src/src/namei.c` | directory entries (code not in this repository) | lookup, create, link, unlink, rename, mkdir, rmdir |
| MD5 wrapper | `src/src/md5_wrapper.h` | none | `md5_hash` via the kernel crypto API |

### How they interact

The only entry point into the dedup layer is a write to the proc file. It
calls `chunk_and_replace` under the target inode's lock. That function
calls `cdc_get_chunk_size`, `kernel_read`, `md5_hash`, then
`chunk_search_hashtable` and, on a miss, `chunk_fill_hashtable`, then
`ll_append`. Segment-list blocks and the extra super block come from the
zone bitmap (`cominix_new_block_sb`). Reads of a chunked file go through
`chunked_file_read` → `ll_search_left` → `chunk_copy_into_buffer`. All
on-disk state is buffer-head memory: it is marked dirty and written back
by the kernel, in no fixed order.

### What is hard

* **Concurrency.** Each proc write runs `chunk_and_replace` in the writer's
  process. Only the target inode is locked, so chunkers of different files
  share the heap break, the hash table and the heap. `brk_lock` covers only
  the bump in `chunk_alloc`. The persisting of the break, the bucket-head
  read-modify-write and the header/payload writes all run unlocked.
* **Ordering.** A new chunk is published in its bucket before its header
  is written.
* **Failure.** Heap exhaustion `BUG()`s with `brk_lock` held and the
  in-memory break already advanced. Segment-list and bitmap exhaustion
  also end in `BUG()`.
* **Crashes.** Every persistent update is a dirty buffer written back in
  any order. The pipeline truncates the original file before it writes
  the chunked metadata.
* **Numeric edges.** The header-straddle realignment, the exhaustion
  boundary, the segment-list block-full boundary, and the CDC size
  envelope (min / normal / max).

### What makes each component correct

* Chunk store: allocations never overlap and never straddle a header
  across blocks; every stored chunk stays reachable from its bucket; a
  lookup never reads an unwritten header; a content is stored once; the
  persisted break covers every chunk and never regresses; exhaustion
  leaves no trace.
* Pipeline and read path: reading a chunked file returns exactly the
  original bytes (round trip); every segment entry's size equals the
  stored chunk's length.
* Segment list: after any sequence of appends, `ll_search_left` returns
  the entry owning any offset below the total, with the right start
  offset. The block structure implements an append-only sequence.
* CDC: every chunk is between MinSize and MaxSize except a short last one;
  the chunks tile the file exactly.
* Control plane: a file is never chunked twice; every path out of the
  handler releases the inode lock.
* Bitmap: a block is never handed out twice, and a failed allocation
  leaves no bit set.

## 2. Plan

Modules in order of importance. Done ones are marked ✓.

1. ✓ **ChunkStore**: the shared store under concurrent chunkers. This is
   where the system's concurrency is, and so its hardest behaviour.
2. ✓ **SegmentList**: `ll_append` / `ll_search_left` over blocks of
   `entries_per_block` entries. **SegmentListSpec** is an abstract
   sequence of entries with a prefix-sum lookup, and SegmentList is shown
   to implement it via `INSTANCE ... WITH` (entries ↦ the concatenation of
   the blocks' populated slots).
3. ✓ **Cdc**: `cdc_get_chunk_size` as a RECURSIVE operator over w-bit
   arithmetic with a small gear table. It is checked against a reference
   definition over all short byte strings, plus the size-envelope and
   tiling properties.
4. ½ **ChunkedRead** ✓ is part of SegmentList: `chunked_file_read` after
   the finalisation of `chunk_and_replace`, with truncates and rewinds,
   checked for the byte-for-byte round trip (spec 8.4). **Pipeline**
   (one module composing Cdc, SegmentList and the store, with a crash
   between the finalisation steps) is still open.
5. ✓ **ProcChunker**: `cminix_proc_write` with several writers naming the
   same or different files (inode lock, already-chunked refusal, error
   paths).
6. ✓ **Volume** (was "Bitmap"): zone and inode allocation under
   `bitmap_lock`, composed with the inode lifecycle (create, link,
   unlink, rename, mkdir, rmdir, symlink, tmpfile, open, evict, truncate) and the two concurrent users of the zone
   map, ordinary writes and chunkings.
7. ½ **Mount** ✓ is part of ChunkStore: a fresh volume is mounted, chunked,
   unmounted and mounted again, and the hash table and heap break come back
   from the extra super block. Crashes between buffer write-backs are still
   open: spec §7 assumes a crash-consistent device, and the code has no
   recovery that a model could check.

## 3. Modules and runs

### ChunkStore (`ChunkStore.tla`, `MC_ChunkStore.tla`)

Models the chunk store together with the lookup-or-insert loop of
`chunk_and_replace`, for a set `Threads` of concurrent chunkers. Each
thread's file is a sequence of chunk contents, any member of `Files`.
CDC, `kernel_read` and `md5_hash` are thread-local and are folded into
`NextChunk`. A content is a model value: `HashOf[c]` is its truncated md5
and `LenOf[c]` its byte length.

State ↔ code:
* `table[b]`: the on-disk hash table entry at `hashtable + b*8`.
* `hdr[a]`, `payload[a]`: the chunk header and payload bytes at heap
  offset `a`. A header never written reads as zeros (`Zero`). This
  assumes a heap region that was zero when the volume was made (a
  zero-filled device): neither the code nor the spec zeroes it, only the
  table. The assumption matters only where a search reads a header before
  `copy_chunk_into_storage` writes it (`store_unwritten_read`). With a
  garbage `next` that search could follow any pointer, and `Termination`
  would not hold.
* `brk`: `cominix_sb(sb)->heap_brk`. `diskBrk`: `esb->heap_brk`.
  `brkLock`: `brk_lock`.
* Per thread: `pc`, `cur` (metadata/buf), `cursor` (`chunk_location` in
  the search loop), `fresh` (`chunk_alloc`'s result), `brkSeen` (the
  `*brk` argument of `update_brk_on_disk`), `headSeen`
  (`metadata->next`), `loc`, and `segs` (the entries given to
  `ll_append`).
* `allocated` is a history variable: the extents `chunk_alloc` returned.
* Across mounts: `mounted`, `mounts` (a count bounded by `MaxMounts`),
  `esbLoc` (`sbi->extra_sb_location`, i.e. `s_pad0/s_pad1`; 0 before the
  first mount) and `chunkedFiles`, a history of the files that earlier
  chunkings finished, with their segment entries.

Mount lifecycle. `Init` is a fresh volume that was never mounted.
`Mount` is `cominix_fill_super`. It reads `s_pad`, then runs
`cminix_fill_extra_super`. With no extra super block it takes the
defaults (`heap_brk = hashtable + hashtable_size`) and
`cminix_alloc_extra_super` then allocates zone `EsbZone`, writes the
defaults into it and runs `chunk_reset_hashtable` (`ResetHashtable`).
Otherwise it loads `heap_brk` from the stored copy. `Unmount` is
`cominix_put_super`; it needs every chunker to be idle or done. `Start` is
a `/proc` write that begins `chunk_and_replace` on a mounted volume.

Every action is one access to shared state, in code order:
`SearchHead` and `SearchStep` (one per chain node) are
`chunk_search_hashtable`. `LockBrk`, `Alloc` and `AllocFail` are
`chunk_alloc`; `Alloc` also releases the lock, and `AllocFail` is the
`BUG()` that keeps it. `PersistRead` and `PersistWrite` are
`update_brk_on_disk(sb, *brk)`, called after the unlock. `LinkRead` and
`LinkWrite` are lines 235–237 of `chunk_fill_hashtable`. `WriteHeader`
and `WriteData` are `copy_chunk_into_storage`. `LlAppend` is the append
in `chunk_and_replace`.

Constants: block size 8, header size 3, heap start 8, a two-bucket
table. Contents a and b collide in bucket 1; c is in bucket 0. The
lengths (2, 3, 1) make the header straddle a block boundary within a few
allocations.

| Run | Expect | Checks | Shows |
|---|---|---|---|
| `store_seq` | pass | TypeOK, DedupUnique, ChainComplete, NothingPastMaxBrk, AllocationsDisjoint, ReadBack, PersistedBrkMonotone | One chunker, over all 40 files of ≤3 chunks, on a heap (max_brk 25) that the longer files exhaust, across two mounts. Each content is stored once. Every chunk stays on its bucket's chain. The failing allocation writes nothing at or past max_brk (spec 8.7). `esb->heap_brk` never regresses. After a remount, new extents stay clear of the earlier mount's extents, and files chunked before the remount still read back. |
| `store_conc` | pass | AllocationsDisjoint, HeadersInOneBlock, ReadBack, Termination | Two chunkers on one mount. Extents never overlap (spec 8.6). Headers never straddle a block. Every segment entry reads back its file's content. On a heap (max_brk 28) that some choices of files exhaust, every chunker that starts scanning returns or oopses, unless it waits in `mutex_lock(&brk_lock)` behind a chunker that oopsed holding it (`Termination`); deadlock checking is off because that wait is real. |
| `store_lost_link` | violation | ChainComplete | Two inserts into one bucket lose a chunk from the chain. |
| `store_unwritten_read` | violation | NoUnwrittenHeaderRead | A lookup follows the bucket head to a chunk whose header is not yet written. |
| `store_disk_brk` | violation | PersistedBrkMonotone | The persisted break goes backwards. |
| `store_exhaust_leak` | violation | NothingPastMaxBrk | The failing allocation's break reaches the disk through the other chunker. |

The four violations are the findings in `PROJECT.json`. Three of them
contradict spec §4.2, §5 and §8.7: the spec says the bucket update and
the break write-back happen under the heap lock, and that the header is
written before the bucket head is replaced; the code does neither. The
consequences, from the traces: duplicate storage (lost link, unwritten
header read), live chunks reused after a remount (regressed break), and
a volume whose heap is permanently exhausted (leaked failed break).
DedupUnique also fails with two chunkers that hold the same content (the
lookup-then-insert race). Spec §5 acknowledges that race, so it is
checked only with one chunker.

**Bounds.** Two threads are enough for every race above: each is between
two accesses of one thread and one access of another. The files of two
chunks, drawn from contents that collide, make a bucket chain of length
≥2 and both hit and miss paths happen. `store_seq` enumerates every file
of up to three chunks, and two mounts: the second mount reloads the state
the first one left, which is all a remount can get wrong. A third mount
would repeat that step.

Mutants of the mount path: if `FillExtraSuper` ignores the stored
extra super block and always takes the defaults, a remount hands out
extents of the first mount again, and both `AllocationsDisjoint` and
`ReadBack` fail. If the search accepts the first chain node of the same bucket,
without comparing the full hash (`SearchStepByBucket`), `ReadBack` fails.

**Fairness.** Weak fairness per thread (`WF_vars(Step(t))`). The kernel
scheduler eventually runs every runnable thread. `brk_lock` is a mutex
held for a bounded number of steps, so a waiter is not starved when the
other chunkers have finite work. A `BUG()` in `chunk_alloc` with
`brk_lock` held really does stop every other chunker that needs an
allocation, so `store_conc` and `store_exhaust_leak` turn deadlock checking
off, and `Termination` names that wait (`BrkLockLost`) as the one way a
chunker may fail to return.

**Not modelled here.** Byte contents (a payload is one model value), the
block-by-block walk of `write_data_storage` (it is in SegmentList) and
`chunk_edge_write_lock` (payload extents are disjoint, which `AllocationsDisjoint` checks, so
unordered writes to them commute), `refcount`/`flags` (never used), and
the order of write-backs and a crash between them (spec §7 assumes a
crash-consistent device), remount flags, and the failed allocation of
the extra super block (inode.c:192). That failure cannot happen on the
fresh volume the model starts from.

### SegmentList (`SegmentListSpec.tla`, `SegmentList.tla`, `MC_SegmentList.tla`)

Models `linked_list.h` as `chunk_and_replace` drives it for one file, over
the buffer cache. A list block is a record of `EPB` entry slots and the
trailing `next` pointer (`ptr_next`). An entry is `{location, size}`.

State ↔ code:
* `disk[b]`: the zone's bytes on the device. `cache[b]`: its buffer head,
  or `NotCached`. `dirty[b]`: `mark_buffer_dirty` not yet written back.
  `View(b)` is `load_block`: the cached buffer if there is one, else the
  disk.
* `free`: the zeros of the zone bitmap. `NewBlock` is
  `cominix_new_block_sb`, which takes the first zero bit.
* `head`, `count`, `end`: the locals `head`, `ll_size`, `end` of
  `chunk_and_replace`, later stored in `zones[1..3]`.
* `crashed`: `BUG_ON(!new)` in `ll_alloc_new_block`.
* `appended` is a history variable: the entries passed to `ll_append`.
* `chunked`, `isize`: the inode's chunked mode and `i_size`.
* `rpos`: one reader's `f_pos`. `got`: the bytes its reads returned since
  it last rewound. `oops`: a `BUG_ON` in `chunked_file_read`.
* `Heap` (a constant) is the chunk heap as a map of blocks of
  `BlockSize = 16 * (EPB + 1)` bytes. A payload byte is the pair
  `<<location, k>>`, byte `k` of the payload stored at `location`.
  `FileBytes(appended)` is then the content of the file that was chunked.
  `Heap` is what `copy_chunk_into_storage` wrote for every chunk the
  chunker may append. That is a 24-byte `chunk_head` at the location,
  then the payload, each put there by `WriteDataStorage`. That operator
  is the block walk of `write_data_storage`: `load_blockoff` gives the
  block and in-block offset, the first copy is `min(room in block,
  remaining)`, and each later copy starts a block further on
  (`get_next_block`).

Actions:
* `Create` is `ll_alloc_new_block` + `zero_out_block`. The memset lands
  in the buffer, and the buffer is left clean.
* `AppendInBlock` and `AppendNewBlock` are the two branches of
  `ll_append`, each a whole call.
* `AppendAllocFail` is the `BUG_ON` when the bitmap is full.
* `Evict` and `Writeback` are the kernel dropping a clean buffer and
  writing back a dirty one, at any time.
* `Finish` is the tail of `chunk_and_replace`: it keeps `i_size`,
  switches the inode to chunked mode and stores `zones[1..3]`. After it,
  no more entries are appended.
* `ChunkedRead(n)` is `chunked_file_read` with count `n`. It has three
  outcomes. At or past `i_size` it returns 0. If `ll_search_left` finds
  no entry it hits the `BUG_ON` (`oops`). Otherwise it copies what
  `CopyIntoBuffer` (`chunk_copy_into_buffer`: `min(count, size - pos)`
  bytes from `location + sizeof(struct chunk_head) + pos`) and
  `ReadDataStorage` return, and
  advances `f_pos` by that amount. `ReadDataStorage` is the block walk
  of `read_data_storage` over `Heap`, the mirror image of the write.
* `Seek(0)` is `generic_file_llseek` rewinding. `Setattr(sz)` is
  truncate(2). `cominix_file_inode_operations` is empty, so the VFS sets
  `i_size` and `cominix_truncate` never runs.
* `SearchFrom` is `ll_search_left`, a RECURSIVE operator. Its fuel
  (number of zones) turns a cycle of stale next pointers into an explicit
  result instead of unbounded recursion.

`SegmentListSpec` is the promise of spec §4.3: an append-only sequence
with `Locate`, a prefix-sum lookup. The refinement mapping
`ListEntries` takes the first `count` slots of the chain from `head`,
read through `View`.

Constants: zones {1, 2}, two entries per block (a 48-byte block), and
entries of size 2 at heap offset 23 and of size 1 at 49. The
payload of the first lies in bytes 47 and 48, across the end of heap
block 0, so both walks take their loop. `HeapBlocks` is {0, 1}, which
holds both chunks and the stale entries. Every zone initially holds zeros or stale
entries of size 3 with a next pointer to any zone, so a stale chain can
be a cycle. One zone may already be in use.

| Run | Expect | Checks | Shows |
|---|---|---|---|
| `seglist` | pass | TypeOK, LocateCorrect, ReadReturnsFileBytes, OopsOnlyWhenGrown, AbsSpec | Lists of up to 4 entries, with any eviction and write-back, then read back through `chunked_file_read`. `ll_search_left` returns the right entry and start offset for every byte below the total size. Successive reads return the file's bytes in order (with 1-byte reads inside a chunk, 3-byte reads across chunk ends, rewinds and truncates). A read oopses only when truncate has grown `i_size` past the list. The chain implements `SegmentListSpec`. No eviction or write-back loses or changes an entry, because `ll_append` marks every block it writes dirty. |
| `seglist_stale_head` | violation | ExhaustedFails | After `Create`, the kernel drops the clean zeroed head, and the first append reloads stale bytes. A lookup past the last entry then returns a stale entry instead of spec §4.3's `{0, 0}` failure. |

The mutant for `AbsSpec` increments `ll_size` twice, once in `ll_append`
and once in its caller. Spec §4.3 says the caller does it, and the code
does it inside `ll_append`, so a reimplementation that follows both
would do this. The mutant for `ReadReturnsFileBytes` drops `- pos`
from `to_read` in `chunk_copy_into_buffer`. The one for
`OopsOnlyWhenGrown` drops the `*pos >= i_size` early return of
`chunked_file_read`. `ReadReturnsFileBytes` also fails if either walk
ignores the in-block offset or does not move on to the next block
(hazard `chunk_handler.c:186`).

`chunked_file_read` only looks up offsets below `i_size`, so the stale
head does not corrupt in-range reads (`LocateCorrect` and
`ReadReturnsFileBytes` hold). A truncate that shrinks the file does not
stop reads at the new `i_size`. A read that starts below it copies to the
end of its chunk, which the comment in `cominix_truncate` accepts
(hazard `file.c:44`). What it
breaks is the explicit-failure contract: a size/list mismatch (hazard
`file.c:41`) returns garbage instead of `{0, 0}`, and a stale next
pointer can send the walk into another file's zone.

**Bounds.** Two zones and two slots per block are the least that reach
both a full block followed by a new one and an exhausted bitmap. With
stale zones that point at each other, cycles are possible. Three zones
with five entries also pass without the read path. With it, they do
not fit the time limit. The read inputs are bounded to their boundary
cases: read counts 1 (every offset inside a chunk) and 3 (longer than
any chunk, so `min(count, size - pos)` cuts), rewinding only to 0, and
truncates to one byte below, at, or above the chunked size.

**Fairness.** None: the properties are safety properties.

### Cdc (`Cdc.tla`, `MC_Cdc.tla`)

Models `cdc_get_chunk_size` (`src/cdc.h`) and the loop of
`chunk_and_replace` that cuts a file with it. A file is a sequence of
byte values.
* `GearStep` is `fp = (fp << 1) + gear_table[b]` in `W` bits. Wrapping
  is kept: the fingerprint depends only on the last `W` bytes.
* `ScanS` and `ScanL` are the two `for` loops as RECURSIVE operators:
  the first up to `NormalSize` with `MaskS`, the second up to `n` with
  `MaskL`. Each returns the index of the matching byte, so the chunk
  excludes that byte. `ReadByte` is `kernel_read` of one byte: at or past
  `i_size` it reads nothing and `b` keeps the last byte read. A scan
  that runs past the end of the file therefore keeps hashing a stale `b`,
  as the code would without the NormalSize lowering.
* `CdcChunkSize` is the function's prologue: the early return for
  remainders ≤ MinSize, the clamp to MaxSize, and NormalSize lowered to a
  short remainder.
* `RefChunkSize` is spec §4.1 written declaratively: the least scanned
  position whose fingerprint over bytes MinSize..i has no mask bit set,
  else n. It uses `FoldLeft` over the scanned bytes.
* The state machine (`data`, `fpos`, `chunks`) is the `while (f_pos <
  i_size)` loop. `Cut` is one iteration, including the read loop that
  moves `f_pos` by `chunk_size`.

Constants: MinSize 2, NormalSize 4, MaxSize 7 (the code's 2K < 8K < 64K
scaled down), a 3-bit fingerprint so that a scan of up to 5 bytes wraps,
two byte values with gear values 2 and 7, and `MaskS = MaskL = 5`, equal
as in the code. With these, every chunk size 1..7 occurs, and a 0 byte at
offset MinSize cuts there (2 has no mask bit), so the early return at
`i = MinSize` is taken. Files: all 2047
byte strings of length ≤ 10 over {0, 1}.

| Run | Expect | Checks | Shows |
|---|---|---|---|
| `cdc` | pass | MatchesReference, ChunkBounds, Termination | The iterative code agrees with spec §4.1 at every cut position of every file. Spec 8.2 size bounds hold: only the last chunk may be short. The loop terminates with `f_pos = i_size` (`<>(fpos = Len(data))`), so the `BUG_ON` at file.c:159 cannot fire. |

`Spec` has weak fairness on `Cut`: the loop runs in one thread that
never waits for another, so once it can take a chunk it does.
`Termination` is the liveness half of the `BUG_ON` after the loop: a
loop that stops early (or stalls on a zero-length chunk) never reaches
`i_size`.

The mutants are bugs a reader of this code would look for: the
byte that matched `MaskS` counted into the chunk (`MatchesReference`), a
`<=` in the `while (f_pos < i_size)` test, which cuts an empty chunk
(`ChunkBounds`), and a loop test `f_pos + 1 < i_size` that leaves the
last byte uncut (`Termination`). A change to the clamp, or a missing
NormalSize lowering (the first loop then hashes stale bytes past the end
of the file and returns a size beyond it), also breaks
`MatchesReference`. That the chunks tile the file needs no property of
its own: `Cut` adds each size to `f_pos`, a size beyond the remainder
breaks `MatchesReference`, and an early stop breaks `Termination`.

**Not modelled.** The 256 real gear values and the 64-bit masks: the
properties hold for any table and mask. `kernel_read` short reads (hazard
`file.c:128`).

### ProcChunker (`ProcChunker.tla`, `MC_ProcChunker.tla`)

Models `cminix_proc_write` (file.c 242–293) for concurrent writers of
`/proc/fs/cominix/chunker`.

State:
* Per writer: `pc`, `target` (the inode its path names, or `Missing`),
  `ret`, and `buf` (whether its `buf_copy` is allocated, held or freed).
* Per inode: `fop` (its `i_fop`) and `lock` (`inode_lock`).
* `chunkRuns` and `switches` are history variables: the number of
  `chunk_and_replace` runs on each inode, and of finalisations that
  switched its `i_fop`.

Actions, in code order:
1. `Open`: `kmalloc` and `copy_from_user` (`CopyFailed`: either fails
   and the write returns −1, the second without freeing `buf_copy`),
   then `filp_open` and the two checks before the lock.
2. `Lock`: `inode_lock`.
3. `Check`: the `i_fop` test and its `goto general_err`.
4. `Chunk`: `kfree(buf_copy)` and the body of `chunk_and_replace`. The
   body may return −1 (a negative chunk size or a failed `kernel_read`);
   the file then keeps its `i_fop` and the writer goes straight to
   `Unlock`, since the result is ignored. It may also oops (`Oops`) with
   `inode_lock` held: `ll_alloc_new_block` finds no zone, `kmalloc` of a
   chunk buffer fails (`BUG_ON(!buf)`), or `chunk_alloc` exhausts the heap.
5. `Finalize`: the end of `chunk_and_replace`, up to
   `cominix_set_inode`, which installs `chunked_file_operations`. A
   failing `cominix_write_inode` (−EIO) oopses at `BUG_ON(ret)` before
   `i_fop` changes, again with the lock held.
6. `Unlock`: `inode_unlock`, `filp_close` and `return count`.

`Return` is the common tail of every path out of the handler.

| Run | Expect | Checks | Shows |
|---|---|---|---|
| `proc` | pass | ChunkedOnce, ReturnsUnlessLeaked | Two writers, any targets, any initial `i_fop`, any of the failures: no inode is switched to chunked twice and no two runs overlap on it, even when a failed run is retried by the other writer; and every write returns or oopses, unless it waits in `inode_lock` behind a writer that left through `general_err`, or oopsed, holding that lock. |
| `proc_lock_leak` | violation | NoLockHeldOnReturn | A write naming an already chunked file returns −1 with its `inode_lock` still held (file.c:274–279). |

`proc` turns deadlock checking off because the leak really hangs the
system. After the refusal, a second writer on the same file blocks in
`inode_lock` for ever. That is the consequence of the finding, not a
model artefact. An oops inside `chunk_and_replace` does the same to later
writers of the path. `ReturnsUnlessLeaked` bounds these: they are the
only ways a writer hangs. Every other path, a failed chunking included,
releases the lock and returns. The mutant drops the `inode_unlock` after
`chunk_and_replace`, so a later writer of the same file waits for ever
behind a writer that returned `count`.

**Fairness.** `Spec` has weak fairness on each writer's steps. Each
writer is a kernel thread in a system call that the scheduler keeps
running. Each writer takes `inode_lock` at most once and never
re-acquires it, so a freed lock stays free until the waiting writer
takes it. Weak fairness therefore suffices; a lock that is taken and
released over and over would need strong fairness.

The model also reaches two behaviours no run states as a property: a
failed `copy_from_user` returns with `buf_copy` still held (a leak of
kernel memory, which no module has otherwise), and a failed chunking
returns `count` (hazard file.c:283).

**Not modelled.** Paths are model values, so the newline strip and the
`buf_copy[count-1]` read when `count` is 0 (hazard file.c:253) are left
out.

### Volume (`Volume.tla`, `MC_Volume.tla`)

Models the volume around the chunker: the inode and zone bitmaps
(bitmap.c), the directory operations that create and delete regular files
and empty directories (namei.c), eviction and truncation (inode.c), and the processes that
allocate zones concurrently: writes to ordinary files
(`cominix_write_begin` → `cominix_get_block` → `cominix_new_block`) and
chunkings (`ll_alloc_new_block` → `cominix_new_block_sb`).

State:
* `imap`, `zmap`: the bitmaps as map block → bit → set. The index
  arithmetic of the code is kept: `ZoneOf(i, j) = i·BPB + j +
  s_firstdatazone − 1` on allocation, `zone = z − s_firstdatazone + 1`,
  `& mask`, `>> k` on free.
* Per inode: `used` (exists on disk), `nlink`, `chunked`, `data` (zones
  of `i_data`) and `list` (the segment-list zones that `zones[1..3]` name).
* `dir`: the entries of the root directory. `mode` is the file type of
  each inode (regular, directory or symlink), and `rootLinks` is the
  root's `i_nlink`.
* Per process: `pc`, `tgt` (the inode whose lock it holds), `scan` (the
  map block its zone scan has reached), `opened` and `ofop` (its open
  file and the `f_op` it copied at open). `tgt` and `scan` are locals of
  a write or a chunking and return to 0 when the call returns (a process
  that oopsed keeps `tgt`, since it keeps the lock); `ofop` is forgotten
  at close, and an evicted inode's `mode` returns to the initial value,
  as `cominix_clear_inode` zeroes `i_mode`. Keeping them would only
  multiply states that differ in dead values.
* `leaked`: a history variable, the zones lost with evicted chunked
  inodes and with failed chunkings.

`Init` is a freshly mounted volume. `fill_super` sets bit 0 of both maps.
mkfs set the root inode, its block, and the inode bits past
`s_ninodes`. The zone bits past the lowered `s_nzones` (the hash-table
region) are clear.

Actions:
* Directory operations, one step each under the directory lock:
  `Create` (`cominix_new_inode`, `add_nondir`, with `cominix_add_link`
  succeeding or failing), `CreateNoSpace`, `Link`, `Unlink` and
  `Rename`. `Rename` moves a name onto a free name or over an existing
  one; the replaced inode loses a link. `cominix_delete_entry` always
  succeeds (hazard namei.c:231).
* `Mkdir` (`cominix_mkdir`): the root's count and the new inode's rise to 2,
  `cominix_make_empty` maps a block through `NewBlock` (`cominix_new_block`,
  the whole scan in one step, since mkdir holds no inode lock a chunker
  needs), then the entry is added. On failure `out_fail` drops the
  inode's count twice, evicts it (freeing the block if it got one) and drops
  the root's count. `Rmdir` removes an (always empty) directory: its count
  and the root's drop. `Rename` of a directory may replace only a
  directory; the replaced one loses two links and the root one, since
  the new parent's increment and the old parent's decrement cancel.
* `Symlink` (`cominix_symlink`): a new inode with `i_nlink` 1 whose
  target `page_symlink` writes through `cominix_write_begin`, which maps
  a block (`NewBlock`). If no block comes back, or `add_nondir` fails,
  the inode is evicted, which frees its block and its bit. `mode` tells
  the file types apart. Opening a symlink follows it to its target, which
  is the `Open` of another name, so `Open` takes regular files and
  directories only. These steps do not wait for the file's
  own inode lock, which `vfs_unlink`, `vfs_link` and `vfs_rename` take.
  The model therefore has more interleavings than the kernel. That is
  sound for the invariants checked here.
* `Tmpfile` is `open(O_TMPFILE)`: a new inode with `i_nlink` 0, held
  only by the open file and evicted at its last close.
* `Evict`: the last `iput` of an unlinked inode. `cominix_truncate`
  frees an ordinary file's zones and returns early for a chunked one.
  Then `cominix_free_inode` runs.
* Per process: `Open`, `Close`, `WriteStart`, `ChunkStart`.
* The zone scan, one step per map block because `bitmap_lock` is taken
  per block: `ZoneFound` (a clear bit is set; an in-range zone goes to
  the file, or becomes the list head and ends the chunking with the
  truncation and the switch to chunked), or `ZoneNext` (a full block).
  A zone past `s_nzones`, or the end of the map, is `AllocFailed`. For a
  write that is `-ENOSPC`; a chunker oopses in `BUG_ON(!new)`. A
  chunking whose head was allocated may also fail (`ChunkFailed`: a
  failed `kernel_read` or a negative chunk size). The head is never
  freed, the file stays as it was, and the lock is released.
* `StaleWrite`: a file opened before its inode was chunked still has
  `cominix_file_operations`. Its write calls `empty_aops.write_begin`,
  which is NULL, and the process oopses holding the inode lock.

| Run | Expect | Checks | Shows |
|---|---|---|---|
| `volume` | pass | TypeOK, LinkCounts, InodeBitmapExact, ZoneOwnership, StatfsCounts | Two processes, two names, two inodes for files, directories or symlinks, three free data zones in three zone-map blocks of two bits, plus one bit in the hash-table region; up to two data zones per file (`MaxZones` 2), so that a truncate to 0 at chunking or an eviction frees several zones at once, and files, a directory block and a list head fill the map. Across every interleaving, renames over open or chunking files and tmpfiles included: `i_nlink` equals the number of entries naming the inode, plus one for a directory's own `.`, and the root's equals 2 plus its subdirectories; the inode map is exact; the zone map is exact, with every zone held by one owner at most; statfs's `f_ffree` is exact and its `f_bfree` never under-counts. |

`ZoneOwnership` counts the lists of deleted chunked files as `leaked`,
the known gap of spec §9. The property checks that nothing else leaks,
and that those zones are never handed out again. With three map blocks,
a scan can pass a block while another process frees a zone in it. With
the hash-table bit, the out-of-range branch of `cominix_new_block(_sb)`
is taken.

The mutants:
* an off-by-one in `cominix_free_block`'s rebasing, and in
  `cominix_free_inode`'s bit;
* a missing `s_nzones` test;
* a `mkdir` failure path that drops the new inode's count only once;
* a `count_free` that rounds the number of map blocks down.

Each breaks its property.

`CountFree`, `CountFreeBlocks` and `CountFreeInodes` are the counting
functions behind `cominix_statfs`, and `Statfs` is the record it fills. They read the maps and change
nothing, so they are operators that `StatfsCounts` evaluates in every
state. `f_bfree` over-counts the clear bits past `s_nzones` in the last
block it reads (hazard bitmap.c:30). With `NZones` 12 and
`FirstDataZone` 8 that is bit 5, in the hash-table region. On a real
volume that tail can hold many bits, and `f_bfree` then exceeds
`f_blocks` (hazard inode.c:462).

**Not modelled.** `cominix_write_inode` and the inode cache are not
modelled. Nor is the VFS reference count `i_count`: `Evict` is
enabled only when no process holds the inode, which is what the last
`iput` means. The `ihold` of `cominix_link` (namei.c:103) and the `iput`s
of the failure paths (namei.c:18, 90, 136) are the only references the
code takes or drops itself; they are modelled by their effect (the inode
stays or is evicted), not as a count. No property therefore claims that
a held inode survives: with the guard it would hold by construction. Directories stay empty, children of the root only: a tree of
directories does not fit beside the zone maps in TLC's reach.

## 4. Not modelled, and why

* Nested directories: every directory the model makes is an empty child
  of the root. A tree of them does not fit beside the zone maps within
  TLC's reach.
* The kernel memory of `chunk_and_replace`: its `kmalloc`'d chunk buffers
  are never freed (hazard file.c:120). No module has the kernel heap.
* MD5 (`md5_wrapper.h`): a kernel crypto call. It is an opaque function
  `HashOf` everywhere, injective on the model's contents. A collision of
  the truncated hash (spec §9) would make `ReadBack` fail by design.
* Remount flags, getattr, the address-space operations of ordinary
  files: kernel glue with no state of the dedup layer. The volume is
  MINIX V3 only, so `cominix_remount` never touches `s_state`.
