----------------------------- MODULE ChunkStore -----------------------------
(***************************************************************************)
(* The persistent chunk store of src/src/chunk_handler.c (bump-allocated   *)
(* heap, on-disk hash table with overflow chains, persisted heap break),  *)
(* driven by the dedup step of chunk_and_replace (src/src/file.c) running  *)
(* in several threads at once: each write to /proc/fs/cominix/chunker     *)
(* runs chunk_and_replace synchronously in the writer's context, and only *)
(* the per-file inode lock is taken, so chunkers of different files share *)
(* the store concurrently.                                                *)
(*                                                                         *)
(* Abstraction: chunk contents are model values; the truncated md5 of a  *)
(* content is HashOf[c] (never 0) and its byte length LenOf[c].  Heap     *)
(* bytes are abstracted to one header record and one payload per heap    *)
(* offset.  A header never written reads as all-zero bytes (Zero): the    *)
(* heap region past the hash table is assumed zeroed at format time.      *)
(* Each thread performs one memory access to shared state per step, in    *)
(* the order the code performs them.                                      *)
(*                                                                         *)
(* The store lives across mounts.  cominix_fill_super reads the location  *)
(* of the extra super block from s_pad0/s_pad1: on a fresh volume there is *)
(* none, and cminix_alloc_extra_super allocates one and resets the hash   *)
(* table; later mounts take heap_brk from it.  Each chunker thread serves *)
(* at most one chunk request per mount.  Nothing is lost at unmount: the  *)
(* VFS syncs every dirty buffer before cominix_put_super.                 *)
(***************************************************************************)
EXTENDS Integers, Sequences, FiniteSets

CONSTANTS
  Threads,    \* processes writing a path to the chunker proc file
  Files,      \* possible files: the contents of the chunks cdc yields
  HashOf,     \* [Contents -> 1..]: the low-address 64 bits of md5
  LenOf,      \* [Contents -> 1..]: chunk_size of a chunk with that content
  NBuckets,   \* hashtable_size / sizeof(blockoff_t)
  BlockSize,  \* sb->s_blocksize
  HeadSize,   \* sizeof(struct chunk_head)
  HeapStart,  \* hashtable + hashtable_size: heap_brk after reset
  MaxBrk,     \* max_brk = s_nzones * s_blocksize
  MaxMounts,  \* bound on the number of mounts
  NoThread,   \* brk_lock is free
  NoContent   \* payload bytes never written

Contents == DOMAIN HashOf
Addr == HeapStart..MaxBrk
Zero == [hash |-> 0, length |-> 0, next |-> 0]

VARIABLES
  table,     \* bucket index -> chunk location (0 = empty), on disk
  hdr,       \* heap offset -> chunk header at that offset
  payload,   \* heap offset -> content of the payload following the header
  brk,       \* cominix_sb(sb)->heap_brk
  diskBrk,   \* esb->heap_brk in the extra super block
  brkLock,   \* holder of brk_lock
  pc,        \* thread -> step of chunk_and_replace / chunk_handler.c
  todo,      \* thread -> chunks of its file not yet processed
  cur,       \* thread -> content of the chunk in hand (metadata, buf)
  cursor,    \* thread -> chunk_location in chunk_search_hashtable
  fresh,     \* thread -> location returned by chunk_alloc
  brkSeen,   \* thread -> *brk as read by the call update_brk_on_disk
  headSeen,  \* thread -> *hash_table_entry as read into metadata->next
  loc,       \* thread -> location handed to ll_append
  segs,      \* thread -> entries appended to its segment list
  file,      \* thread -> the chunks of the file it chunks (fixed)
  allocated, \* history: extents handed out by chunk_alloc
  mounted,   \* the volume is mounted (cominix_sb(sb) exists)
  esbLoc,    \* (s_pad1 << 16) + s_pad0 in the superblock on disk
  mounts,    \* number of mounts so far
  chunkedFiles \* history: {file, segs} of every file chunk_and_replace finished

vars == <<table, hdr, payload, brk, diskBrk, brkLock, pc, todo, cur,
          cursor, fresh, brkSeen, headSeen, loc, segs, file, allocated,
          mounted, esbLoc, mounts, chunkedFiles>>
store == <<table, hdr, payload, brk, diskBrk, brkLock, file, allocated>>
locals == <<cursor, fresh, brkSeen, headSeen, loc>>
volume == <<mounted, esbLoc, mounts, chunkedFiles>>

\* the zone cominix_new_block_sb hands out for the extra super block: a
\* freshly formatted volume has free data zones
EsbZone == 1

Pc == {"idle", "scan", "search_head", "search_chain", "alloc_wait", "alloc",
       "persist_read", "persist_write", "link_read", "link_write",
       "write_hdr", "write_data", "append", "done", "dead"}

-----------------------------------------------------------------------------
(* Helpers of chunk_handler.c *)

\* block_no
BlockNo(off) == off \div BlockSize

\* hashtable_hash
Bucket(h) == h % NBuckets

\* mutant of Align: realign to the start of the current block
AlignBack(b) == IF BlockNo(b) # BlockNo(b + HeadSize - 1)
                  THEN BlockNo(b) * BlockSize
                  ELSE b

\* mutant of Align: no realignment
AlignNone(b) == b

\* chunk_alloc: move brk to the next block if the header would straddle
Align(b) == IF BlockNo(b) # BlockNo(b + HeadSize - 1)
              THEN (BlockNo(b) + 1) * BlockSize
              ELSE b

\* the chunk header stored at a location, as chunk_search_hashtable reads it
ReadHdr(l) == hdr[l]

Goto(t, from, to) == pc[t] = from /\ pc' = [pc EXCEPT ![t] = to]

-----------------------------------------------------------------------------
\* a freshly formatted volume, not mounted: no extra super block
Init ==
  /\ table = [b \in 0..NBuckets-1 |-> 0]
  /\ hdr = [a \in Addr |-> Zero]
  /\ payload = [a \in Addr |-> NoContent]
  /\ brk = 0
  /\ diskBrk = 0
  /\ brkLock = NoThread
  /\ pc = [t \in Threads |-> "idle"]
  /\ file = [t \in Threads |-> <<>>]
  /\ todo = file
  /\ cur = [t \in Threads |-> CHOOSE c \in Contents : TRUE]
  /\ cursor = [t \in Threads |-> 0]
  /\ fresh = [t \in Threads |-> 0]
  /\ brkSeen = [t \in Threads |-> 0]
  /\ headSeen = [t \in Threads |-> 0]
  /\ loc = [t \in Threads |-> 0]
  /\ segs = [t \in Threads |-> <<>>]
  /\ allocated = {}
  /\ mounted = FALSE
  /\ esbLoc = 0
  /\ mounts = 0
  /\ chunkedFiles = {}

\* chunk_and_replace loop head: cdc_get_chunk_size, kernel_read, md5_hash
NextChunk(t) ==
  /\ todo[t] # <<>>
  /\ Goto(t, "scan", "search_head")
  /\ cur' = [cur EXCEPT ![t] = Head(todo[t])]
  /\ todo' = [todo EXCEPT ![t] = Tail(todo[t])]
  /\ UNCHANGED <<store, locals, segs>>

\* loop exit: the file is truncated and switched to chunked, its segment
\* list (segs) now the file's content
Finish(t) ==
  /\ todo[t] = <<>>
  /\ Goto(t, "scan", "done")
  /\ chunkedFiles' = chunkedFiles \cup {[file |-> file[t], segs |-> segs[t]]}
  /\ UNCHANGED <<store, locals, todo, cur, segs, mounted, esbLoc, mounts>>

\* chunk_search_hashtable: read the bucket head
SearchHead(t) ==
  /\ Goto(t, "search_head", "search_chain")
  /\ cursor' = [cursor EXCEPT ![t] = table[Bucket(HashOf[cur[t]])]]
  /\ UNCHANGED <<store, todo, cur, fresh, brkSeen, headSeen, loc, segs>>

\* mutant of SearchStep: only the bucket head is compared
SearchStepHeadOnly(t) ==
  /\ pc[t] = "search_chain"
  /\ cursor[t] # 0
  /\ IF ReadHdr(cursor[t]).hash = HashOf[cur[t]]
       THEN /\ pc' = [pc EXCEPT ![t] = "append"]
            /\ loc' = [loc EXCEPT ![t] = cursor[t]]
            /\ UNCHANGED cursor
       ELSE /\ cursor' = [cursor EXCEPT ![t] = 0]
            /\ UNCHANGED <<pc, loc>>
  /\ UNCHANGED <<store, todo, cur, fresh, brkSeen, headSeen, segs>>

\* mutant of SearchStep: a hit is declared on equal bucket indices
SearchStepByBucket(t) ==
  /\ pc[t] = "search_chain"
  /\ cursor[t] # 0
  /\ IF Bucket(ReadHdr(cursor[t]).hash) = Bucket(HashOf[cur[t]])
       THEN /\ pc' = [pc EXCEPT ![t] = "append"]
            /\ loc' = [loc EXCEPT ![t] = cursor[t]]
            /\ UNCHANGED cursor
       ELSE /\ cursor' = [cursor EXCEPT ![t] = ReadHdr(cursor[t]).next]
            /\ UNCHANGED <<pc, loc>>
  /\ UNCHANGED <<store, todo, cur, fresh, brkSeen, headSeen, segs>>

\* mutant of SearchStep: the cursor is not advanced on a mismatch
SearchStepStuck(t) ==
  /\ pc[t] = "search_chain"
  /\ cursor[t] # 0
  /\ IF ReadHdr(cursor[t]).hash = HashOf[cur[t]]
       THEN /\ pc' = [pc EXCEPT ![t] = "append"]
            /\ loc' = [loc EXCEPT ![t] = cursor[t]]
       ELSE UNCHANGED <<pc, loc>>
  /\ UNCHANGED <<store, todo, cur, cursor, fresh, brkSeen, headSeen, segs>>

\* chunk_search_hashtable: inspect one chunk header of the chain
SearchStep(t) ==
  /\ pc[t] = "search_chain"
  /\ cursor[t] # 0
  /\ IF ReadHdr(cursor[t]).hash = HashOf[cur[t]]
       THEN /\ pc' = [pc EXCEPT ![t] = "append"]
            /\ loc' = [loc EXCEPT ![t] = cursor[t]]
            /\ UNCHANGED cursor
       ELSE /\ cursor' = [cursor EXCEPT ![t] = ReadHdr(cursor[t]).next]
            /\ UNCHANGED <<pc, loc>>
  /\ UNCHANGED <<store, todo, cur, fresh, brkSeen, headSeen, segs>>

\* chain exhausted: chunk_fill_hashtable calls chunk_alloc, mutex_lock
SearchMiss(t) ==
  /\ cursor[t] = 0
  /\ Goto(t, "search_chain", "alloc_wait")
  /\ UNCHANGED <<store, todo, cur, locals, segs>>

LockBrk(t) ==
  /\ brkLock = NoThread
  /\ Goto(t, "alloc_wait", "alloc")
  /\ brkLock' = t
  /\ UNCHANGED <<table, hdr, payload, brk, diskBrk, file, allocated,
                 todo, cur, locals, segs>>

\* mutant of Alloc: brk is bumped by the payload size only
AllocNoHeader(t) ==
  LET start == Align(brk)
      end   == start + LenOf[cur[t]]
  IN /\ start + HeadSize + LenOf[cur[t]] < MaxBrk
     /\ Goto(t, "alloc", "persist_read")
     /\ brk' = end
     /\ brkLock' = NoThread
     /\ fresh' = [fresh EXCEPT ![t] = start]
     /\ allocated' = allocated \cup
          {[at |-> start, len |-> LenOf[cur[t]], hash |-> HashOf[cur[t]]]}
     /\ UNCHANGED <<table, hdr, payload, diskBrk, file, todo, cur, cursor,
                    brkSeen, headSeen, loc, segs>>

\* mutant of Alloc: an allocation ending exactly at max_brk is accepted
AllocAtMax(t) ==
  LET start == Align(brk)
      end   == start + HeadSize + LenOf[cur[t]]
  IN /\ end <= MaxBrk
     /\ Goto(t, "alloc", "persist_read")
     /\ brk' = end
     /\ brkLock' = NoThread
     /\ fresh' = [fresh EXCEPT ![t] = start]
     /\ allocated' = allocated \cup
          {[at |-> start, len |-> LenOf[cur[t]], hash |-> HashOf[cur[t]]]}
     /\ UNCHANGED <<table, hdr, payload, diskBrk, file, todo, cur, cursor,
                    brkSeen, headSeen, loc, segs>>

\* chunk_alloc under brk_lock: align, bump, check max_brk, mutex_unlock
Alloc(t) ==
  LET start == Align(brk)
      end   == start + HeadSize + LenOf[cur[t]]
  IN /\ end < MaxBrk
     /\ Goto(t, "alloc", "persist_read")
     /\ brk' = end
     /\ brkLock' = NoThread
     /\ fresh' = [fresh EXCEPT ![t] = start]
     /\ allocated' = allocated \cup
          {[at |-> start, len |-> LenOf[cur[t]], hash |-> HashOf[cur[t]]]}
     /\ UNCHANGED <<table, hdr, payload, diskBrk, file, todo, cur, cursor,
                    brkSeen, headSeen, loc, segs>>

\* chunk_alloc: "Heap ran out of space", BUG() with brk advanced and
\* brk_lock still held; the thread never runs again
AllocFail(t) ==
  LET end == Align(brk) + HeadSize + LenOf[cur[t]]
  IN /\ end >= MaxBrk
     /\ Goto(t, "alloc", "dead")
     /\ brk' = end
     /\ UNCHANGED <<table, hdr, payload, diskBrk, brkLock, file, allocated,
                    todo, cur, locals, segs>>

\* update_brk_on_disk(sb, *brk): *brk is read after mutex_unlock
PersistRead(t) ==
  /\ Goto(t, "persist_read", "persist_write")
  /\ brkSeen' = [brkSeen EXCEPT ![t] = brk]
  /\ UNCHANGED <<store, todo, cur, cursor, fresh, headSeen, loc, segs>>

\* update_brk_on_disk: esb->heap_brk = new_brk
PersistWrite(t) ==
  /\ Goto(t, "persist_write", "link_read")
  /\ diskBrk' = brkSeen[t]
  /\ UNCHANGED <<table, hdr, payload, brk, brkLock, file, allocated,
                 todo, cur, locals, segs>>

\* chunk_fill_hashtable: metadata->next = *hash_table_entry
LinkRead(t) ==
  /\ Goto(t, "link_read", "link_write")
  /\ headSeen' = [headSeen EXCEPT ![t] = table[Bucket(HashOf[cur[t]])]]
  /\ UNCHANGED <<store, todo, cur, cursor, fresh, brkSeen, loc, segs>>

\* chunk_fill_hashtable: *hash_table_entry = fresh_chunk
LinkWrite(t) ==
  /\ Goto(t, "link_write", "write_hdr")
  /\ table' = [table EXCEPT ![Bucket(HashOf[cur[t]])] = fresh[t]]
  /\ UNCHANGED <<hdr, payload, brk, diskBrk, brkLock, file, allocated,
                 todo, cur, locals, segs>>

\* mutant of WriteHeader: next is not linked to the old bucket head
WriteHeaderNoNext(t) ==
  /\ Goto(t, "write_hdr", "write_data")
  /\ hdr' = [hdr EXCEPT ![fresh[t]] =
               [hash |-> HashOf[cur[t]], length |-> LenOf[cur[t]], next |-> 0]]
  /\ UNCHANGED <<table, payload, brk, diskBrk, brkLock, file, allocated,
                 todo, cur, locals, segs>>

\* mutant of WriteHeader: next holds the heap-relative offset
WriteHeaderRaw(t) ==
  /\ Goto(t, "write_hdr", "write_data")
  /\ hdr' = [hdr EXCEPT ![fresh[t]] =
               [hash |-> HashOf[cur[t]], length |-> LenOf[cur[t]],
                next |-> headSeen[t] - HeapStart]]
  /\ UNCHANGED <<table, payload, brk, diskBrk, brkLock, file, allocated,
                 todo, cur, locals, segs>>

\* copy_chunk_into_storage: write_data_storage of the header
WriteHeader(t) ==
  /\ Goto(t, "write_hdr", "write_data")
  /\ hdr' = [hdr EXCEPT ![fresh[t]] =
               [hash |-> HashOf[cur[t]], length |-> LenOf[cur[t]],
                next |-> headSeen[t]]]
  /\ UNCHANGED <<table, payload, brk, diskBrk, brkLock, file, allocated,
                 todo, cur, locals, segs>>

\* copy_chunk_into_storage: write_data_storage of the payload; the
\* location is returned to chunk_and_replace
WriteData(t) ==
  /\ Goto(t, "write_data", "append")
  /\ payload' = [payload EXCEPT ![fresh[t]] = cur[t]]
  /\ loc' = [loc EXCEPT ![t] = fresh[t]]
  /\ UNCHANGED <<table, hdr, brk, diskBrk, brkLock, file, allocated,
                 todo, cur, cursor, fresh, brkSeen, headSeen, segs>>

\* ll_append(sb, &end, &ll_size, {location, chunk_size})
LlAppend(t) ==
  /\ Goto(t, "append", "scan")
  /\ segs' = [segs EXCEPT ![t] =
               Append(@, [location |-> loc[t], size |-> LenOf[cur[t]]])]
  /\ UNCHANGED <<store, todo, cur, locals>>

Quiescent == \A t \in Threads : pc[t] \in {"idle", "done", "dead"}

-----------------------------------------------------------------------------
(* Mount, chunk requests and unmount *)

\* mutant of FillExtraSuper: the recorded break is ignored
FillExtraSuperDefault(esb) == HeapStart

\* cminix_fill_extra_super: the heap_brk it leaves in cominix_sb(sb), the
\* default just past the hash table without an extra super block
FillExtraSuper(esb) == IF esb = 0 THEN HeapStart ELSE diskBrk

\* chunk_reset_hashtable: heap_brk just past the table, the table zeroed
ResetHashtable ==
  /\ brk' = HeapStart
  /\ table' = [b \in 0..NBuckets-1 |-> 0]

\* cminix_alloc_extra_super: cominix_new_block_sb, esb->heap_brk =
\* sbi->heap_brk, s_pad0/s_pad1 set, then chunk_reset_hashtable
AllocExtraSuper ==
  /\ esbLoc' = EsbZone
  /\ diskBrk' = FillExtraSuper(0)
  /\ ResetHashtable

\* cominix_fill_super: the extra super block named by s_pad0/s_pad1 is read
\* (cminix_fill_extra_super); when there was none, one is allocated at the
\* end.  The chunker threads are idle.  brk_lock is a static mutex of the
\* module and keeps its state.
Mount ==
  /\ ~mounted /\ mounts < MaxMounts
  /\ mounted' = TRUE
  /\ mounts' = mounts + 1
  /\ pc' = [t \in Threads |-> "idle"]
  /\ IF esbLoc = 0
       THEN AllocExtraSuper
       ELSE /\ brk' = FillExtraSuper(esbLoc)
            /\ UNCHANGED <<esbLoc, diskBrk, table>>
  /\ UNCHANGED <<hdr, payload, brkLock, file, allocated, chunkedFiles,
                 todo, cur, locals, segs>>

\* a write of a path to /proc/fs/cominix/chunker: chunk_and_replace starts
\* on a file whose chunks are f, its f_pos at 0 and its list empty
Start(t, f) ==
  /\ mounted
  /\ Goto(t, "idle", "scan")
  /\ file' = [file EXCEPT ![t] = f]
  /\ todo' = [todo EXCEPT ![t] = f]
  /\ segs' = [segs EXCEPT ![t] = <<>>]
  /\ UNCHANGED <<table, hdr, payload, brk, diskBrk, brkLock, allocated,
                 volume, cur, locals>>

\* umount: the VFS syncs the volume and calls cominix_put_super.  A
\* running chunker holds its file open, and one that oopsed leaked it, so
\* both keep the volume busy.
Unmount ==
  /\ mounted
  /\ \A t \in Threads : pc[t] \in {"idle", "done"}
  /\ mounted' = FALSE
  /\ UNCHANGED <<store, pc, todo, cur, locals, segs, esbLoc, mounts,
                 chunkedFiles>>

\* no chunker runs: the model may stop here
Terminated == Quiescent /\ UNCHANGED vars

Step(t) ==
  \/ /\ \/ NextChunk(t)
        \/ SearchHead(t) \/ SearchStep(t) \/ SearchMiss(t)
        \/ LockBrk(t) \/ Alloc(t) \/ AllocFail(t)
        \/ PersistRead(t) \/ PersistWrite(t)
        \/ LinkRead(t) \/ LinkWrite(t) \/ WriteHeader(t) \/ WriteData(t)
        \/ LlAppend(t)
     /\ UNCHANGED volume
  \/ Finish(t)

Next ==
  \/ \E t \in Threads : Step(t) \/ \E f \in Files : Start(t, f)
  \/ Mount \/ Unmount
  \/ Terminated

\* The scheduler keeps running every runnable chunker thread; mounts,
\* unmounts and chunk requests are up to the user.
Spec == Init /\ [][Next]_vars /\ \A t \in Threads : WF_vars(Step(t))

-----------------------------------------------------------------------------
(* Properties *)

TypeOK ==
  /\ table \in [0..NBuckets-1 -> {0} \cup Addr]
  /\ \A a \in Addr : hdr[a].next \in {0} \cup Addr
  /\ payload \in [Addr -> Contents \cup {NoContent}]
  /\ brk \in Nat /\ diskBrk \in Nat
  /\ brkLock \in Threads \cup {NoThread}
  /\ pc \in [Threads -> Pc]
  /\ cur \in [Threads -> Contents]
  /\ segs \in [Threads -> Seq([location : Addr, size : Nat])]
  /\ mounted \in BOOLEAN /\ esbLoc \in {0, EsbZone} /\ mounts \in 0..MaxMounts

End(e) == e.at + HeadSize + e.len

\* Heap monotonicity (spec 8.6): the extents chunk_alloc hands out under
\* brk_lock, in this mount or any earlier one, never overlap, so no
\* chunk_location is ever overwritten by a later chunk, and all of them lie
\* between the hash table and brk.
AllocationsDisjoint ==
  \A e, f \in allocated :
    /\ HeapStart <= e.at /\ End(e) <= brk
    /\ e # f => End(e) <= f.at \/ End(f) <= e.at

\* chunk_alloc's realignment: no chunk header straddles a block boundary,
\* which load_blockoff relies on when it casts the in-block pointer to a
\* struct chunk.
HeadersInOneBlock ==
  \A e \in allocated : BlockNo(e.at) = BlockNo(e.at + HeadSize - 1)

\* Store round trip: once no chunker runs, each entry of the segment list
\* of every file chunked so far, in this mount or an earlier one, and of
\* every list still being built, names a chunk whose header and payload
\* hold exactly the content the file had at that position, whether the
\* location came from a hit in chunk_search_hashtable or from
\* chunk_fill_hashtable.
ReadBack ==
  Quiescent =>
    \A r \in chunkedFiles \cup {[file |-> file[t], segs |-> segs[t]] : t \in Threads} :
      \A i \in 1..Len(r.segs) :
        /\ payload[r.segs[i].location] = r.file[i]
        /\ hdr[r.segs[i].location].length = r.segs[i].size

\* the chunker holding brk_lock oopsed in chunk_alloc's BUG()
BrkLockLost == brkLock # NoThread /\ pc[brkLock] = "dead"

\* Every chunk request returns, unless it oopses on heap exhaustion or
\* waits in mutex_lock(&brk_lock) for ever behind a chunker that oopsed
\* holding it (chunk_alloc BUG()s before mutex_unlock).  No other step
\* of the lookup, allocation, linking and append blocks a chunker.
Termination ==
  \A t \in Threads :
    pc[t] = "scan" ~> \/ pc[t] \in {"done", "dead"}
                      \/ pc[t] = "alloc_wait" /\ BrkLockLost

\* Dedup (spec 8.3): no two stored chunk headers carry the same hash, so
\* a content is stored once however many times files contain it.
DedupUnique ==
  \A a, b \in Addr :
    a # b /\ hdr[a].hash # 0 => hdr[a].hash # hdr[b].hash

RECURSIVE ChainFrom(_)
\* the locations chunk_search_hashtable visits from a chunk location on
ChainFrom(l) == IF l = 0 THEN {} ELSE {l} \cup ChainFrom(hdr[l].next)

\* Collision chains (spec 8.8): once the chunkers have returned, every
\* chunk chunk_fill_hashtable allocated is reachable from the head of its
\* bucket, so a later lookup of its hash finds it.
ChainComplete ==
  Quiescent =>
    \A e \in allocated : e.at \in ChainFrom(table[Bucket(e.hash)])

\* A lookup never inspects a chunk whose header chunk_fill_hashtable has
\* published in the table but not yet written (spec 4.2: header and
\* payload are written, then the bucket head is replaced).
NoUnwrittenHeaderRead ==
  \A t \in Threads :
    pc[t] = "search_chain" /\ cursor[t] # 0 => hdr[cursor[t]] # Zero

\* The heap break persisted in the extra super block never regresses
\* (spec 3 and 5: the write-back happens under brk_lock); a regressed
\* esb->heap_brk makes the next mount hand out live chunks again.
PersistedBrkMonotone == [][diskBrk' >= diskBrk]_diskBrk

\* Exhaustion (spec 8.7): an allocation that would reach max_brk writes
\* nothing: no header, payload or persisted break reaches max_brk.
NothingPastMaxBrk ==
  /\ diskBrk < MaxBrk
  /\ \A a \in Addr : hdr[a] # Zero => a + HeadSize + hdr[a].length < MaxBrk

=============================================================================
