------------------------------- MODULE Volume -------------------------------
(***************************************************************************)
(* The volume around the chunker: the inode and zone bitmaps of           *)
(* src/src/bitmap.c, the life of an inode from cominix_new_inode through   *)
(* the directory operations of src/src/namei.c to cominix_evict_inode,    *)
(* cominix_truncate and cominix_free_inode in src/src/inode.c, and the    *)
(* two users of the zone bitmap that run concurrently: a write to an       *)
(* ordinary file, which maps a new file block with cominix_new_block, and  *)
(* chunk_and_replace, whose ll_alloc_new_block calls cominix_new_block_sb  *)
(* and whose finalisation truncates the ordinary blocks and marks the      *)
(* inode chunked.                                                          *)
(*                                                                         *)
(* A bitmap is a function from map block to bit to BOOLEAN, so the index   *)
(* arithmetic of the code (bit = n & mask, block = n >> k, and back) is    *)
(* kept.  bitmap_lock is held for the whole inode scan but only for one    *)
(* map block at a time in the zone scan, so a zone scan is one step per    *)
(* map block.  Directory operations run under the parent's inode lock and  *)
(* are one step each; the directory is the root, and only regular files   *)
(* are created in it.                                                      *)
(***************************************************************************)
EXTENDS Naturals, FiniteSets, FiniteSetsExt

CONSTANTS
  Procs,          \* processes with one file descriptor each
  Names,          \* names in the root directory
  BPB,            \* bits per bitmap block, 8 * s_blocksize (a power of 2)
  IMapBlocks,     \* s_imap_blocks
  ZMapBlocks,     \* s_zmap_blocks
  NInodes,        \* s_ninodes
  FirstDataZone,  \* s_firstdatazone
  NZones,         \* s_nzones after fill_super lowered it to the hash table
  MaxZones,       \* bound on the zones one file maps
  MaxLink         \* bound on i_nlink

ASSUME BPB * IMapBlocks > NInodes

\* inode 1 is the root directory; the others can be files
Inos == 2..NInodes
\* zone of bit j of zone-map block i, as cominix_new_block computes it
ZoneOf(i, j) == i * BPB + j + FirstDataZone - 1
DataZones == FirstDataZone..NZones - 1
\* the root directory's block, bit 1 of the zone map
RootZone == FirstDataZone
Bit(n) == n % BPB
MapBlk(n) == n \div BPB

VARIABLES
  imap,     \* s_imap: block -> bit -> set
  zmap,     \* s_zmap: block -> bit -> set
  used,     \* inodes with an on-disk inode (allocated, not yet freed)
  nlink,    \* inode -> i_nlink
  dir,      \* name -> inode number of its entry, 0 for none
  chunked,  \* inode -> inode_is_chunked
  data,     \* inode -> zones its i_data maps (ordinary file)
  list,     \* inode -> segment-list zones its zones[1..3] name
  pc,       \* process -> "idle", "write", "chunk" or "dead"
  tgt,      \* process -> inode it writes or chunks under inode_lock
  scan,     \* process -> zone-map block its scan has reached
  opened,   \* process -> inode of its open file, 0 for none
  ofop,     \* process -> f_op copied into its file at open
  leaked,   \* history: zones lost with an evicted chunked inode or a failed
            \* chunking
  mode,     \* inode -> file type of i_mode: "reg", "dir" or "lnk"
  rootLinks \* i_nlink of the root directory

\* S_ISDIR(i_mode)
IsDir(i) == mode[i] = "dir"

vars == <<imap, zmap, used, nlink, dir, chunked, data, list, pc, tgt, scan,
          opened, ofop, leaked, mode, rootLinks>>

-----------------------------------------------------------------------------
\* find_first_zero_bit over one map block: BPB when none is clear
FirstZero(blk) ==
  IF \E j \in 0..BPB - 1 : ~blk[j] THEN Min({j \in 0..BPB - 1 : ~blk[j]})
  ELSE BPB

\* mutant: the zone number is not rebased to bit 1 (no + 1)
FreeBlockOffByOne(z, zm) ==
  LET zone == z - FirstDataZone
  IN IF z < FirstDataZone \/ z >= NZones \/ MapBlk(zone) >= ZMapBlocks
       THEN zm
       ELSE [zm EXCEPT ![MapBlk(zone)][Bit(zone)] = FALSE]

\* cominix_free_block(block): ignored outside the data zones or the map
FreeBlock(z, zm) ==
  LET zone == z - FirstDataZone + 1
  IN IF z < FirstDataZone \/ z >= NZones \/ MapBlk(zone) >= ZMapBlocks
       THEN zm
       ELSE [zm EXCEPT ![MapBlk(zone)][Bit(zone)] = FALSE]

\* V2_cominix_truncate to size 0: cominix_free_block on every mapped zone
FreeAll(S, zm) == FoldSet(FreeBlock, zm, S)

\* cominix_clear_inode: cominix_V2_raw_inode locates the on-disk inode
\* (none for 0 or past s_ninodes) and i_nlinks and i_mode are zeroed,
\* so the inode no longer exists on disk
ClearInode(ino, u) == IF ino < 1 \/ ino > NInodes THEN u ELSE u \ {ino}

\* mutant: the bit of inode ino - 1 is cleared
FreeInodeOffByOne(ino, im) ==
  IF ino < 1 \/ ino > NInodes \/ MapBlk(ino) >= IMapBlocks THEN im
  ELSE [im EXCEPT ![MapBlk(ino - 1)][Bit(ino - 1)] = FALSE]

\* cominix_free_inode: cominix_clear_inode, then clear the inode's bit
FreeInode(ino, im) ==
  IF ino < 1 \/ ino > NInodes \/ MapBlk(ino) >= IMapBlocks THEN im
  ELSE [im EXCEPT ![MapBlk(ino)][Bit(ino)] = FALSE]

\* the inode is held: an open file, or the file of a write or chunking
Referenced(i) ==
  \E p \in Procs : opened[p] = i \/ (pc[p] # "idle" /\ tgt[p] = i)

\* inode_lock(inode) is held by a write, a chunking or a process that
\* oopsed inside one
Locked(i) == \E p \in Procs : pc[p] # "idle" /\ tgt[p] = i

-----------------------------------------------------------------------------
\* fill_super sets bit 0 of both maps; mkfs set the root inode and its
\* block, and every inode bit past s_ninodes.  The zone bits past the
\* lowered s_nzones cover the hash table and heap and are clear.
Init ==
  /\ imap = [i \in 0..IMapBlocks - 1 |-> [j \in 0..BPB - 1 |->
              i * BPB + j <= 1 \/ i * BPB + j > NInodes]]
  /\ zmap = [i \in 0..ZMapBlocks - 1 |-> [j \in 0..BPB - 1 |->
              i * BPB + j <= 1]]
  /\ used = {}
  /\ nlink = [i \in Inos |-> 0]
  /\ dir = [n \in Names |-> 0]
  /\ chunked = [i \in Inos |-> FALSE]
  /\ data = [i \in Inos |-> {}]
  /\ list = [i \in Inos |-> {}]
  /\ pc = [p \in Procs |-> "idle"]
  /\ tgt = [p \in Procs |-> 0]
  /\ scan = [p \in Procs |-> 0]
  /\ opened = [p \in Procs |-> 0]
  /\ ofop = [p \in Procs |-> "plain"]
  /\ leaked = {}
  /\ mode = [i \in Inos |-> "reg"]
  /\ rootLinks = 2

-----------------------------------------------------------------------------
(* Directory operations, each under the root directory's inode lock.     *)

\* the first clear bit of the inode map, as <<block, bit>>, scanning the
\* blocks in order under bitmap_lock; none when every block is full
IFree == {<<i, j>> \in (0..IMapBlocks - 1) \X (0..BPB - 1) : ~imap[i][j]}
IFirst == CHOOSE ij \in IFree :
            \A kl \in IFree : ij[1] < kl[1] \/ (ij[1] = kl[1] /\ ij[2] <= kl[2])

\* add_nondir(dentry, inode), nl being i_nlink as the caller left it:
\* cominix_add_link enters the name, or fails (a directory block it
\* cannot allocate or read) and inode_dec_link_count undoes the count
AddNondir(n, ino, nl) ==
  \/ /\ dir' = [dir EXCEPT ![n] = ino]
     /\ nlink' = nl
  \/ /\ dir' = dir
     /\ nlink' = [nl EXCEPT ![ino] = @ - 1]

\* cominix_create -> cominix_mknod: cominix_new_inode sets the first clear
\* bit (i_nlink 1, i_data zeroed; a number past s_ninodes cannot come up,
\* as mkfs sets those bits),
\* cominix_set_inode installs cominix_file_operations, and add_nondir
\* enters the name; if cominix_add_link fails, inode_dec_link_count and
\* iput evict the new inode at once, which frees its bit again
Create(n) ==
  /\ dir[n] = 0
  /\ IFree # {}
  /\ LET ino == IFirst[1] * BPB + IFirst[2]
         set == [imap EXCEPT ![IFirst[1]][IFirst[2]] = TRUE]
     IN /\ ino <= NInodes
        /\ AddNondir(n, ino, [nlink EXCEPT ![ino] = 1])
        /\ IF nlink'[ino] = 0
             THEN /\ imap' = FreeInode(ino, set)
                  /\ UNCHANGED <<used, chunked, data, list, mode>>
             ELSE /\ imap' = set
                  /\ used' = used \cup {ino}
                  /\ chunked' = [chunked EXCEPT ![ino] = FALSE]
                  /\ data' = [data EXCEPT ![ino] = {}]
                  /\ list' = [list EXCEPT ![ino] = {}]
                  /\ mode' = [mode EXCEPT ![ino] = "reg"]
  /\ UNCHANGED <<rootLinks, zmap, pc, tgt, scan, opened, ofop, leaked>>

\* cominix_new_inode with no clear bit in any map block: -ENOSPC
CreateNoSpace(n) ==
  /\ dir[n] = 0
  /\ IFree = {}
  /\ UNCHANGED vars

\* cominix_link: inode_inc_link_count and ihold, then add_nondir; a
\* failing cominix_add_link drops the count and the reference again.
\* The VFS refuses a hard link to a directory (-EPERM).
Link(n, m) ==
  /\ dir[n] # 0 /\ dir[m] = 0 /\ ~IsDir(dir[n])
  /\ nlink[dir[n]] < MaxLink
  /\ AddNondir(m, dir[n], [nlink EXCEPT ![dir[n]] = @ + 1])
  /\ UNCHANGED <<mode, rootLinks, imap, zmap, used, chunked, data, list, pc, tgt, scan,
                 opened, ofop, leaked>>

\* cominix_unlink: cominix_delete_entry, then inode_dec_link_count; the
\* VFS sends a directory to rmdir instead (-EISDIR)
Unlink(n) ==
  /\ dir[n] # 0 /\ ~IsDir(dir[n])
  /\ dir' = [dir EXCEPT ![n] = 0]
  /\ nlink' = [nlink EXCEPT ![dir[n]] = @ - 1]
  /\ UNCHANGED <<mode, rootLinks, imap, zmap, used, chunked, data, list, pc, tgt, scan,
                 opened, ofop, leaked>>

\* rename(2) of name n to name m in the root directory, flags 0 (the VFS
\* answers RENAME_NOREPLACE onto an existing name with -EEXIST, and a
\* rename between two links of one inode with 0, before cominix_rename).
\* The VFS refuses a directory onto a non-directory and the reverse.
\* Onto an existing name, cominix_set_link points its entry at the old
\* inode and inode_dec_link_count drops the replaced inode, a replaced
\* (empty) directory losing its "." too (drop_nlink); onto a free name,
\* cominix_add_link enters it.  cominix_delete_entry then removes n.  A
\* directory has a ".." entry (dir_de): onto a free name the root gains a
\* link (inode_inc_link_count(new_dir)), and after set_link of ".." it
\* loses one (inode_dec_link_count(old_dir)).  A failing set_link or
\* add_link returns with nothing changed.
Rename(n, m) ==
  /\ dir[n] # 0 /\ n # m /\ dir[m] # dir[n]
  /\ dir[m] # 0 => IsDir(dir[m]) = IsDir(dir[n])
  /\ dir' = [dir EXCEPT ![m] = dir[n], ![n] = 0]
  /\ nlink' = IF dir[m] # 0
                THEN [nlink EXCEPT ![dir[m]] = @ - (IF IsDir(dir[m]) THEN 2 ELSE 1)]
                ELSE nlink
  /\ rootLinks' = IF IsDir(dir[n]) /\ dir[m] # 0 THEN rootLinks - 1
                   ELSE rootLinks
  /\ UNCHANGED <<mode, imap, zmap, used, chunked, data, list, pc, tgt, scan,
                 opened, ofop, leaked>>

\* the first clear bit of the zone map, as <<block, bit>>
ZFree == {<<i, j>> \in (0..ZMapBlocks - 1) \X (0..BPB - 1) : ~zmap[i][j]}
ZFirst == CHOOSE ij \in ZFree :
            \A kl \in ZFree : ij[1] < kl[1] \/ (ij[1] = kl[1] /\ ij[2] <= kl[2])

\* cominix_new_block run to its end in one step (the block cominix_make_empty
\* maps under the directory lock): the first clear bit is set and its zone
\* returned, or 0 with the bit left set when the zone is past s_nzones, or
\* 0 when no bit is clear.  <<zone map after, zone or 0>>.
NewBlock ==
  IF ZFree = {} THEN <<zmap, 0>>
  ELSE LET z == ZoneOf(ZFirst[1], ZFirst[2])
       IN <<[zmap EXCEPT ![ZFirst[1]][ZFirst[2]] = TRUE],
            IF z >= FirstDataZone /\ z < NZones THEN z ELSE 0>>

\* mutant: out_fail drops the new directory's count once
MkdirOneDec(n) ==
  /\ dir[n] = 0
  /\ IFree # {}
  /\ LET ino == IFirst[1] * BPB + IFirst[2]
         im == [imap EXCEPT ![IFirst[1]][IFirst[2]] = TRUE]
         nb == NewBlock
         zm == nb[1]
         z == nb[2]
     IN /\ ino <= NInodes
        /\ used' = used \cup {ino}
        /\ mode' = [mode EXCEPT ![ino] = "dir"]
        /\ chunked' = [chunked EXCEPT ![ino] = FALSE]
        /\ list' = [list EXCEPT ![ino] = {}]
        /\ imap' = im
        /\ zmap' = zm
        /\ data' = [data EXCEPT ![ino] = IF z = 0 THEN {} ELSE {z}]
        /\ \/ /\ z # 0
              /\ dir' = [dir EXCEPT ![n] = ino]
              /\ nlink' = [nlink EXCEPT ![ino] = 2]
              /\ rootLinks' = rootLinks + 1
           \/ /\ nlink' = [nlink EXCEPT ![ino] = 1]
              /\ UNCHANGED <<dir, rootLinks>>
  /\ UNCHANGED <<pc, tgt, scan, opened, ofop, leaked>>

\* cominix_mkdir: cominix_new_inode (i_nlink 1), inode_inc_link_count of
\* the root, cominix_set_inode, inode_inc_link_count of the new inode,
\* cominix_make_empty writing "." and ".." into a block it maps through
\* cominix_get_block, and cominix_add_link.  When make_empty gets no block
\* or add_link fails, out_fail drops both counts of the new inode, iput
\* evicts it (cominix_truncate frees its block, cominix_free_inode its
\* bit) and the root's count is dropped again.
Mkdir(n) ==
  /\ dir[n] = 0
  /\ IFree # {}
  /\ LET ino == IFirst[1] * BPB + IFirst[2]
         im == [imap EXCEPT ![IFirst[1]][IFirst[2]] = TRUE]
         nb == NewBlock
         zm == nb[1]
         z == nb[2]
     IN /\ ino <= NInodes
        /\ \/ /\ z # 0
              /\ dir' = [dir EXCEPT ![n] = ino]
              /\ nlink' = [nlink EXCEPT ![ino] = 2]
              /\ rootLinks' = rootLinks + 1
              /\ used' = used \cup {ino}
              /\ mode' = [mode EXCEPT ![ino] = "dir"]
              /\ chunked' = [chunked EXCEPT ![ino] = FALSE]
              /\ data' = [data EXCEPT ![ino] = {z}]
              /\ list' = [list EXCEPT ![ino] = {}]
              /\ imap' = im
              /\ zmap' = zm
           \/ /\ nlink' = [nlink EXCEPT ![ino] = 0]
              /\ imap' = FreeInode(ino, im)
              /\ zmap' = FreeAll(IF z = 0 THEN {} ELSE {z}, zm)
              /\ UNCHANGED <<dir, rootLinks, used, mode, chunked, data, list>>
  /\ UNCHANGED <<pc, tgt, scan, opened, ofop, leaked>>

\* cominix_rmdir of an empty directory (a directory here never holds
\* entries of its own): cominix_unlink removes its entry and drops one
\* link, then the root (its "..") and the directory (its ".") lose one
\* more each
Rmdir(n) ==
  /\ dir[n] # 0 /\ IsDir(dir[n])
  /\ dir' = [dir EXCEPT ![n] = 0]
  /\ nlink' = [nlink EXCEPT ![dir[n]] = @ - 2]
  /\ rootLinks' = rootLinks - 1
  /\ UNCHANGED <<imap, zmap, used, chunked, data, list, pc, tgt, scan,
                 opened, ofop, leaked, mode>>

\* cominix_symlink (a target name short enough for one block; a longer one
\* is refused with -ENAMETOOLONG before anything changes):
\* cominix_new_inode (i_nlink 1), cominix_set_inode with cominix_aops,
\* page_symlink writing the target through cominix_write_begin, whose
\* cominix_get_block maps a block, then add_nondir.  If page_symlink gets
\* no block (cominix_write_failed has nothing past i_size to truncate) or
\* add_link fails, inode_dec_link_count and iput evict the new inode:
\* cominix_truncate frees its block and cominix_free_inode its bit.
Symlink(n) ==
  /\ dir[n] = 0
  /\ IFree # {}
  /\ LET ino == IFirst[1] * BPB + IFirst[2]
         im == [imap EXCEPT ![IFirst[1]][IFirst[2]] = TRUE]
         nb == NewBlock
         zm == nb[1]
         z == nb[2]
     IN /\ ino <= NInodes
        /\ \/ /\ z # 0
              /\ dir' = [dir EXCEPT ![n] = ino]
              /\ nlink' = [nlink EXCEPT ![ino] = 1]
              /\ used' = used \cup {ino}
              /\ mode' = [mode EXCEPT ![ino] = "lnk"]
              /\ chunked' = [chunked EXCEPT ![ino] = FALSE]
              /\ data' = [data EXCEPT ![ino] = {z}]
              /\ list' = [list EXCEPT ![ino] = {}]
              /\ imap' = im
              /\ zmap' = zm
           \/ /\ nlink' = [nlink EXCEPT ![ino] = 0]
              /\ imap' = FreeInode(ino, im)
              /\ zmap' = FreeAll(IF z = 0 THEN {} ELSE {z}, zm)
              /\ UNCHANGED <<dir, used, mode, chunked, data, list>>
  /\ UNCHANGED <<rootLinks, pc, tgt, scan, opened, ofop, leaked>>

\* open(2) with O_TMPFILE: cominix_tmpfile takes a new inode from
\* cominix_new_inode (i_nlink 1, as in Create), cominix_set_inode installs
\* cominix_file_operations, and d_tmpfile drops i_nlink to 0 and hands
\* the inode to the open file; it is evicted at its close
Tmpfile(p) ==
  /\ pc[p] = "idle" /\ opened[p] = 0
  /\ IFree # {}
  /\ LET ino == IFirst[1] * BPB + IFirst[2]
     IN /\ ino <= NInodes
        /\ imap' = [imap EXCEPT ![IFirst[1]][IFirst[2]] = TRUE]
        /\ used' = used \cup {ino}
        /\ nlink' = [nlink EXCEPT ![ino] = 0]
        /\ chunked' = [chunked EXCEPT ![ino] = FALSE]
        /\ data' = [data EXCEPT ![ino] = {}]
        /\ list' = [list EXCEPT ![ino] = {}]
        /\ mode' = [mode EXCEPT ![ino] = "reg"]
        /\ opened' = [opened EXCEPT ![p] = ino]
        /\ ofop' = [ofop EXCEPT ![p] = "plain"]
  /\ UNCHANGED <<rootLinks, zmap, dir, pc, tgt, scan, leaked>>

\* the last iput of an unlinked inode: cominix_evict_inode truncates it
\* (cominix_truncate returns early for a chunked inode, so its segment
\* list stays allocated) and cominix_free_inode clears its bit;
\* cominix_clear_inode zeroes the on-disk i_nlinks and i_mode
Evict(i) ==
  /\ i \in used /\ nlink[i] = 0 /\ ~Referenced(i)
  /\ zmap' = IF chunked[i] THEN zmap ELSE FreeAll(data[i], zmap)
  /\ leaked' = IF chunked[i] THEN leaked \cup list[i] ELSE leaked
  /\ imap' = FreeInode(i, imap)
  /\ used' = ClearInode(i, used)
  /\ data' = [data EXCEPT ![i] = {}]
  /\ list' = [list EXCEPT ![i] = {}]
  /\ chunked' = [chunked EXCEPT ![i] = FALSE]
  /\ mode' = [mode EXCEPT ![i] = "reg"]
  /\ UNCHANGED <<rootLinks, nlink, dir, pc, tgt, scan, opened, ofop>>

-----------------------------------------------------------------------------
(* Processes: open files, writes that map a new block, chunkings.         *)

\* the i_fop cominix_set_inode gives a regular inode
FopOf(i) == IF chunked[i] THEN "chunked" ELSE "plain"

\* cominix_iget(ino) succeeds: iget_locked returns an inode already in
\* core as it is; otherwise V2_cominix_iget reads the on-disk inode and
\* refuses a deleted one (i_nlinks 0) with -ESTALE
Iget(i) == Referenced(i) \/ nlink[i] # 0

\* open(2) of an existing name: cominix_lookup finds the entry and
\* cominix_iget the inode, and the file takes the inode's i_fop; a
\* symlink is followed to its target, which is the open of another name
Open(p, n) ==
  /\ pc[p] = "idle" /\ opened[p] = 0 /\ dir[n] # 0
  /\ mode[dir[n]] # "lnk"
  /\ Iget(dir[n])
  /\ opened' = [opened EXCEPT ![p] = dir[n]]
  /\ ofop' = [ofop EXCEPT ![p] = FopOf(dir[n])]
  /\ UNCHANGED <<mode, rootLinks, imap, zmap, used, nlink, dir, chunked, data, list, pc, tgt,
                 scan, leaked>>

\* close(2): the file's reference is dropped (Evict runs if it was last)
Close(p) ==
  /\ pc[p] = "idle" /\ opened[p] # 0
  /\ opened' = [opened EXCEPT ![p] = 0]
  /\ ofop' = [ofop EXCEPT ![p] = "plain"]
  /\ UNCHANGED <<mode, rootLinks, imap, zmap, used, nlink, dir, chunked, data, list, pc, tgt,
                 scan, leaked>>

\* generic_file_write_iter past the mapped blocks: inode_lock, then
\* cominix_write_begin -> cominix_get_block(create) -> cominix_new_block
WriteStart(p) ==
  /\ pc[p] = "idle" /\ opened[p] # 0 /\ ofop[p] = "plain"
  /\ ~chunked[opened[p]] /\ mode[opened[p]] = "reg" /\ ~Locked(opened[p])
  /\ Cardinality(data[opened[p]]) < MaxZones
  /\ pc' = [pc EXCEPT ![p] = "write"]
  /\ tgt' = [tgt EXCEPT ![p] = opened[p]]
  /\ scan' = [scan EXCEPT ![p] = 0]
  /\ UNCHANGED <<mode, rootLinks, imap, zmap, used, nlink, dir, chunked, data, list, opened,
                 ofop, leaked>>

\* a file opened before its inode was chunked keeps cominix_file_operations;
\* its write takes inode_lock and calls a_ops->write_begin, which
\* empty_aops leaves NULL: the process oopses holding the lock
StaleWrite(p) ==
  /\ pc[p] = "idle" /\ opened[p] # 0 /\ ofop[p] = "plain"
  /\ chunked[opened[p]] /\ ~Locked(opened[p])
  /\ pc' = [pc EXCEPT ![p] = "dead"]
  /\ tgt' = [tgt EXCEPT ![p] = opened[p]]
  /\ UNCHANGED <<mode, rootLinks, imap, zmap, used, nlink, dir, chunked, data, list, scan,
                 opened, ofop, leaked>>

\* cminix_proc_write naming an ordinary file: filp_open, inode_lock, and
\* chunk_and_replace up to ll_alloc_new_block of the list head
ChunkStart(p, n) ==
  /\ pc[p] = "idle" /\ dir[n] # 0
  /\ ~chunked[dir[n]] /\ mode[dir[n]] = "reg" /\ ~Locked(dir[n])
  /\ pc' = [pc EXCEPT ![p] = "chunk"]
  /\ tgt' = [tgt EXCEPT ![p] = dir[n]]
  /\ scan' = [scan EXCEPT ![p] = 0]
  /\ UNCHANGED <<mode, rootLinks, imap, zmap, used, nlink, dir, chunked, data, list, opened,
                 ofop, leaked>>

\* cominix_new_block returned 0: the write fails with -ENOSPC
\* (cominix_write_failed has nothing to truncate); for the list block
\* ll_alloc_new_block hits BUG_ON(!new) and the chunker oopses holding
\* inode_lock and its file
AllocFailed(p) ==
  /\ pc' = [pc EXCEPT ![p] = IF pc[p] = "write" THEN "idle" ELSE "dead"]
  /\ tgt' = IF pc[p] = "write" THEN [tgt EXCEPT ![p] = 0] ELSE tgt

\* chunk_and_replace returns -1 after its list head z was allocated: a
\* negative cdc_get_chunk_size or a failed kernel_read.  Nothing frees
\* the head, the inode keeps its zones and mode, and cminix_proc_write
\* ignores the result, unlocks and closes the file
ChunkFailed(p, z, zm) ==
  /\ zmap' = zm
  /\ leaked' = leaked \cup {z}
  /\ pc' = [pc EXCEPT ![p] = "idle"]
  /\ tgt' = [tgt EXCEPT ![p] = 0]
  /\ UNCHANGED <<data, chunked, list>>

\* mutant: the j >= s_nzones test is missing
ZoneFoundNoRangeCheck(p) ==
  /\ pc[p] \in {"write", "chunk"}
  /\ FirstZero(zmap[scan[p]]) < BPB
  /\ LET j == FirstZero(zmap[scan[p]])
         z == ZoneOf(scan[p], j)
         i == tgt[p]
         zm == [zmap EXCEPT ![scan[p]][j] = TRUE]
     IN \/ /\ z >= FirstDataZone /\ pc[p] = "write"
           /\ zmap' = zm
           /\ data' = [data EXCEPT ![i] = @ \cup {z}]
           /\ pc' = [pc EXCEPT ![p] = "idle"]
           /\ tgt' = [tgt EXCEPT ![p] = 0]
           /\ UNCHANGED <<chunked, list, leaked>>
        \/ /\ z >= FirstDataZone /\ z < NZones /\ pc[p] = "chunk"
           /\ zmap' = FreeAll(data[i], zm)
           /\ data' = [data EXCEPT ![i] = {}]
           /\ list' = [list EXCEPT ![i] = {z}]
           /\ chunked' = [chunked EXCEPT ![i] = TRUE]
           /\ pc' = [pc EXCEPT ![p] = "idle"]
           /\ tgt' = [tgt EXCEPT ![p] = 0]
           /\ UNCHANGED leaked
        \/ /\ z >= FirstDataZone /\ z < NZones /\ pc[p] = "chunk"
           /\ ChunkFailed(p, z, zm)
        \/ /\ (z < FirstDataZone \/ z >= NZones)
           /\ zmap' = zm
           /\ AllocFailed(p)
           /\ UNCHANGED <<data, chunked, list, leaked>>
  /\ scan' = [scan EXCEPT ![p] = 0]
  /\ UNCHANGED <<mode, rootLinks, imap, used, nlink, dir, opened, ofop>>

\* one iteration of the loop of cominix_new_block / cominix_new_block_sb
\* at map block i = scan[p], under bitmap_lock: a clear bit is set and
\* turned into a zone; a zone outside [s_firstdatazone, s_nzones) breaks
\* out and returns 0 (its bit stays set); a full block moves on, and past
\* the last block the result is 0
ZoneFound(p) ==
  /\ pc[p] \in {"write", "chunk"}
  /\ FirstZero(zmap[scan[p]]) < BPB
  /\ LET j == FirstZero(zmap[scan[p]])
         z == ZoneOf(scan[p], j)
         i == tgt[p]
         zm == [zmap EXCEPT ![scan[p]][j] = TRUE]
     IN \/ /\ z >= FirstDataZone /\ z < NZones /\ pc[p] = "write"
           \* cominix_get_block maps the zone into i_data
           /\ zmap' = zm
           /\ data' = [data EXCEPT ![i] = @ \cup {z}]
           /\ pc' = [pc EXCEPT ![p] = "idle"]
           /\ tgt' = [tgt EXCEPT ![p] = 0]
           /\ UNCHANGED <<chunked, list, leaked>>
        \/ /\ z >= FirstDataZone /\ z < NZones /\ pc[p] = "chunk"
           \* the list head; at the end of chunk_and_replace the inode is
           \* truncated to 0 (the ordinary zones are freed), switched to
           \* chunked, zones[1..3] name the list, cominix_write_inode and
           \* cominix_set_inode; inode_unlock, filp_close
           /\ zmap' = FreeAll(data[i], zm)
           /\ data' = [data EXCEPT ![i] = {}]
           /\ list' = [list EXCEPT ![i] = {z}]
           /\ chunked' = [chunked EXCEPT ![i] = TRUE]
           /\ pc' = [pc EXCEPT ![p] = "idle"]
           /\ tgt' = [tgt EXCEPT ![p] = 0]
           /\ UNCHANGED leaked
        \/ /\ z >= FirstDataZone /\ z < NZones /\ pc[p] = "chunk"
           /\ ChunkFailed(p, z, zm)
        \/ /\ (z < FirstDataZone \/ z >= NZones)
           /\ zmap' = zm
           /\ AllocFailed(p)
           /\ UNCHANGED <<data, chunked, list, leaked>>
  /\ scan' = [scan EXCEPT ![p] = 0]
  /\ UNCHANGED <<mode, rootLinks, imap, used, nlink, dir, opened, ofop>>

\* a full map block: the next one, or 0 after the last
ZoneNext(p) ==
  /\ pc[p] \in {"write", "chunk"}
  /\ FirstZero(zmap[scan[p]]) = BPB
  /\ \/ /\ scan[p] + 1 < ZMapBlocks
        /\ scan' = [scan EXCEPT ![p] = @ + 1]
        /\ UNCHANGED <<pc, tgt>>
     \/ /\ scan[p] + 1 = ZMapBlocks
        /\ AllocFailed(p)
        /\ scan' = [scan EXCEPT ![p] = 0]
  /\ UNCHANGED <<mode, rootLinks, imap, zmap, used, nlink, dir, chunked, data, list,
                 opened, ofop, leaked>>

Next ==
  \/ \E n \in Names : Create(n) \/ CreateNoSpace(n) \/ Unlink(n)
                      \/ Mkdir(n) \/ Rmdir(n) \/ Symlink(n)
  \/ \E n, m \in Names : Link(n, m) \/ Rename(n, m)
  \/ \E i \in Inos : Evict(i)
  \/ \E p \in Procs :
       \/ Close(p) \/ WriteStart(p) \/ StaleWrite(p) \/ Tmpfile(p)
       \/ ZoneFound(p) \/ ZoneNext(p)
       \/ \E n \in Names : Open(p, n) \/ ChunkStart(p, n)

Spec == Init /\ [][Next]_vars

-----------------------------------------------------------------------------
\* the zone's bit, found as cominix_free_block finds it
Marked(z) ==
  LET zone == z - FirstDataZone + 1 IN zmap[MapBlk(zone)][Bit(zone)]

\* zones an inode holds: its i_data blocks and its segment list
Owned(i) == data[i] \cup list[i]

\* mutant: the number of map blocks is rounded down
CountFreeTrunc(map, numbits) ==
  MapThenSumSet(LAMBDA i : Cardinality({j \in 0..BPB - 1 : ~map[i][j]}),
                0..(numbits \div BPB) - 1)

\* count_free: the clear bits of the first DIV_ROUND_UP(numbits, BPB) map
\* blocks, whole blocks (16 - hweight16 over every word)
CountFree(map, numbits) ==
  MapThenSumSet(LAMBDA i : Cardinality({j \in 0..BPB - 1 : ~map[i][j]}),
                0..((numbits + BPB - 1) \div BPB) - 1)

\* cominix_count_free_blocks (s_log_zone_size 0) and
\* cominix_count_free_inodes, the f_bfree and f_ffree of cominix_statfs
CountFreeBlocks == CountFree(zmap, NZones - FirstDataZone + 1)
CountFreeInodes == CountFree(imap, NInodes + 1)

\* cominix_statfs: the block and inode totals and free counts it reports
Statfs == [blocks |-> NZones - FirstDataZone, bfree |-> CountFreeBlocks,
           files |-> NInodes, ffree |-> CountFreeInodes]

TypeOK ==
  /\ used \subseteq Inos
  /\ nlink \in [Inos -> 0..MaxLink]
  /\ dir \in [Names -> Inos \cup {0}]
  /\ data \in [Inos -> SUBSET DataZones]
  /\ list \in [Inos -> SUBSET DataZones]
  /\ pc \in [Procs -> {"idle", "write", "chunk", "dead"}]
  /\ scan \in [Procs -> 0..ZMapBlocks - 1]
  /\ opened \in [Procs -> Inos \cup {0}]
  /\ mode \in [Inos -> {"reg", "dir", "lnk"}]
  /\ rootLinks \in 2..2 + Cardinality(Names)

\* i_nlink of every allocated inode counts the directory entries naming
\* it, plus "." for a directory still linked, and every entry names an
\* allocated inode; the root's i_nlink is 2 plus one ".." per
\* subdirectory.  This must survive failed cominix_add_link and
\* make_empty calls in create, link and mkdir, renames of directories
\* over directories, and any order of unlinks and rmdirs.
LinkCounts ==
  /\ \A i \in used :
       LET names == {n \in Names : dir[n] = i}
       IN nlink[i] = Cardinality(names) + (IF IsDir(i) /\ names # {} THEN 1 ELSE 0)
  /\ \A n \in Names : dir[n] # 0 => dir[n] \in used
  /\ rootLinks = 2 + Cardinality({n \in Names : dir[n] # 0 /\ IsDir(dir[n])})

\* The inode map is exact: among inodes 1..s_ninodes, the set bits are
\* the root and the allocated inodes; cominix_new_inode and
\* cominix_free_inode agree on where an inode's bit is.
InodeBitmapExact ==
  {ino \in 1..NInodes : imap[MapBlk(ino)][Bit(ino)]} = {1} \cup used

\* The zone map is exact and ownership exclusive: the set bits of the data
\* zones are the root directory's block, the blocks of the inodes and the
\* zones lost with evicted chunked inodes and failed chunkings; no zone is
\* held twice.
\* The zone scans of concurrent writers and chunkers, the truncation at the
\* end of chunk_and_replace and eviction all keep it.
ZoneOwnership ==
  /\ {z \in DataZones : Marked(z)}
       = {RootZone} \cup leaked \cup UNION {Owned(i) : i \in Inos}
  /\ \A i, k \in Inos : i # k => Owned(i) \cap Owned(k) = {}
  /\ \A i \in Inos : Owned(i) \cap (leaked \cup {RootZone}) = {}

\* cominix_statfs never under-reports: f_ffree is the number of free
\* inodes, and f_bfree counts at least every free data zone (it also
\* counts the clear bits past s_nzones in the last map block it reads).
\* count_free's rounding of the bit count to whole map blocks must agree
\* with where cominix_new_block and cominix_free_block put a zone's bit.
StatfsCounts ==
  /\ Statfs.ffree = Cardinality(Inos \ used)
  /\ Statfs.bfree >= Cardinality({z \in DataZones : ~Marked(z)})

=============================================================================
