---------------------------- MODULE ProcChunker ----------------------------
(***************************************************************************)
(* The control file /proc/fs/cominix/chunker: cminix_proc_write in        *)
(* src/src/file.c, run by several writers at once.  Each names a path;   *)
(* the handler opens it, refuses a foreign or non-regular file, takes     *)
(* inode_lock, refuses a file whose i_fop is not cominix_file_operations, *)
(* runs chunk_and_replace and unlocks.                                    *)
(*                                                                         *)
(* chunk_and_replace itself is two steps here: its body (Chunk), which   *)
(* can fail with -1 on a negative chunk size or a read error, and its     *)
(* end, where cominix_set_inode switches i_fop to chunked_file_operations *)
(* (Finalize).  What it does to the store and the list is in ChunkStore   *)
(* and SegmentList.  buf_copy, the kmalloc'd copy of the path, is         *)
(* tracked so that the paths that never free it are visible.              *)
(***************************************************************************)
EXTENDS Naturals, FiniteSets

CONSTANTS
  Writers,    \* processes writing a path to the control file
  Inodes,     \* inodes the paths can name
  Kind,       \* Inodes -> {"reg", "dir", "foreign"}
  Missing,    \* a path filp_open cannot open
  NoOne       \* inode_lock is free

\* i_fop: cominix_file_operations, chunked_file_operations, anything else
Fops == {"plain", "chunked", "other"}

VARIABLES
  pc,        \* writer -> where it is in cminix_proc_write
  target,    \* writer -> the inode its path names, or Missing
  ret,       \* writer -> its return value: "count", "err" or "none" yet
  fop,       \* inode -> its i_fop
  lock,      \* inode -> holder of inode_lock
  buf,       \* writer -> buf_copy: "none" yet, "held" or "freed"
  chunkRuns, \* history: inode -> number of chunk_and_replace runs on it
  switches   \* history: inode -> number of finalisations (i_fop switches)

vars == <<pc, target, ret, fop, lock, buf, chunkRuns, switches>>


Init ==
  /\ target \in [Writers -> Inodes \cup {Missing}]
  /\ fop \in [Inodes -> Fops]
  /\ pc = [w \in Writers |-> "open"]
  /\ ret = [w \in Writers |-> "none"]
  /\ lock = [i \in Inodes |-> NoOne]
  /\ buf = [w \in Writers |-> "none"]
  /\ chunkRuns = [i \in Inodes |-> 0]
  /\ switches = [i \in Inodes |-> 0]

\* the writer w returns from cminix_proc_write with value v
Return(w, v) ==
  /\ pc' = [pc EXCEPT ![w] = "done"]
  /\ ret' = [ret EXCEPT ![w] = v]

\* kmalloc of buf_copy fails, or copy_from_user fails (WARN_ON): both
\* return -1, the second without kfree(buf_copy)
CopyFailed(w) ==
  \/ /\ Return(w, "err")
     /\ UNCHANGED buf
  \/ /\ Return(w, "err")
     /\ buf' = [buf EXCEPT ![w] = "held"]

\* the buffer copy, filp_open and the two checks before the lock: a path
\* that does not open goes to open_err, a foreign or non-regular file to
\* general_err, which falls into open_err; both kfree(buf_copy) and
\* return -1
Open(w) ==
  /\ pc[w] = "open"
  /\ \/ CopyFailed(w)
     \/ IF target[w] = Missing \/ Kind[target[w]] # "reg"
          THEN /\ Return(w, "err")
               /\ buf' = [buf EXCEPT ![w] = "freed"]
          ELSE /\ pc' = [pc EXCEPT ![w] = "lock"]
               /\ buf' = [buf EXCEPT ![w] = "held"]
               /\ UNCHANGED ret
  /\ UNCHANGED <<target, fop, lock, chunkRuns, switches>>

\* mutant: no inode_lock
LockNoop(w) ==
  /\ pc[w] = "lock"
  /\ pc' = [pc EXCEPT ![w] = "check"]
  /\ UNCHANGED <<target, ret, fop, lock, buf, chunkRuns, switches>>

\* inode_lock(filp->f_inode): blocks while another writer holds it
Lock(w) ==
  /\ pc[w] = "lock"
  /\ lock[target[w]] = NoOne
  /\ lock' = [lock EXCEPT ![target[w]] = w]
  /\ pc' = [pc EXCEPT ![w] = "check"]
  /\ UNCHANGED <<target, ret, fop, buf, chunkRuns, switches>>

\* the i_fop test under the lock: an already chunked file or an unknown
\* i_fop goes to general_err, which closes the file, frees buf_copy and
\* returns -1 without inode_unlock
Check(w) ==
  /\ pc[w] = "check"
  /\ IF fop[target[w]] = "plain"
       THEN /\ pc' = [pc EXCEPT ![w] = "chunk"]
            /\ UNCHANGED <<ret, buf>>
       ELSE /\ Return(w, "err")
            /\ buf' = [buf EXCEPT ![w] = "freed"]
  /\ UNCHANGED <<target, fop, lock, chunkRuns, switches>>

\* the writer w oopses inside chunk_and_replace: the task dies where it is,
\* and inode_lock stays held by it
Oops(w) ==
  /\ pc' = [pc EXCEPT ![w] = "dead"]
  /\ UNCHANGED ret

\* kfree(buf_copy); chunk_and_replace(filp) up to its finalisation.  The
\* loop returns -1 when cdc_get_chunk_size is negative (WARN_ON) or
\* kernel_read fails; the file keeps its i_fop, and cminix_proc_write
\* ignores the result and goes on to unlock.  The body oopses when
\* ll_alloc_new_block finds no zone (linked_list.h BUG_ON), when kmalloc of
\* the chunk buffer fails (BUG_ON(!buf)), or when chunk_alloc exhausts the
\* heap (BUG()), with inode_lock held
Chunk(w) ==
  /\ pc[w] = "chunk"
  /\ chunkRuns' = [chunkRuns EXCEPT ![target[w]] = @ + 1]
  /\ buf' = [buf EXCEPT ![w] = "freed"]
  /\ \/ /\ pc' = [pc EXCEPT ![w] = "finalize"]
        /\ UNCHANGED ret
     \/ /\ pc' = [pc EXCEPT ![w] = "unlock"]
        /\ UNCHANGED ret
     \/ Oops(w)
  /\ UNCHANGED <<target, fop, lock, switches>>

\* the end of chunk_and_replace: switch_inode_to_chunked, zones[1..3],
\* cominix_write_inode and cominix_set_inode, which installs
\* chunked_file_operations.  cominix_write_inode returns -EIO when the
\* inode's block cannot be read, and BUG_ON(ret) then oopses before
\* cominix_set_inode, with inode_lock held and i_fop unchanged
Finalize(w) ==
  /\ pc[w] = "finalize"
  /\ \/ /\ fop' = [fop EXCEPT ![target[w]] = "chunked"]
        /\ switches' = [switches EXCEPT ![target[w]] = @ + 1]
        /\ pc' = [pc EXCEPT ![w] = "unlock"]
        /\ UNCHANGED ret
     \/ /\ Oops(w)
        /\ UNCHANGED <<fop, switches>>
  /\ UNCHANGED <<target, lock, buf, chunkRuns>>

\* mutant: inode_unlock is missing after chunk_and_replace
UnlockNoRelease(w) ==
  /\ pc[w] = "unlock"
  /\ Return(w, "count")
  /\ UNCHANGED <<target, fop, lock, buf, chunkRuns, switches>>

\* inode_unlock, filp_close, return count
Unlock(w) ==
  /\ pc[w] = "unlock"
  /\ lock' = [lock EXCEPT ![target[w]] = NoOne]
  /\ Return(w, "count")
  /\ UNCHANGED <<target, fop, buf, chunkRuns, switches>>

\* every write has returned or its task has died
Terminated == (\A w \in Writers : pc[w] \in {"done", "dead"}) /\ UNCHANGED vars

Next ==
  \/ \E w \in Writers :
       Open(w) \/ Lock(w) \/ Check(w) \/ Chunk(w) \/ Finalize(w) \/ Unlock(w)
  \/ Terminated

Spec == Init /\ [][Next]_vars /\ \A w \in Writers : WF_vars(Open(w) \/ Lock(w) \/ Check(w) \/ Chunk(w) \/ Finalize(w) \/ Unlock(w))

-----------------------------------------------------------------------------
\* Spec 4.4 and 5: an inode is switched to chunked mode at most once, and
\* no two chunk_and_replace runs overlap on it, neither two writers at
\* once nor a second writer after the first switched i_fop.  A run that
\* failed leaves i_fop alone, so a later write may chunk the file again;
\* inode_lock and the i_fop test under it are what exclude the rest.
ChunkedOnce ==
  /\ \A i \in Inodes : switches[i] <= 1
  /\ \A i \in Inodes : Cardinality({w \in Writers :
        target[w] = i /\ pc[w] \in {"chunk", "finalize"}}) <= 1

\* the writers that still hold inode i's lock although they will never
\* release it: they returned -1 from the i_fop test (general_err after
\* inode_lock), or oopsed inside chunk_and_replace
LeakedBy(i) ==
  {v \in Writers : lock[i] = v /\ (pc[v] = "dead" \/ (pc[v] = "done" /\ ret[v] = "err"))}

\* Every write to the control file returns or oopses, unless it waits in
\* inode_lock for ever behind a writer that left through general_err or
\* oopsed holding that lock: no path through cminix_proc_write and
\* chunk_and_replace, failed chunkings included, leaves an inode locked by
\* a writer that returned normally, or a writer stuck anywhere else.
ReturnsUnlessLeaked ==
  \A w \in Writers :
    <>(pc[w] \in {"done", "dead"} \/ (pc[w] = "lock" /\ LeakedBy(target[w]) # {}))

\* A write to the control file returns with no inode_lock held by it:
\* every path out of cminix_proc_write that took inode_lock releases it.
NoLockHeldOnReturn ==
  \A w \in Writers : pc[w] = "done" => \A i \in Inodes : lock[i] # w

=============================================================================
