\* Two chunkers on a heap that runs out: chunk_alloc BUG()s holding brk_lock,
\* so the other chunker may block for ever; the system really stops here.
CONSTANTS
  t1 = t1  t2 = t2  a = a  b = b  c = c
  Threads = {t1, t2}
  Files <- MCFilesConc
  HashOf <- MCHashOf
  LenOf <- MCLenOf
  NBuckets = 2
  BlockSize = 8
  HeadSize = 3
  HeapStart = 8
  MaxBrk = 20
  MaxMounts = 1
  NoThread = NoThread
  NoContent = NoContent
SPECIFICATION Spec
INVARIANTS NothingPastMaxBrk
CHECK_DEADLOCK FALSE
