\* Two concurrent chunkers over files that share and collide chunks, on a
\* heap that some choices of files exhaust: a chunker that oopses there
\* keeps brk_lock, and the other then waits in mutex_lock for ever, so
\* deadlock checking is off and Termination says which waits are allowed.
CONSTANTS
  t1 = t1  t2 = t2  a = a  b = b  c = c
  Threads = {t1, t2}
  Files <- MCFilesConc
  HashOf <- MCHashOf
  LenOf <- MCLenOf
  NBuckets = 2
  BlockSize = 8
  HeadSize = 3
  HeapStart = 8
  MaxBrk = 28
  MaxMounts = 1
  NoThread = NoThread
  NoContent = NoContent
SPECIFICATION Spec
INVARIANTS AllocationsDisjoint HeadersInOneBlock ReadBack
PROPERTIES Termination
CHECK_DEADLOCK FALSE
