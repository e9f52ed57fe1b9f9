\* One chunker over a file with repeated and colliding chunks, on a heap
\* small enough that the longer files run out of it.
CONSTANTS
  t1 = t1  t2 = t2  a = a  b = b  c = c
  Threads = {t1}
  Files <- MCFilesSeq
  HashOf <- MCHashOf
  LenOf <- MCLenOf
  NBuckets = 2
  BlockSize = 8
  HeadSize = 3
  HeapStart = 8
  MaxBrk = 25
  MaxMounts = 2
  NoThread = NoThread
  NoContent = NoContent
SPECIFICATION Spec
INVARIANTS TypeOK DedupUnique ChainComplete NothingPastMaxBrk AllocationsDisjoint ReadBack
PROPERTIES PersistedBrkMonotone
