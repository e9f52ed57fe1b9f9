\* Two concurrent chunkers whose chunks collide in one bucket: NoUnwrittenHeaderRead.
CONSTANTS
  t1 = t1  t2 = t2  a = a  b = b  c = c
  Threads = {t1, t2}
  Files <- MCFilesRace
  HashOf <- MCHashOf
  LenOf <- MCLenOf
  NBuckets = 2
  BlockSize = 8
  HeadSize = 3
  HeapStart = 8
  MaxBrk = 64
  MaxMounts = 1
  NoThread = NoThread
  NoContent = NoContent
SPECIFICATION Spec
INVARIANTS NoUnwrittenHeaderRead
