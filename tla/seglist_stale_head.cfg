CONSTANTS
  Blocks = {1, 2}
  EPB = 2
  MaxCount = 4
  Entries <- MCEntries
  InitDisk <- MCDiskStale
  InitFree <- MCFree
  NotCached = NotCached
  ReadCounts = {1, 3}
  HeapBlocks = {0, 1}
SPECIFICATION Spec
INVARIANTS ExhaustedFails
