\* Two processes and two names over a volume of two inodes (files,
\* directories or symlinks) and three free data zones in three zone-map blocks of two
\* bits; the sixth bit lies past s_nzones, in the hash-table region.  A
\* file maps up to two zones by writing, so a truncate or an eviction frees
\* several at once; with a directory block and a list head they fill the map.
CONSTANTS
  p1 = p1
  p2 = p2
  a = a
  b = b
  Procs = {p1, p2}
  Names = {a, b}
  BPB = 2
  IMapBlocks = 2
  ZMapBlocks = 3
  NInodes = 3
  FirstDataZone = 8
  NZones = 12
  MaxZones = 2
  MaxLink = 2
SYMMETRY MCSymmetry
SPECIFICATION Spec
INVARIANTS TypeOK LinkCounts InodeBitmapExact ZoneOwnership StatfsCounts
