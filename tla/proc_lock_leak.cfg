CONSTANTS
  Writers = {w1, w2}
  Inodes = {r, d, x}
  r = r
  d = d
  x = x
  Kind <- MCKind
  Missing = Missing
  NoOne = NoOne
SPECIFICATION Spec
INVARIANTS NoLockHeldOnReturn
