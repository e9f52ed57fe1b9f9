CONSTANTS
  Writers = {w1, w2}
  Inodes = {r, d, x}
  r = r
  d = d
  x = x
  Kind <- MCKind
  Missing = Missing
  NoOne = NoOne
SPECIFICATION Spec
INVARIANT ChunkedOnce
PROPERTY ReturnsUnlessLeaked
CHECK_DEADLOCK FALSE
