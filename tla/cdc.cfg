CONSTANTS
  Bytes = {0, 1}
  Gear <- MCGear
  W = 3
  MaskS = 5
  MaskL = 5
  MinSize = 2
  NormalSize = 4
  MaxSize = 7
  Files <- MCFiles
SPECIFICATION Spec
INVARIANTS MatchesReference ChunkBounds
PROPERTY Termination
