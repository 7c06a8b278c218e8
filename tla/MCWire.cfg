SPECIFICATION Spec
CONSTANTS
  Start <- MCStart
  TokenOk <- MCTokenOk
  HDR = 8
  MinLen = 10
  MaxLen = 14
  ChunkMax = 24
  Bodies = {0, 65523}
  Sums = {0, 137, 65288}
  Pieces = {40000}
INVARIANTS TypeOK HandledInOrder NothingLeftBehind RepliesPassGate
CHECK_DEADLOCK FALSE
