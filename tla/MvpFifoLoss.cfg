SPECIFICATION Spec
CONSTANTS
  MaxBytes = 4
  SrcCap = 2
  PipeCap = 2
  SoftCap = 2
  Chunk = 2
  SnkCap = 1
INVARIANTS Lossless
