SPECIFICATION FairSpec
CONSTANTS
  MaxBytes = 4
  SrcCap = 2
  PipeCap = 2
  SoftCap = 3
  Chunk = 2
  SnkCap = 1
INVARIANTS IInv
PROPERTIES ImplementsChannel EndsAfterWriter  
