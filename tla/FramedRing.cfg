SPECIFICATION FairSpec
CONSTANTS
  Capacity = 7
  Base = 2
  Payloads <- SamplePayloads
  MaxFrames = 4
  OutCap = 3
INVARIANTS FramesKept
PROPERTIES BrimsOnlyAtOrigin Delivered
CHECK_DEADLOCK FALSE
